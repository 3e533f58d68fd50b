-------------------------- MODULE PolicyGate_proofs --------------------------
(* Proof that the manual gate of provisioning is respected, for every set of   *)
(* CRs, spec, mode and bound.                                                  *)
EXTENDS PolicyGate, PolicyPromise_proofs

-----------------------------------------------------------------------------
(* Wherever an approval is seen - the object, the cache, the snapshot of a     *)
(* reconcile - the generation seen with it was approved; only an approved      *)
(* snapshot comes to provision; and so what is in force was approved.          *)
Gate(c) ==
  /\ cr[c].approved => cr[c].gen \in blessed[c]
  /\ cache[c].approved => cache[c].gen \in blessed[c]
  /\ wk[c].pc \notin {"idle", "status"} /\ wk[c].approved => wk[c].gen \in blessed[c]
  /\ wk[c].pc = "provision" => Provisionable(wk[c])
  /\ ProvisioningMode = "manual" /\ active[c].exists => active[c].gen \in blessed[c]

GInv == IInv /\ \A c \in CR : Gate(c)

(* A reconcile starts with the approval the cache shows. *)
LEMMA BeginApproved ==
  ASSUME TypeOK, NEW c \in CR
  PROVE  LET w == Begin(c) IN
         w.pc \notin {"idle", "status"} =>
           /\ w.gen = cache[c].gen /\ w.approved = cache[c].approved
           /\ w.pc # "provision"
<1>1. /\ Snapshot(c) \in Worker /\ Snapshot(c).gen = cache[c].gen
      /\ Snapshot(c).approved = cache[c].approved
  BY SnapshotType DEF Snapshot, Idle
<1> DEFINE f == [Snapshot(c) EXCEPT !.pc = "finresolve"]
           a == [Snapshot(c) EXCEPT !.pc = "addfin"]
           s == [Snapshot(c) EXCEPT !.pc = "resolve"]
<1>2. f.pc = "finresolve" /\ f.gen = cache[c].gen /\ f.approved = cache[c].approved
  BY <1>1 DEF Worker
<1>3. a.pc = "addfin" /\ a.gen = cache[c].gen /\ a.approved = cache[c].approved
  BY <1>1 DEF Worker
<1>4. s.pc = "resolve" /\ s.gen = cache[c].gen /\ s.approved = cache[c].approved
  BY <1>1 DEF Worker
<1>5. Compiled(c, Snapshot(c)) = s \/ Compiled(c, Snapshot(c)).pc = "status"
  BY DEF Compiled, Verdict, Idle
<1>6. \/ Begin(c) = f \/ Begin(c) = a \/ Begin(c) = Compiled(c, Snapshot(c))
      \/ Begin(c).pc = "idle"
  BY DEF Begin, Idle
<1> HIDE DEF f, a, s
<1> QED BY <1>2, <1>3, <1>4, <1>5, <1>6

(* How the reconcile of c may move: it ends, it goes on with its snapshot -    *)
(* coming to provision only when it may - or it starts.                        *)
Moves(c) ==
  \/ wk'[c].pc \in {"idle", "status"}
  \/ /\ wk[c].pc \notin {"idle", "status"}
     /\ wk'[c].gen = wk[c].gen /\ (wk'[c].approved => wk[c].approved)
     /\ wk'[c].pc = "provision" => Provisionable(wk'[c])
  \/ wk'[c] = Begin(c) /\ UNCHANGED <<cr, cache, active>>

(* Every step moves every reconcile in one of these ways. *)
LEMMA EveryMove ==
  ASSUME GInv, [Next]_vars, NEW c \in CR
  PROVE  Moves(c)
<1>1. TypeOK /\ Gate(c) /\ wk[c] \in Worker
  BY DEF GInv, IInv, TypeOK
<1>2. ASSUME wk'[c] = wk[c] PROVE Moves(c)
  BY <1>1, <1>2 DEF Moves, Gate
<1>3. CASE UNCHANGED vars \/ Environment
  BY <1>2, <1>3 DEF vars, work, Environment, AddLabel, ChangeReadiness, Relabel
<1>4. CASE Restart
  BY <1>4 DEF Restart, Moves, Idle
<1>5. ASSUME NEW d \in CR, Silent(d) PROVE Moves(c)
  <2>1. GoesOn(d)
    BY <1>1, <1>5, SilentGoesOn
  <2>2. CASE d # c
    BY <1>2, <2>1, <2>2 DEF GoesOn
  <2>3. CASE d = c
    <3>1. wk[c].pc \notin {"idle", "status"}
      BY <1>5, <2>3 DEF Silent, ResolveProfile, ResolveProvider, ResolveAllow, MintLabel, ResolveNarrow,
           FindRuleSet, CreateRuleSet, ListRules, DeleteRule, FindService, CreateRule, Provision,
           FinalizeResolve, FinalizeFind, FinalizeDelete, FinalizeProvision
    <3> QED BY <2>1, <2>3, <3>1 DEF GoesOn, Onward, Moves, Idle, Provisionable
  <2> QED BY <2>2, <2>3
<1>6. ASSUME NEW d \in CR, AddFinalizer(d) \/ UpdateStatus(d) \/ RemoveFinalizer(d)
      PROVE  Moves(c)
  <2>1. CASE d # c
    <3>1. wk'[c] = wk[c]
      BY <1>1, <1>6, <2>1 DEF TypeOK, AddFinalizer, UpdateStatus, RemoveFinalizer, Answered,
                              Continue, Refused, Backoff
    <3> QED BY <1>2, <3>1
  <2>2. CASE d = c
    <3> DEFINE w == [wk[c] EXCEPT !.pc = "resolve"]
    <3>1. w.pc = "resolve" /\ w.gen = wk[c].gen /\ w.approved = wk[c].approved
      BY <1>1 DEF Worker
    <3>2. Compiled(c, wk[c]) = w \/ Compiled(c, wk[c]).pc = "status"
      BY DEF Compiled, Verdict, Idle
    <3>3. wk'[c] = Idle \/ (wk'[c] = Compiled(c, wk[c]) /\ wk[c].pc = "addfin")
      BY <1>1, <1>6, <2>2 DEF TypeOK, AddFinalizer, UpdateStatus, RemoveFinalizer, Answered,
                              Continue, Refused, Backoff
    <3> HIDE DEF w
    <3> QED BY <3>1, <3>2, <3>3 DEF Moves, Idle
  <2> QED BY <2>1, <2>2
<1>7. ASSUME NEW d \in CR, User(d) PROVE Moves(c)
  <2>1. wk' = [wk EXCEPT ![d].own = FALSE]
    BY <1>7 DEF User, Create, Edit, Approve, Delete, Touch
  <2>2. /\ wk'[c].pc = wk[c].pc /\ wk'[c].gen = wk[c].gen /\ wk'[c].approved = wk[c].approved
    BY <1>1, <2>1 DEF TypeOK, Worker
  <2> QED BY <1>1, <2>2 DEF Moves, Gate, Provisionable
<1>8. ASSUME NEW d \in CR, CacheSync(d) \/ TimerFire(d) PROVE Moves(c)
  BY <1>2, <1>8 DEF CacheSync, TimerFire
<1>9. ASSUME NEW d \in CR, Start(d) PROVE Moves(c)
  <2>1. wk' = [wk EXCEPT ![d] = Begin(d)] /\ UNCHANGED <<cr, cache, active>>
    BY <1>9 DEF Start, kube, pce
  <2>2. wk'[c] = wk[c] \/ wk'[c] = Begin(c)
    BY <1>1, <2>1 DEF TypeOK
  <2> QED BY <1>2, <2>1, <2>2 DEF Moves
<1>10. ASSUME NEW d \in CR, CallFails(d) \/ RateLimited(d) PROVE Moves(c)
  <2>1. CASE CallFails(d)
    <3>1. wk'[c] = wk[c] \/ wk'[c] = Idle
      BY <1>1, <2>1 DEF TypeOK, CallFails, Backoff
    <3> QED BY <1>2, <3>1 DEF Moves, Idle
  <2>2. CASE RateLimited(d)
    <3>1. PICK b : wk' = [wk EXCEPT ![d] = Verdict(wk[d], "RateLimited", "keep", b)]
      BY <2>2 DEF RateLimited
    <3>2. Verdict(wk[d], "RateLimited", "keep", b).pc = "status"
      BY DEF Verdict, Idle
    <3>3. wk'[c] = wk[c] \/ wk'[c].pc = "status"
      BY <1>1, <3>1, <3>2 DEF TypeOK
    <3> QED BY <1>2, <3>3 DEF Moves
  <2> QED BY <1>10, <2>1, <2>2
<1>11. CASE \E d \in CR : Reconcile(d)
  BY <1>5, <1>6, <1>11 DEF Reconcile, Silent
<1> QED BY <1>3, <1>4, <1>7, <1>8, <1>9, <1>10, <1>11 DEF Next

(* The cache copies the object of the same step. *)
LEMMA CacheMoves ==
  ASSUME TypeOK, [Next]_vars, NEW c \in CR
  PROVE  cache'[c] = cache[c] \/ cache'[c] = View(cr[c])
<1>1. CASE \E d \in CR : CacheSync(d)
  BY <1>1 DEF TypeOK, CacheSync
<1>2. CASE Restart
  BY <1>2 DEF Restart
<1>3. CASE UNCHANGED cache
  BY <1>3
<1>4. \/ UNCHANGED cache \/ Restart \/ \E d \in CR : CacheSync(d)
  BY DEF Next, Reconcile, User, Environment, AddLabel, ChangeReadiness, Relabel, vars, kube,
         TimerFire, Start, CallFails, RateLimited, AddFinalizer, ResolveProfile,
         ResolveProvider, ResolveAllow, MintLabel, ResolveNarrow, FindRuleSet, CreateRuleSet, ListRules,
         DeleteRule, FindService, CreateRule, Provision, UpdateStatus, FinalizeResolve,
         FinalizeFind, FinalizeDelete, FinalizeProvision, RemoveFinalizer, Create, Edit,
         Approve, Delete, Touch, Store
<1> QED BY <1>1, <1>2, <1>3, <1>4

(* What is in force changes only by provisioning: a draft by a reconcile that  *)
(* came to provision it, or a pending deletion.                                *)
LEMMA ActiveMoves ==
  ASSUME IInv, [Next]_vars, NEW c \in CR
  PROVE  \/ active'[c] = active[c]
         \/ wk[c].pc = "provision" /\ active'[c].gen = wk[c].gen
         \/ ~ active'[c].exists
<1>1. TypeOK
  BY DEF IInv
<1>2. \/ UNCHANGED active \/ \E d \in CR : Provision(d) \/ FinalizeProvision(d)
  BY DEF Next, Reconcile, User, Environment, AddLabel, ChangeReadiness, Relabel, vars, pce,
         CacheSync, TimerFire, Start, CallFails, RateLimited, Restart, AddFinalizer,
         ResolveProfile, ResolveProvider, ResolveAllow, MintLabel, ResolveNarrow, FindRuleSet,
         CreateRuleSet, ListRules, DeleteRule, FindService, CreateRule, UpdateStatus,
         FinalizeResolve, FinalizeFind, FinalizeDelete, RemoveFinalizer, Create, Edit,
         Approve, Delete, Touch
<1>3. ASSUME NEW d \in CR, Provision(d)
      PROVE  \/ active'[c] = active[c]
             \/ wk[c].pc = "provision" /\ active'[c].gen = wk[c].gen
             \/ ~ active'[c].exists
  <2>1. UNCHANGED active \/ Provisioned(d, wk[d].gen)
    BY <1>3 DEF Provision
  <2>2. Provisioned(d, wk[d].gen) =>
          \/ active'[c] = active[c]
          \/ d = c /\ active'[c].gen = wk[c].gen
          \/ ~ active'[c].exists
    BY <1>1 DEF TypeOK, Provisioned, NotActive
  <2> QED BY <1>3, <2>1, <2>2 DEF Provision
<1>4. ASSUME NEW d \in CR, FinalizeProvision(d)
      PROVE  active'[c] = active[c] \/ ~ active'[c].exists
  <2>1. wk[d].pc = "finprovision" /\ Good(d)
    BY <1>4 DEF FinalizeProvision, IInv
  <2>2. CASE ~ draft[d].exists
    BY <1>4, <2>2 DEF FinalizeProvision
  <2>3. CASE draft[d].exists
    <3>1. draft[d].marked
      BY <2>1, <2>3 DEF Good, Fits, Finalizing
    <3>2. active' = [active EXCEPT ![d] = NotActive]
      BY <1>4, <2>3, <3>1 DEF FinalizeProvision, Provisioned
    <3> QED BY <1>1, <3>2 DEF TypeOK, NotActive
  <2> QED BY <2>2, <2>3
<1> QED BY <1>2, <1>3, <1>4

(* Every step respects the gate. *)
LEMMA NextGate ==
  ASSUME GInv, [GateNext]_<<vars, blessed>>
  PROVE  GInv'
<1>1. [Next]_vars
  BY DEF GateNext
<1>2. IInv'
  BY <1>1, NextInvariant DEF GInv
<1>3. ASSUME NEW c \in CR PROVE Gate(c)'
  <2>1. Gate(c) /\ TypeOK /\ IInv
    BY DEF GInv, IInv
  <2>2. blessed[c] \subseteq blessed'[c] /\ (cr'[c].approved => cr'[c].gen \in blessed'[c])
    <3>1. CASE GateNext
      BY <3>1 DEF GateNext
    <3>2. CASE UNCHANGED <<vars, blessed>>
      BY <2>1, <3>2 DEF vars, kube, Gate
    <3> QED BY <3>1, <3>2
  <2>3. cache'[c].approved => cache'[c].gen \in blessed'[c]
    <3>1. cache'[c] = cache[c] \/ cache'[c] = View(cr[c])
      BY <1>1, <2>1, CacheMoves
    <3>2. (View(cr[c]).approved => cr[c].approved) /\ View(cr[c]).gen = cr[c].gen
      BY DEF View
    <3>3. CASE cache'[c] = cache[c]
      BY <2>1, <2>2, <3>3 DEF Gate
    <3>4. CASE cache'[c] = View(cr[c])
      BY <2>1, <2>2, <3>2, <3>4 DEF Gate
    <3> QED BY <3>1, <3>3, <3>4
  <2>4. Moves(c)
    BY <1>1, EveryMove
  <2>5. wk'[c].pc \notin {"idle", "status"} /\ wk'[c].approved => wk'[c].gen \in blessed'[c]
    BY <2>1, <2>2, <2>4, BeginApproved DEF Moves, Gate
  <2>6. wk'[c].pc = "provision" => Provisionable(wk'[c])
    BY <2>1, <2>4, BeginApproved DEF Moves
  <2>7. ProvisioningMode = "manual" /\ active'[c].exists => active'[c].gen \in blessed'[c]
    <3>1. wk[c].pc = "provision" /\ ProvisioningMode = "manual" => wk[c].gen \in blessed'[c]
      BY <2>1, <2>2 DEF Gate, Provisionable
    <3> QED BY <1>1, <2>1, <2>2, <3>1, ActiveMoves DEF Gate
  <2> QED BY <2>2, <2>3, <2>5, <2>6, <2>7 DEF Gate, Provisionable
<1> QED BY <1>2, <1>3 DEF GInv

(* In manual mode nothing comes into force but a generation that carried the   *)
(* approval, however its removal and an edit race a reconcile.                 *)
THEOREM Gated == GateSpec => []GateRespected
<1>1. GateInit => GInv
  <2> SUFFICES ASSUME GateInit PROVE GInv
    OBVIOUS
  <2>1. ASSUME NEW c \in CR PROVE Gate(c)
    <3>1. ~ cr[c].approved /\ cache[c] = View(cr[c]) /\ wk[c] = Idle /\ active[c] = NotActive
      BY DEF GateInit, Init
    <3> QED BY <3>1 DEF Gate, View, Idle, NotActive
  <2> QED BY <2>1, InitInvariant DEF GInv, GateInit
<1>2. GInv /\ [GateNext]_<<vars, blessed>> => GInv'
  BY NextGate
<1>3. GInv => GateRespected
  BY DEF GInv, Gate, GateRespected
<1> QED BY <1>1, <1>2, <1>3, PTL DEF GateSpec
=============================================================================
