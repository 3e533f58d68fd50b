------------------------ MODULE PolicyMeaning_proofs ------------------------
(* Proofs that the compiler keeps the meaning of every spec, and that what the *)
(* PCE enforces permits what an author granted, for every set of labels, ports,*)
(* CRs and specs.                                                              *)
EXTENDS PolicyTranslation, PolicyLifecycle_proofs

-----------------------------------------------------------------------------
(* Ports and rules *)

(* The services a list of ports is lowered to are the ports its author means:  *)
(* TCP is implied, an empty list is all of them.                               *)
LEMMA PortsMean ==
  ASSUME NEW ports \in SUBSET SourcePort, NEW p \in Port
  PROVE  OnPort(ports, p) <=> Services(ports) = {} \/ p \in Services(ports)
<1>1. p = <<p[1], p[2]>> /\ p[1] \in {6, 17} /\ p[2] \in PortNumber
  BY PortAssumption
<1>2. Services(ports) = {} <=> ports = {}
  BY DEF Services
<1>3. p \in Services(ports) <=>
        \E q \in ports : q[2] = p[2] /\ (IF q[1] = "UDP" THEN p[1] = 17 ELSE p[1] = 6)
  BY <1>1 DEF Services
<1> QED
  BY <1>2, <1>3 DEF OnPort

(* What an allow entry of a lowered spec permits in scope sc. *)
Admits(sc, s, a, x) ==
  /\ sc \cup s.to \subseteq x[2] /\ a.from \subseteq x[1]
  /\ a.intra => sc \subseteq x[1]
  /\ a.ports = {} \/ x[3] \in a.ports

(* When every look-up gave an href, the rules built permit what the entries do.*)
LEMMA RulesMean ==
  ASSUME NEW s \in PolicySpec, NEW sc
  PROVE  Permitted(sc, Rules(s, Lookups(s))) =
           {x \in Connection : \E a \in s.allows : Admits(sc, s, a, x)}
<1>1. ASSUME NEW a \in s.allows
      PROVE  /\ a \in Kept(s, Lookups(s))
             /\ RuleOf(s, a, Lookups(s)) =
                  [to |-> s.to, from |-> a.from, intra |-> a.intra, ports |-> a.ports]
  <2>1. a.from \subseteq Label
    BY DEF PolicySpec, Allow
  <2>2. \A l \in a.from : <<a, l>> \in Lookups(s)
    BY <2>1 DEF Lookups
  <2> QED
    BY <2>2 DEF Kept, RuleOf
<1>2. Rules(s, Lookups(s)) =
        {[to |-> s.to, from |-> a.from, intra |-> a.intra, ports |-> a.ports] : a \in s.allows}
  BY <1>1 DEF Rules, Kept
<1>3. ASSUME NEW x \in Connection
      PROVE  (\E r \in Rules(s, Lookups(s)) : RulePermits(sc, r, x))
               <=> \E a \in s.allows : Admits(sc, s, a, x)
  <2> DEFINE lowered(a) == [to |-> s.to, from |-> a.from, intra |-> a.intra, ports |-> a.ports]
  <2>1. \A a \in s.allows : RulePermits(sc, lowered(a), x) <=> Admits(sc, s, a, x)
    BY DEF RulePermits, Admits
  <2>2. Rules(s, Lookups(s)) = {lowered(a) : a \in s.allows}
    BY <1>2
  <2> HIDE DEF lowered
  <2> QED
    BY <2>1, <2>2
<1> QED
  BY <1>3 DEF Permitted

-----------------------------------------------------------------------------
(* The two front ends *)

(* An accepted intent is lowered to entries that admit what it grants.         *)
LEMMA IntentMeans ==
  ASSUME NEW s \in IntentSpec, CompileIntent(s).valid, NEW sc, NEW x \in Connection
  PROVE  (\E a \in CompileIntent(s).allows : Admits(sc, CompileIntent(s), a, x))
           <=> IntentGrants(s, sc, x)
<1> DEFINE low == CompileIntent(s)
           to == sc \cup s.provider \subseteq x[2]
<1>1. /\ low.to = s.provider
      /\ low.allows = {LowerAllow(a) : a \in s.allow}
                      \cup (IF s.allowIntra THEN {AnyInScope} ELSE {})
      /\ \A a \in s.allow : WellFormedAllow(a)
  BY DEF CompileIntent
<1>2. x[3] \in Port
  BY DEF Connection
<1>3. ASSUME NEW a \in s.allow
      PROVE  Admits(sc, low, LowerAllow(a), x) <=>
               /\ to /\ OnPort(a.ports, x[3])
               /\ IF a.from # {} THEN a.from \subseteq x[1]
                                 ELSE sc \cup a.fromIntra \subseteq x[1]
  <2>1. a \in IntentAllow /\ WellFormedAllow(a)
    BY <1>1 DEF IntentSpec
  <2>2. OnPort(a.ports, x[3]) <=> Services(a.ports) = {} \/ x[3] \in Services(a.ports)
    BY <1>2, <2>1, PortsMean DEF IntentAllow
  <2>3. CASE a.from # {}
    <3>1. a.fromIntra = {}
      BY <2>1, <2>3 DEF WellFormedAllow
    <3> QED
      BY <1>1, <2>2, <2>3, <3>1 DEF Admits, LowerAllow
  <2>4. CASE a.from = {}
    BY <1>1, <2>2, <2>4 DEF Admits, LowerAllow
  <2> QED
    BY <2>3, <2>4
<1>4. Admits(sc, low, AnyInScope, x) <=> to /\ sc \subseteq x[1]
  BY <1>1 DEF Admits, AnyInScope
<1> HIDE DEF low
<1>5. (\E a \in low.allows : Admits(sc, low, a, x)) <=>
        \/ s.allowIntra /\ Admits(sc, low, AnyInScope, x)
        \/ \E a \in s.allow : Admits(sc, low, LowerAllow(a), x)
  BY <1>1
<1> QED
  BY <1>3, <1>4, <1>5 DEF IntentGrants, low

(* So is an accepted policy, peer by peer.                                     *)
LEMMA PolicyMeans ==
  ASSUME NEW s \in NetworkSpec, CompilePolicy(s).valid, NEW sc, NEW x \in Connection
  PROVE  (\E a \in CompilePolicy(s).allows : Admits(sc, CompilePolicy(s), a, x))
           <=> PolicyGrants(s, sc, x)
<1> DEFINE low == CompilePolicy(s)
           to == sc \cup s.pod.match \subseteq x[2]
<1>1. /\ low.to = s.pod.match
      /\ low.allows = UNION {LowerIngress(i) : i \in s.ingress}
      /\ \A i \in s.ingress : \A q \in i.from : SupportedPeer(q)
  BY DEF CompilePolicy
<1>2. x[3] \in Port
  BY DEF Connection
<1>3. ASSUME NEW i \in s.ingress, NEW q \in i.from
      PROVE  Admits(sc, low, LowerPeer(q, i.ports), x) <=>
               to /\ OnPort(i.ports, x[3]) /\ Selects(q, sc, x[1])
  <2>1. i \in Ingress /\ q \in Peer /\ SupportedPeer(q)
    BY <1>1 DEF NetworkSpec, Ingress
  <2>2. OnPort(i.ports, x[3]) <=> Services(i.ports) = {} \/ x[3] \in Services(i.ports)
    BY <1>2, <2>1, PortsMean DEF Ingress
  <2>3. q.pod.set \in BOOLEAN /\ q.ns.set \in BOOLEAN /\ q.pod.set # q.ns.set
    BY <2>1 DEF Peer, Selector, SupportedPeer
  <2>4. CASE q.ns.set
    BY <1>1, <2>2, <2>3, <2>4 DEF Admits, LowerPeer, Selects
  <2>5. CASE ~ q.ns.set
    BY <1>1, <2>2, <2>3, <2>5 DEF Admits, LowerPeer, Selects
  <2> QED
    BY <2>4, <2>5
<1> HIDE DEF low
<1>4. (\E a \in low.allows : Admits(sc, low, a, x)) <=>
        \E i \in s.ingress : \E q \in i.from : Admits(sc, low, LowerPeer(q, i.ports), x)
  BY <1>1 DEF LowerIngress
<1> QED
  BY <1>3, <1>4 DEF PolicyGrants, low

(* What is lowered is a spec of the backend.                                   *)
LEMMA ServicesTyped ==
  ASSUME NEW ports \in SUBSET SourcePort
  PROVE  Services(ports) \subseteq Port
<1> SUFFICES ASSUME NEW q \in ports
             PROVE  <<IF q[1] = "UDP" THEN 17 ELSE 6, q[2]>> \in Port
  BY DEF Services
<1>1. q[2] \in PortNumber
  BY DEF SourcePort
<1>2. (IF q[1] = "UDP" THEN 17 ELSE 6) \in {6, 17}
  OBVIOUS
<1> QED
  BY <1>1, <1>2, PortAssumption

(* What either front end returns is a spec of the lifecycle. *)
LEMMA CompileTyped ==
  ASSUME NEW kind \in {"intent", "policy"},
         NEW s \in (IF kind = "intent" THEN IntentSpec ELSE NetworkSpec)
  PROVE  Compile(kind, s) \in PolicySpec
<1>1. CASE kind = "intent"
  <2> DEFINE low == CompileIntent(s)
  <2>1. s \in IntentSpec /\ Compile(kind, s) = low
    BY <1>1 DEF Compile
  <2>2. \A a \in s.allow : LowerAllow(a) \in Allow
    <3> SUFFICES ASSUME NEW a \in s.allow PROVE LowerAllow(a) \in Allow
      OBVIOUS
    <3>1. a \in IntentAllow
      BY <2>1 DEF IntentSpec
    <3>2. Services(a.ports) \subseteq Port
      BY <3>1, ServicesTyped DEF IntentAllow
    <3> QED
      BY <3>1, <3>2 DEF LowerAllow, IntentAllow, Allow
  <2>3. AnyInScope \in Allow
    BY DEF AnyInScope, Allow
  <2>4. low.allows \subseteq Allow
    BY <2>2, <2>3 DEF CompileIntent
  <2>5. low.to \subseteq Label /\ low.valid \in BOOLEAN
    BY <2>1 DEF CompileIntent, IntentSpec
  <2>6. low = [valid |-> low.valid, to |-> low.to, allows |-> low.allows]
    BY DEF CompileIntent
  <2> HIDE DEF low
  <2> QED
    BY <2>1, <2>4, <2>5, <2>6 DEF PolicySpec
<1>2. CASE kind = "policy"
  <2> DEFINE low == CompilePolicy(s)
  <2>1. s \in NetworkSpec /\ Compile(kind, s) = low
    BY <1>2 DEF Compile
  <2>2. \A i \in s.ingress : \A q \in i.from : LowerPeer(q, i.ports) \in Allow
    <3> SUFFICES ASSUME NEW i \in s.ingress, NEW q \in i.from
                 PROVE  LowerPeer(q, i.ports) \in Allow
      OBVIOUS
    <3>1. i \in Ingress /\ q \in Peer
      BY <2>1 DEF NetworkSpec, Ingress
    <3>2. Services(i.ports) \subseteq Port
      BY <3>1, ServicesTyped DEF Ingress
    <3> QED
      BY <3>1, <3>2 DEF LowerPeer, Peer, Selector, Allow
  <2>3. low.allows \subseteq Allow
    BY <2>2 DEF CompilePolicy, LowerIngress
  <2>4. low.to \subseteq Label /\ low.valid \in BOOLEAN
    BY <2>1 DEF CompilePolicy, NetworkSpec, Selector
  <2>5. low = [valid |-> low.valid, to |-> low.to, allows |-> low.allows]
    BY DEF CompilePolicy
  <2> HIDE DEF low
  <2> QED
    BY <2>1, <2>3, <2>4, <2>5 DEF PolicySpec
<1> QED
  BY <1>1, <1>2

-----------------------------------------------------------------------------
(* Theorems *)

(* Whatever spec of either kind the compiler accepts, the rules it becomes     *)
(* permit in every scope exactly the connections its author grants, as long as *)
(* the PCE knows all its labels (CompileIntent, CompilePolicy, BuildRules).    *)
THEOREM CompilerIsSound ==
  ASSUME NEW kind \in {"intent", "policy"},
         NEW s \in (IF kind = "intent" THEN IntentSpec ELSE NetworkSpec),
         Compile(kind, s).valid, NEW sc
  PROVE  Permitted(sc, Rules(Compile(kind, s), Lookups(Compile(kind, s)))) = Granted(kind, s, sc)
<1> DEFINE low == Compile(kind, s)
<1>1. Permitted(sc, Rules(low, Lookups(low))) =
        {x \in Connection : \E a \in low.allows : Admits(sc, low, a, x)}
  BY CompileTyped, RulesMean
<1>2. CASE kind = "intent"
  <2>1. s \in IntentSpec /\ low = CompileIntent(s)
    BY <1>2 DEF Compile
  <2>2. \A x \in Connection :
          (\E a \in low.allows : Admits(sc, low, a, x)) <=> IntentGrants(s, sc, x)
    BY <2>1, IntentMeans
  <2>3. Granted(kind, s, sc) = {x \in Connection : IntentGrants(s, sc, x)}
    BY <1>2 DEF Granted
  <2> HIDE DEF low
  <2>4. {x \in Connection : \E a \in low.allows : Admits(sc, low, a, x)}
          = {x \in Connection : IntentGrants(s, sc, x)}
    BY <2>2
  <2> QED
    BY <1>1, <2>3, <2>4 DEF low
<1>3. CASE kind = "policy"
  <2>1. s \in NetworkSpec /\ low = CompilePolicy(s)
    BY <1>3 DEF Compile
  <2>2. \A x \in Connection :
          (\E a \in low.allows : Admits(sc, low, a, x)) <=> PolicyGrants(s, sc, x)
    BY <2>1, PolicyMeans
  <2>3. Granted(kind, s, sc) = {x \in Connection : PolicyGrants(s, sc, x)}
    BY <1>3 DEF Granted
  <2> HIDE DEF low
  <2>4. {x \in Connection : \E a \in low.allows : Admits(sc, low, a, x)}
          = {x \in Connection : PolicyGrants(s, sc, x)}
    BY <2>2
  <2> QED
    BY <1>1, <2>3, <2>4 DEF low
<1> QED
  BY <1>2, <1>3

(* So the compiler keeps the meaning of every spec, whatever labels the PCE    *)
(* knows when its rules are built: as soon as all look-ups succeed, the rules  *)
(* mean in every scope what the spec grants.                                   *)
THEOREM MeaningKept ==
  ASSUME NEW kind \in {"intent", "policy"},
         NEW s \in (IF kind = "intent" THEN IntentSpec ELSE NetworkSpec),
         NEW known \in SUBSET Label
  PROVE  KeepsMeaning(kind, s, known)
<1> DEFINE low == Compile(kind, s)
           hit == {p \in Lookups(low) : p[2] \in known}
<1> SUFFICES ASSUME low.valid, hit = Lookups(low), NEW sc \in SUBSET known
             PROVE  Permitted(sc, Rules(low, hit)) = Granted(kind, s, sc)
  BY DEF KeepsMeaning
<1> QED BY CompilerIsSound

(* Outside skip mode what the PCE permits because of a CR is exactly what one  *)
(* generation of it grants, whatever fails, restarts or is minted on the way.  *)
THEOREM Meant == Spec => []EnforcedIsGranted
<1>1. IInv => EnforcedIsGranted
  <2> SUFFICES ASSUME IInv, Mode # "skip", NEW c \in CR, active[c].exists
               PROVE  Permitted(active[c].scope, active[c].rules)
                        = Granted(Kind[c], SourceOf[c][active[c].gen], active[c].scope)
    BY DEF EnforcedIsGranted
  <2> DEFINE g == active[c].gen
             low == Compile(Kind[c], SourceOf[c][g])
  <2>1. Good(c) /\ active[c].gen \in Nat /\ cr[c].gen \in Nat /\ cache[c].gen \in Nat
    BY InProgress DEF Active, Object, Cached
  <2>2. /\ g \in 1..Len(SpecOf[c]) /\ SpecOf[c][g].valid
        /\ active[c].rules \in Compilations(SpecOf[c][g])
    BY <2>1 DEF Good, Stores, Lagging, Enforced, SpecAt
  <2>4. SpecOf[c] = Lowered(c) /\ g \in DOMAIN SourceOf[c]
    BY <2>2, SourceAssumption, SpecAssumption DEF Lowered
  <2>5. SpecOf[c][g] = low
    BY <2>4 DEF Lowered
  <2>6. SourceOf[c][g] \in (IF Kind[c] = "intent" THEN IntentSpec ELSE NetworkSpec)
    BY <2>4, SourceAssumption
  <2>7. active[c].rules = Rules(low, Lookups(low))
    BY <2>2, <2>5 DEF Compilations, FullHits
  <2>8. Kind[c] \in {"intent", "policy"}
    BY KindAssumption
  <2> QED
    BY <2>2, <2>5, <2>6, <2>7, <2>8, CompilerIsSound
<1> QED
  BY <1>1, Invariant, PTL

(* The compiler keeps the meaning of every spec it accepts, of both kinds and  *)
(* of every size: the run's bound on the specs is not needed.                  *)
THEOREM Translated == Spec => []CompilerKeepsMeaning
<1>1. TypeOK => CompilerKeepsMeaning
  <2> SUFFICES ASSUME TypeOK, NEW kind \in {"intent", "policy"}, NEW s \in Written[kind]
               PROVE  KeepsMeaning(kind, s, labels)
    BY DEF CompilerKeepsMeaning
  <2>1. s \in (IF kind = "intent" THEN IntentSpec ELSE NetworkSpec)
    BY WrittenAssumption
  <2>2. labels \in SUBSET Label
    BY DEF TypeOK
  <2> QED
    BY <2>1, <2>2, MeaningKept
<1> QED
  BY <1>1, TypeCorrect, PTL
=============================================================================
