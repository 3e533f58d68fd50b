-------------------------- MODULE Onboarding_proofs --------------------------
(* Proofs about Onboarding, for every history of the profile, every number of  *)
(* output Secrets and every bound on faults and changes.                       *)
EXTENDS Onboarding, SequenceTheorems, TLAPS

-----------------------------------------------------------------------------
(* Types *)

(* A generation of the profile has a well-formed stanza. *)
LEMMA StanzaType ==
  ASSUME NEW g \in 1..Len(Specs)
  PROVE  Specs[g] \in Stanza
BY StanzaAssumption, ElementOfSeq

(* The profile has a last generation. *)
LEMMA Generations == Len(Specs) \in Nat /\ Len(Specs) > 0 /\ "" \notin Output
BY StanzaAssumption, LenProperties

(* The credentials added to a Secret keep its type and what it holds.          *)
LEMMA WrittenAdds ==
  ASSUME NEW s \in Secret, NEW t \in BOOLEAN, NEW d \in BOOLEAN
  PROVE  LET w == Written(s, t, d) IN
         /\ w \in Secret /\ w.id /\ (t \/ s.token => w.token) /\ (d \/ s.code => w.code)
BY DEF Written, Secret

(* No Secret loses anything when one of them is written. *)
Grows ==
  /\ out' \in [Output -> Secret]
  /\ \A s \in Output : /\ out[s].id => out'[s].id
                       /\ out[s].token => out'[s].token
                       /\ out[s].code => out'[s].code

(* Adding credentials to a Secret, of whatever name, is such a step. *)
LEMMA OutGrows ==
  ASSUME out \in [Output -> Secret], NEW s, NEW t \in BOOLEAN, NEW d \in BOOLEAN,
         out' = [out EXCEPT ![s] = Written(@, t, d)]
  PROVE  Grows /\ (s \in Output => out'[s].id /\ (t => out'[s].token) /\ (d => out'[s].code))
<1>1. CASE s \in Output
  <2>1. /\ Written(out[s], t, d) \in Secret /\ Written(out[s], t, d).id
        /\ (t \/ out[s].token => Written(out[s], t, d).token)
        /\ (d \/ out[s].code => Written(out[s], t, d).code)
    BY <1>1, WrittenAdds
  <2>2. out'[s] = Written(out[s], t, d) /\ \A x \in Output \ {s} : out'[x] = out[x]
    BY <1>1
  <2>3. out' \in [Output -> Secret]
    BY <1>1, <2>1
  <2> QED BY <2>1, <2>2, <2>3 DEF Grows
<1>2. CASE s \notin Output
  <2>1. out' = out
    BY <1>2
  <2> QED BY <1>2, <2>1 DEF Grows
<1> QED BY <1>1, <1>2

-----------------------------------------------------------------------------
(* How a reconcile goes on and ends *)

(* A lost call leaves the bound on faults in its range. *)
LEMMA SpendTyped ==
  ASSUME TypeOK, Spend \/ Fails \/ UNCHANGED faults
  PROVE  faults' \in 0..MaxFaults
BY ConnectionAssumption DEF TypeOK, Spend, Fails

Queues == oqueued' \in BOOLEAN /\ otimer' \in BOOLEAN

(* It goes on as w, and the status stays as it is. *)
Goes(w) == ow' = w /\ UNCHANGED status /\ Queues /\ faults' \in 0..MaxFaults

(* It ends; the status stays, or becomes the new one at the same generation. *)
Ends(new) ==
  /\ ow' = OIdle /\ (status' = status \/ (ow.gen = gen /\ status' = new))
  /\ Queues /\ faults' \in 0..MaxFaults

(* A continuation, paid with a fault or not. *)
LEMMA GoesOn ==
  ASSUME TypeOK, NEW w, OContinue(w), Spend \/ Fails \/ UNCHANGED faults
  PROVE  Goes(w)
<1>1. ow' = w /\ UNCHANGED status /\ oqueued' = oqueued /\ otimer' = otimer
  BY DEF OContinue
<1>2. Queues
  BY <1>1 DEF TypeOK, Queues
<1> QED BY <1>1, <1>2, SpendTyped DEF Goes

(* An error returned ends the reconcile and leaves the status. *)
LEMMA ErrsEnds ==
  ASSUME TypeOK, NEW new, Errs, Spend \/ Fails \/ UNCHANGED faults
  PROVE  Ends(new)
<1>1. ow' = OIdle /\ status' = status /\ oqueued' = TRUE /\ otimer' = otimer
  BY DEF Errs, OBackoff
<1>2. Queues
  BY <1>1 DEF TypeOK, Queues
<1> QED BY <1>1, <1>2, SpendTyped DEF Ends

(* So does a status write, which may be refused, lost or only unanswered. *)
LEMMA PersistEnds ==
  ASSUME TypeOK, NEW new, Persist(new, ORequeue) \/ Persist(new, OBackoff)
  PROVE  Ends(new)
<1>1. CASE Errs /\ (Spend \/ UNCHANGED faults)
  BY <1>1, ErrsEnds
<1>2. CASE /\ ow.gen = gen /\ status' = new /\ (Spend \/ UNCHANGED faults)
           /\ (OBackoff \/ ORequeue)
  <2>1. ow' = OIdle
    BY <1>2 DEF OBackoff, ORequeue
  <2>2. Queues
    <3>1. CASE OBackoff
      BY <3>1 DEF OBackoff, TypeOK, Queues
    <3>2. CASE ORequeue
      BY <3>2, Zenon DEF ORequeue, TypeOK, Queues
    <3> QED BY <1>2, <3>1, <3>2
  <2> QED BY <1>2, <2>1, <2>2, SpendTyped DEF Ends
<1> QED BY <1>1, <1>2 DEF Persist

(* What onboardFail and onboardError write. *)
LEMMA FailEnds ==
  ASSUME TypeOK, OnboardFail \/ OnboardError
  PROVE  Ends(NotOnboarded)
BY PersistEnds DEF OnboardFail, OnboardError

(* The statuses a reconcile writes have their type. *)
LEMMA StatusesTyped ==
  ASSUME TypeOK
  PROVE  /\ NotOnboarded \in Status
         /\ [status EXCEPT !.href = TRUE] \in Status
         /\ [href |-> ow.href, onboarded |-> "True", obs |-> ow.gen] \in Status
         /\ [status EXCEPT !.href = ow.href, !.onboarded = "True"] \in Status
<1>1. status \in Status /\ ow.href \in BOOLEAN /\ ow.gen \in 0..Len(Specs)
  BY DEF TypeOK, Worker
<1> QED BY <1>1 DEF NotOnboarded, Status

-----------------------------------------------------------------------------
(* Type correctness *)

(* The reconcile at rest, at its start, and after the connection or the href.  *)
LEMMA WorkersTyped ==
  ASSUME TypeOK
  PROVE  /\ OIdle \in Worker
         /\ [OIdle EXCEPT !.pc = "resolve", !.gen = gen, !.href = status.href] \in Worker
         /\ \A w \in Worker : Paired(w) \in Worker
<1>1. gen \in 0..Len(Specs) /\ 0 \in 0..Len(Specs) /\ status.href \in BOOLEAN
  <2>1. Len(Specs) \in Nat
    BY Generations
  <2>2. gen \in 0..Len(Specs) /\ 0 \in 0..Len(Specs)
    BY <2>1 DEF TypeOK
  <2>3. status \in Status
    BY DEF TypeOK
  <2> QED BY <2>2, <2>3 DEF Status
<1>2. OIdle \in Worker
  BY <1>1 DEF OIdle, Worker, Creds
<1>3. [OIdle EXCEPT !.pc = "resolve", !.gen = gen, !.href = status.href] \in Worker
  BY <1>1, <1>2 DEF OIdle, Worker
<1>4. \A w \in Worker : Paired(w) \in Worker
  BY DEF Paired, Worker
<1> QED BY <1>2, <1>3, <1>4

Stays == UNCHANGED <<inputs, connVars, changes>>
Remembers == stranded' \in {"no", "answer", "error", "crash"}

(* What a step of the profile's reconcile does to the types, all in one. *)
LEMMA StepTyped ==
  ASSUME TypeOK, Stays, gen' = gen, Queues, Remembers,
         cluster' \in {"absent", "foreign", "ours"}, pairing' \in BOOLEAN,
         out' \in [Output -> Secret], faults' \in 0..MaxFaults,
         status' \in Status, ow' \in Worker
  PROVE  TypeOK'
BY DEF TypeOK, Stays, inputs, connVars, Queues, Remembers

(* One that ends. *)
LEMMA EndTyped ==
  ASSUME TypeOK, Stays, gen' = gen, Remembers,
         cluster' \in {"absent", "foreign", "ours"}, pairing' \in BOOLEAN,
         out' \in [Output -> Secret], NEW new \in Status, Ends(new)
  PROVE  TypeOK'
<1>1. status \in Status
  BY DEF TypeOK
<1>2. status' \in Status /\ ow' = OIdle /\ Queues /\ faults' \in 0..MaxFaults
  BY <1>1 DEF Ends
<1> QED BY <1>2, StepTyped, WorkersTyped

(* One that goes on. *)
LEMMA GoTyped ==
  ASSUME TypeOK, Stays, gen' = gen, Remembers,
         cluster' \in {"absent", "foreign", "ours"}, pairing' \in BOOLEAN,
         out' \in [Output -> Secret], NEW w \in Worker, Goes(w)
  PROVE  TypeOK'
<1>1. status' \in Status
  BY DEF TypeOK, Goes
<1>2. ow' \in Worker /\ Queues /\ faults' \in 0..MaxFaults
  BY DEF Goes
<1> QED BY <1>1, <1>2, StepTyped

(* What strands a creation is remembered by its name. *)
LEMMA StrandsTyped ==
  ASSUME TypeOK, stranded' = stranded \/ Strands("error") \/ Strands("crash")
  PROVE  Remembers
BY DEF TypeOK, Strands, Remembers

(* The connection's reconcile and its inputs keep their types. *)
LEMMA ConnectionTyped ==
  ASSUME TypeOK, ConnectionNext
  PROVE  TypeOK'
<1>1. UNCHANGED profileVars /\ (CTimerFire \/ ConnStep \/ ChangeInputs)
  BY DEF ConnectionNext
<1>2. SUFFICES /\ creds' \in Creds /\ health' \in Health /\ conn' \in Reason
               /\ cqueued' \in BOOLEAN /\ ctimer' \in BOOLEAN /\ cw' \in ConnWorker
               /\ faults' \in 0..MaxFaults /\ changes' \in 0..MaxChanges
  BY <1>1 DEF TypeOK, profileVars
<1>3. CIdle \in ConnWorker
  BY DEF CIdle, ConnWorker, Creds, Reason
<1>4. \A w \in ConnWorker : \A r \in Reason : \A a \in BOOLEAN : Outcome(w, r, a) \in ConnWorker
  BY DEF Outcome, ConnWorker
<1>5. cw \in ConnWorker /\ cw.reason \in Reason
  BY DEF TypeOK, ConnWorker
<1>6. Spend => faults' \in 0..MaxFaults
  BY ConnectionAssumption DEF TypeOK, Spend
<1>7. CASE CTimerFire
  BY <1>7 DEF TypeOK, CTimerFire, inputs, bounds
<1>8. CASE CBegin
  <2>1. [CIdle EXCEPT !.pc = "load"] \in ConnWorker
    BY <1>3 DEF ConnWorker
  <2> QED BY <1>8, <2>1 DEF TypeOK, CBegin, inputs, bounds
<1>9. CASE LoadConfig
  <2>1. [cw EXCEPT !.pc = "ping", !.creds = creds] \in ConnWorker
    BY <1>5 DEF TypeOK, ConnWorker
  <2>2. Outcome(cw, "SecretMissing", TRUE) \in ConnWorker
    BY <1>4, <1>5 DEF Reason
  <2> QED BY <1>3, <1>6, <1>9, <2>1, <2>2 DEF TypeOK, LoadConfig, CContinue, CBackoff, inputs
<1>10. CASE Ping
  <2>1. \A r \in {"PCEUnreachable", "RateLimited", "AuthFailed", "Connected"} :
          \A a \in BOOLEAN : Outcome(cw, r, a) \in ConnWorker
    BY <1>4, <1>5 DEF Reason
  <2>2. PingOutcomes(cw) \subseteq ConnWorker
    BY <2>1, ConnectionAssumption DEF PingOutcomes
  <2>3. cw' \in ConnWorker /\ UNCHANGED <<conn, cqueued, ctimer, creds, health, changes>>
    BY <1>10, <2>1, <2>2 DEF Ping, CContinue, inputs
  <2>4. faults' \in 0..MaxFaults
    BY <1>6, <1>10 DEF Ping, TypeOK
  <2> QED BY <2>3, <2>4 DEF TypeOK
<1>11. CASE WriteConnected
  <2>1. cw' \in ConnWorker /\ conn' \in Reason /\ UNCHANGED <<creds, health, changes>>
    BY <1>3, <1>5, <1>11 DEF WriteConnected, CBackoff, inputs, TypeOK
  <2>2. faults' \in 0..MaxFaults
    BY <1>6, <1>11 DEF WriteConnected, TypeOK
  <2>3. cqueued' \in BOOLEAN /\ ctimer' \in BOOLEAN
    BY <1>11, Zenon DEF WriteConnected, CBackoff, TypeOK
  <2> QED BY <2>1, <2>2, <2>3 DEF TypeOK
<1>12. CASE ChangeInputs
  BY <1>12, ConnectionAssumption DEF ChangeInputs, TypeOK, connVars
<1> QED BY <1>1, <1>7, <1>8, <1>9, <1>10, <1>11, <1>12 DEF ConnStep

(* The types hold at the start. *)
LEMMA TypeInit == Init => TypeOK
<1> SUFFICES ASSUME Init PROVE TypeOK
  OBVIOUS
<1>1. Len(Specs) \in Nat /\ Len(Specs) > 0
  BY Generations
<1>2. 1 \in 1..Len(Specs) /\ 0 \in 0..Len(Specs)
  BY <1>1
<1>3. status \in Status
  BY <1>2 DEF Init, Status
<1>4. ow \in Worker
  BY <1>2 DEF Init, OIdle, Worker, Creds
<1>5. out \in [Output -> Secret]
  BY DEF Init, NoSecret, Secret
<1>6. cw \in ConnWorker
  BY DEF Init, ConnInit, CIdle, ConnWorker, Creds, Reason
<1>7. faults \in 0..MaxFaults /\ changes \in 0..MaxChanges
  BY ConnectionAssumption DEF Init, ConnInit
<1> QED BY <1>2, <1>3, <1>4, <1>5, <1>6, <1>7 DEF Init, ConnInit, TypeOK, Health, Reason

(* The reconcile's own changes keep the type of the reconcile. *)
LEMMA PcTyped ==
  ASSUME TypeOK
  PROVE  /\ [ow EXCEPT !.token = FALSE] \in Worker
         /\ [ow EXCEPT !.pc = "record", !.href = TRUE] \in Worker
         /\ [ow EXCEPT !.pc = "token", !.href = TRUE, !.token = TRUE] \in Worker
         /\ [ow EXCEPT !.creds = creds] \in Worker
         /\ [[ow EXCEPT !.creds = creds] EXCEPT !.pc = "find"] \in Worker
         /\ \A p \in {"find", "create", "failed", "record", "newpair", "key", "publish",
                      "namespaces", "clean", "partial"} : [ow EXCEPT !.pc = p] \in Worker
<1>1. ow \in Worker /\ creds \in Creds
  BY DEF TypeOK
<1> QED BY <1>1 DEF Worker

(* Every step of the profile's reconcile keeps the types. *)
LEMMA ProfileTyped ==
  ASSUME TypeOK, ProfileStep
  PROVE  TypeOK'
<1>1. /\ stranded \in {"no", "answer", "error", "crash"} /\ pairing \in BOOLEAN
      /\ cluster \in {"absent", "foreign", "ours"} /\ out \in [Output -> Secret]
      /\ status \in Status /\ ow \in Worker
  BY DEF TypeOK
<1>2. Stays /\ gen' = gen
  BY DEF ProfileStep, OBegin, ResolveConnection, FindCluster, CreateCluster, CreateFailed,
         WriteToken, RecordHref, FindPairing, CreatePairing, GenerateKey, PublishCode,
         Namespaces, FinishProfile, Stays, inputs, connVars, bounds
<1> DEFINE Same == stranded' = stranded /\ cluster' = cluster /\ pairing' = pairing /\ out' = out
<1>3. ASSUME Same, NEW w \in Worker, Goes(w) PROVE TypeOK'
  BY <1>1, <1>2, <1>3, GoTyped DEF Remembers
<1>4. ASSUME Same, NEW new \in Status, Ends(new) PROVE TypeOK'
  BY <1>1, <1>2, <1>4, EndTyped DEF Remembers
<1>5. ASSUME NEW t \in BOOLEAN, NEW d \in BOOLEAN, NEW s,
             out' = [out EXCEPT ![s] = Written(@, t, d)]
      PROVE  out' \in [Output -> Secret]
  BY <1>1, <1>5, OutGrows DEF Grows
<1> HIDE DEF Same
<1>6. CASE OBegin
  <2>1. Queues /\ faults' \in 0..MaxFaults
    BY <1>6 DEF OBegin, TypeOK, Queues, bounds
  <2> QED BY <1>1, <1>2, <1>6, <2>1, StepTyped, WorkersTyped DEF OBegin, Remembers
<1>7. CASE ResolveConnection
  <2>1. Same
    BY <1>7 DEF ResolveConnection, Same
  <2>2. CASE OnboardFail
    BY <1>4, <2>1, <2>2, FailEnds, StatusesTyped
  <2>3. CASE Spend /\ Errs
    BY <1>1, <1>4, <2>1, <2>3, ErrsEnds
  <2> DEFINE v == [ow EXCEPT !.creds = creds]
             w == IF ow.href THEN Paired(v) ELSE [v EXCEPT !.pc = "find"]
  <2>4. CASE OContinue(w) /\ UNCHANGED faults
    <3>1. w \in Worker
      BY PcTyped, WorkersTyped
    <3> HIDE DEF w
    <3> QED BY <1>3, <2>1, <2>4, <3>1, GoesOn
  <2> QED BY <1>7, <2>2, <2>3, <2>4 DEF ResolveConnection
<1>8. CASE FindCluster
  <2>1. Same
    BY <1>8 DEF FindCluster, Same
  <2>2. CASE OnboardFail
    BY <1>4, <2>1, <2>2, FailEnds, StatusesTyped
  <2>3. CASE Fails /\ Errs
    BY <1>1, <1>4, <2>1, <2>3, ErrsEnds
  <2>4. CASE OContinue([ow EXCEPT !.pc = "record", !.href = TRUE]) /\ UNCHANGED faults
    BY <1>3, <2>1, <2>4, GoesOn, PcTyped
  <2>5. CASE OContinue([ow EXCEPT !.pc = "create"]) /\ UNCHANGED faults
    BY <1>3, <2>1, <2>5, GoesOn, PcTyped
  <2> QED BY <1>8, <2>2, <2>3, <2>4, <2>5 DEF FindCluster
<1>9. CASE CreateCluster
  <2>1. /\ pairing' \in BOOLEAN /\ out' \in [Output -> Secret] /\ Remembers
        /\ cluster' \in {"absent", "foreign", "ours"}
    BY <1>1, <1>9 DEF CreateCluster, Remembers
  <2>2. \E w \in {[ow EXCEPT !.pc = "token", !.href = TRUE, !.token = TRUE],
                  [ow EXCEPT !.pc = "failed"]} :
          OContinue(w) /\ (Spend \/ Fails \/ UNCHANGED faults)
    BY <1>9 DEF CreateCluster
  <2>3. PICK w \in Worker : Goes(w)
    BY <2>2, GoesOn, PcTyped
  <2> QED BY <1>2, <2>1, <2>3, GoTyped
<1>10. CASE CreateFailed
  <2>1. Same /\ OnboardError
    BY <1>10 DEF CreateFailed, Same
  <2> QED BY <1>4, <2>1, FailEnds, StatusesTyped
<1>11. CASE WriteToken
  <2>1. /\ pairing' \in BOOLEAN /\ cluster' \in {"absent", "foreign", "ours"}
        /\ Strands("error")
        /\ (out' = out \/ out' = [out EXCEPT ![Stanza_.output] = Written(@, TRUE, FALSE)])
    BY <1>1, <1>11 DEF WriteToken
  <2>2. out' \in [Output -> Secret] /\ Remembers
    BY <1>1, <1>5, <2>1, StrandsTyped
  <2>3. CASE OContinue([ow EXCEPT !.pc = "record"]) /\ UNCHANGED faults
    BY <1>2, <2>1, <2>2, <2>3, GoesOn, PcTyped, GoTyped
  <2>4. CASE Spend /\ Errs
    BY <1>1, <1>2, <2>1, <2>2, <2>4, ErrsEnds, EndTyped
  <2> QED BY <1>11, <2>3, <2>4 DEF WriteToken
<1>12. CASE RecordHref
  <2> DEFINE new == [status EXCEPT !.href = TRUE]
             w == Paired([ow EXCEPT !.token = FALSE])
             Recorded == ow' = w /\ oqueued' = TRUE /\ UNCHANGED otimer
  <2>1. /\ pairing' = pairing /\ cluster' = cluster /\ out' = out /\ Strands("error")
        /\ Persist(new, Recorded)
    BY <1>12 DEF RecordHref
  <2>2. Remembers
    BY <2>1, StrandsTyped
  <2>3. new \in Status /\ w \in Worker
    BY StatusesTyped, PcTyped, WorkersTyped
  <2>4. CASE Errs /\ (Spend \/ UNCHANGED faults)
    BY <1>1, <1>2, <2>1, <2>2, <2>4, ErrsEnds, EndTyped
  <2>5. CASE status' = new /\ (OBackoff \/ Recorded) /\ (Spend \/ UNCHANGED faults)
    <3>1. Queues /\ ow' \in Worker
      BY <2>3, <2>5, WorkersTyped DEF OBackoff, TypeOK, Queues
    <3> HIDE DEF new, w
    <3> QED BY <1>1, <1>2, <2>1, <2>2, <2>3, <2>5, <3>1, SpendTyped, StepTyped
  <2> HIDE DEF new, Recorded
  <2> QED BY <2>1, <2>4, <2>5 DEF Persist
<1>13. CASE FindPairing
  <2>1. Same
    BY <1>13 DEF FindPairing, Same
  <2>2. CASE OnboardFail
    BY <1>4, <2>1, <2>2, FailEnds, StatusesTyped
  <2>3. CASE Fails /\ Errs
    BY <1>1, <1>4, <2>1, <2>3, ErrsEnds
  <2>4. CASE /\ OContinue([ow EXCEPT !.pc = IF pairing THEN "key" ELSE "newpair"])
             /\ UNCHANGED faults
    <3>1. [ow EXCEPT !.pc = IF pairing THEN "key" ELSE "newpair"] \in Worker
      BY PcTyped
    <3> QED BY <1>3, <2>1, <2>4, <3>1, GoesOn
  <2> QED BY <1>13, <2>2, <2>3, <2>4 DEF FindPairing
<1>14. CASE CreatePairing
  <2>1. /\ pairing' \in BOOLEAN /\ out' \in [Output -> Secret] /\ Remembers
        /\ cluster' \in {"absent", "foreign", "ours"}
    BY <1>1, <1>14 DEF CreatePairing, Remembers
  <2>2. CASE OContinue([ow EXCEPT !.pc = "key"]) /\ UNCHANGED faults
    BY <1>2, <2>1, <2>2, GoesOn, PcTyped, GoTyped
  <2>3. CASE (Spend \/ Fails) /\ Errs
    BY <1>1, <1>2, <2>1, <2>3, ErrsEnds, EndTyped
  <2> QED BY <1>14, <2>2, <2>3 DEF CreatePairing
<1>15. CASE GenerateKey
  <2>1. Same
    BY <1>15 DEF GenerateKey, Same
  <2>2. CASE OContinue([ow EXCEPT !.pc = "publish"]) /\ UNCHANGED faults
    BY <1>3, <2>1, <2>2, GoesOn, PcTyped
  <2>3. CASE Fails /\ Errs
    BY <1>1, <1>4, <2>1, <2>3, ErrsEnds
  <2> QED BY <1>15, <2>2, <2>3 DEF GenerateKey
<1>16. CASE PublishCode
  <2>1. /\ pairing' \in BOOLEAN /\ cluster' \in {"absent", "foreign", "ours"} /\ Remembers
        /\ (out' = out \/ out' = [out EXCEPT ![Stanza_.output] = Written(@, FALSE, TRUE)])
    BY <1>1, <1>16 DEF PublishCode, Remembers
  <2>2. out' \in [Output -> Secret]
    BY <1>1, <1>5, <2>1
  <2>3. CASE OContinue([ow EXCEPT !.pc = "namespaces"]) /\ UNCHANGED faults
    BY <1>2, <2>1, <2>2, <2>3, GoesOn, PcTyped, GoTyped
  <2>4. CASE (Spend \/ UNCHANGED faults) /\ Errs
    BY <1>1, <1>2, <2>1, <2>2, <2>4, ErrsEnds, EndTyped
  <2> QED BY <1>16, <2>3, <2>4 DEF PublishCode
<1>17. CASE Namespaces
  <2>1. Same
    BY <1>17 DEF Namespaces, Same
  <2>2. CASE OContinue([ow EXCEPT !.pc = "clean"]) /\ UNCHANGED faults
    BY <1>3, <2>1, <2>2, GoesOn, PcTyped
  <2>3. CASE OContinue([ow EXCEPT !.pc = "partial"]) /\ (Fails \/ UNCHANGED faults)
    BY <1>3, <2>1, <2>3, GoesOn, PcTyped
  <2> QED BY <1>17, <2>2, <2>3 DEF Namespaces
<1>18. CASE FinishProfile
  <2>1. Same
    BY <1>18 DEF FinishProfile, Same
  <2>2. \E new \in {[href |-> ow.href, onboarded |-> "True", obs |-> ow.gen],
                    [status EXCEPT !.href = ow.href, !.onboarded = "True"]} :
          Persist(new, ORequeue) \/ Persist(new, OBackoff)
    BY <1>18 DEF FinishProfile
  <2>3. PICK new \in Status : Ends(new)
    BY <2>2, PersistEnds, StatusesTyped
  <2> QED BY <1>4, <2>1, <2>3
<1> QED BY <1>6, <1>7, <1>8, <1>9, <1>10, <1>11, <1>12, <1>13, <1>14, <1>15, <1>16, <1>17,
           <1>18 DEF ProfileStep

(* Every step keeps the types. *)
LEMMA TypeNext == TypeOK /\ [Next]_vars => TypeOK'
<1> SUFFICES ASSUME TypeOK, [Next]_vars PROVE TypeOK'
  OBVIOUS
<1>1. CASE ConnectionNext
  BY <1>1, ConnectionTyped
<1>2. CASE ProfileStep
  BY <1>2, ProfileTyped
<1>3. CASE OTimerFire
  BY <1>3 DEF OTimerFire, TypeOK, inputs, connVars, bounds
<1>4. CASE Restart
  <2>1. Remembers /\ faults' \in 0..MaxFaults
    BY <1>4, StrandsTyped, SpendTyped DEF Restart
  <2>2. CIdle \in ConnWorker /\ OIdle \in Worker
    BY WorkersTyped DEF CIdle, ConnWorker, Creds, Reason
  <2> QED BY <1>4, <2>1, <2>2 DEF Restart, Remembers, TypeOK, inputs
<1>5. CASE EditProfile
  <2>1. Len(Specs) \in Nat
    BY Generations
  <2>2. gen' \in 1..Len(Specs)
    BY <1>5, <2>1 DEF EditProfile, TypeOK
  <2>3. changes' \in 0..MaxChanges
    BY <1>5, ConnectionAssumption DEF EditProfile, Change, TypeOK
  <2> QED BY <1>5, <2>2, <2>3 DEF EditProfile, TypeOK, inputs, connVars
<1>6. CASE ClusterChanges
  <2>1. changes' \in 0..MaxChanges
    BY <1>6, ConnectionAssumption DEF ClusterChanges, Change, TypeOK
  <2>2. Remembers /\ cluster' \in {"absent", "foreign", "ours"}
    BY <1>6 DEF ClusterChanges, Remembers, TypeOK
  <2> QED BY <1>6, <2>1, <2>2 DEF ClusterChanges, Remembers, TypeOK, inputs, connVars
<1>7. CASE UNCHANGED vars
  BY <1>7 DEF vars, inputs, connVars, bounds, profileVars, TypeOK
<1> QED BY <1>1, <1>2, <1>3, <1>4, <1>5, <1>6, <1>7 DEF Next

(* Every variable keeps its type. *)
THEOREM TypeCorrect == Spec => []TypeOK
BY TypeInit, TypeNext, PTL DEF Spec

-----------------------------------------------------------------------------
(* Definitions of the invariants *)

(* A reconcile works on a generation there was, knows of a cluster what the    *)
(* status knows, holds a token only until it is recorded, and comes to the     *)
(* token with a name for the Secret and to everything after it with a cluster. *)
AfterCluster == {"token", "record", "pair", "newpair", "key", "publish",
                 "namespaces", "clean", "partial"}
Reconciling ==
  /\ status.obs <= gen
  /\ ow.pc # "idle" => ow.gen \in 1..gen /\ (status.href => ow.href)
  /\ ow.pc \in AfterCluster => ow.href
  /\ ow.pc \in {"create", "token"} => Specs[ow.gen].output \in Output
  /\ ow.token => ow.pc \in {"token", "record"}

(* The output Secret of a generation is there, without or with its code.       *)
Creating(g) == Specs[g].mode = "create"
Kept(o, g) ==
  Specs[g].output \in Output /\ o[Specs[g].output].id /\ o[Specs[g].output].token
Whole(o, g) == Kept(o, g) /\ o[Specs[g].output].code

(* Nothing but the token comes before the Secret that keeps it, and nothing    *)
(* is finished before the code is in it.                                       *)
Publishing ==
  /\ status.href /\ Creating(gen) => Kept(out, gen)
  /\ ow.pc \notin {"idle", "token"} /\ ow.href /\ Creating(ow.gen) => Kept(out, ow.gen)
  /\ ow.pc \in {"namespaces", "clean", "partial"} /\ Creating(ow.gen) => Whole(out, ow.gen)
  /\ status.onboarded = "True" /\ status.obs = gen /\ Creating(gen) => Whole(out, gen)

(* A cluster of the operator's own without a href has its token in the hands   *)
(* of a reconcile, or a history of losing it.                                  *)
Creations == cluster = "ours" /\ ~ status.href => ow.token \/ stranded # "no"

(* The profile keeps to its output Secret for as long as it creates.           *)
Steady ==
  \A h \in 1..Len(Specs) : Creating(h) =>
    \A g \in 1..h : Creating(g) /\ Specs[g].output = Specs[h].output

-----------------------------------------------------------------------------
(* The reconcile keeps the invariants *)

(* What is published stays published. *)
LEMMA GrowsKept ==
  ASSUME Grows, NEW g
  PROVE  (Kept(out, g) => Kept(out', g)) /\ (Whole(out, g) => Whole(out', g))
BY DEF Grows, Kept, Whole

Others == Reconciling' /\ (Creations => Creations')

(* A reconcile that ends keeps them when what it writes is in order. *)
LEMMA EndKeeps ==
  ASSUME TypeOK, Reconciling, gen' = gen, cluster' = cluster, Grows,
         NEW new \in Status, Ends(new),
         ow.gen = gen => new.obs <= gen /\ (status.href => new.href),
         (stranded' = stranded /\ ~ ow.token) \/ Strands("error")
  PROVE  /\ Others
         /\ /\ Publishing
            /\ ow.gen = gen =>
                 /\ new.href /\ Creating(gen) => Kept(out, gen)
                 /\ new.onboarded = "True" /\ new.obs = gen /\ Creating(gen) => Whole(out, gen)
            => Publishing'
<1>1. /\ ow' = OIdle /\ OIdle.pc = "idle" /\ ~ OIdle.token
      /\ (status' = status \/ (ow.gen = gen /\ status' = new))
  BY DEF Ends, OIdle
<1>2. Reconciling'
  BY <1>1 DEF Reconciling, AfterCluster
<1>3. status.href => status'.href
  BY <1>1
<1>4. ASSUME Creations PROVE Creations'
  BY <1>1, <1>3, <1>4 DEF Creations, Strands
<1>5. ASSUME Publishing,
             ow.gen = gen =>
               /\ new.href /\ Creating(gen) => Kept(out, gen)
               /\ new.onboarded = "True" /\ new.obs = gen /\ Creating(gen) => Whole(out, gen)
      PROVE  Publishing'
  <2>1. status'.href /\ Creating(gen) => Kept(out, gen)
    BY <1>1, <1>5 DEF Publishing
  <2>2. status'.onboarded = "True" /\ status'.obs = gen /\ Creating(gen) => Whole(out, gen)
    BY <1>1, <1>5 DEF Publishing
  <2>3. (Kept(out, gen) => Kept(out', gen)) /\ (Whole(out, gen) => Whole(out', gen))
    BY GrowsKept DEF Kept, Whole, Grows
  <2> QED BY <1>1, <2>1, <2>2, <2>3 DEF Publishing, Creating, Kept, Whole
<1> QED BY <1>2, <1>4, <1>5 DEF Others

(* One that fails without a write. *)
LEMMA ErrsKeep ==
  ASSUME TypeOK, Reconciling, gen' = gen, cluster' = cluster, Grows, Ends(status),
         (stranded' = stranded /\ ~ ow.token) \/ Strands("error")
  PROVE  Others /\ (Publishing => Publishing')
<1>1. status \in Status /\ status.obs <= gen
  BY DEF TypeOK, Reconciling
<1>2. ASSUME Publishing
      PROVE  /\ status.href /\ Creating(gen) => Kept(out, gen)
             /\ status.onboarded = "True" /\ status.obs = gen /\ Creating(gen) => Whole(out, gen)
  BY <1>2 DEF Publishing
<1> QED BY <1>1, <1>2, EndKeeps

(* One that fails with what onboardFail and onboardError write. *)
LEMMA FailKeeps ==
  ASSUME TypeOK, Reconciling, gen' = gen, cluster' = cluster, Grows, Ends(NotOnboarded),
         ow.pc \notin {"idle", "token", "record"}, stranded' = stranded
  PROVE  Others /\ (Publishing => Publishing')
<1>1. status \in Status /\ ow.href \in BOOLEAN /\ ~ ow.token /\ (status.href => ow.href)
  BY DEF TypeOK, Reconciling, Worker
<1>2. /\ NotOnboarded \in Status /\ NotOnboarded.href = ow.href
      /\ NotOnboarded.onboarded = "False" /\ NotOnboarded.obs = ow.gen
  BY <1>1, StatusesTyped DEF NotOnboarded, Status
<1>3. gen <= gen
  <2>1. Len(Specs) \in Nat
    BY Generations
  <2> QED BY <2>1 DEF TypeOK
<1>4. ASSUME Publishing
      PROVE  ow.gen = gen /\ NotOnboarded.href /\ Creating(gen) => Kept(out, gen)
  BY <1>2, <1>4 DEF Publishing
<1> QED BY <1>1, <1>2, <1>3, <1>4, EndKeeps

(* One that goes on keeps them when what it goes on with is in order. *)
LEMMA GoKeeps ==
  ASSUME TypeOK, Reconciling, gen' = gen, cluster' = cluster, Grows,
         NEW w, Goes(w), ow.pc # "idle", stranded' = stranded,
         w.gen = ow.gen, w.token = ow.token, ow.href => w.href,
         w.pc \in AfterCluster => w.href,
         w.pc \in {"create", "token"} => Specs[w.gen].output \in Output,
         w.token => w.pc \in {"token", "record"}
  PROVE  /\ Others
         /\ /\ Publishing
            /\ w.pc \notin {"idle", "token"} /\ w.href /\ Creating(w.gen) => Kept(out', w.gen)
            /\ w.pc \in {"namespaces", "clean", "partial"} /\ Creating(w.gen) => Whole(out', w.gen)
            => Publishing'
<1>1. ow' = w /\ status' = status
  BY DEF Goes
<1>2. Reconciling'
  BY <1>1 DEF Reconciling
<1>3. ASSUME Creations PROVE Creations'
  BY <1>1, <1>3 DEF Creations
<1>4. ASSUME Publishing,
             w.pc \notin {"idle", "token"} /\ w.href /\ Creating(w.gen) => Kept(out', w.gen),
             w.pc \in {"namespaces", "clean", "partial"} /\ Creating(w.gen) => Whole(out', w.gen)
      PROVE  Publishing'
  <2>1. (Kept(out, gen) => Kept(out', gen)) /\ (Whole(out, gen) => Whole(out', gen))
    BY GrowsKept DEF Kept, Whole, Grows
  <2> QED BY <1>1, <1>4, <2>1 DEF Publishing, Creating, Kept, Whole
<1> QED BY <1>2, <1>3, <1>4 DEF Others

(* Every step of the profile's reconcile keeps the invariants. *)
LEMMA ProfileKeeps ==
  ASSUME TypeOK, Reconciling, ProfileStep
  PROVE  Others /\ (Publishing => Publishing')
<1> DEFINE Keeps == Others /\ (Publishing => Publishing')
<1>1. /\ status \in Status /\ ow \in Worker /\ out \in [Output -> Secret]
      /\ ow.gen \in 0..Len(Specs)
      /\ ow.pc # "idle" => ow.gen \in 1..Len(Specs)
  <2>1. Len(Specs) \in Nat
    BY Generations
  <2> QED BY <2>1 DEF TypeOK, Reconciling, Worker
<1>2. out' = out => Grows
  BY <1>1 DEF Grows
<1>3. gen' = gen
  BY DEF ProfileStep, OBegin, ResolveConnection, FindCluster, CreateCluster, CreateFailed,
         WriteToken, RecordHref, FindPairing, CreatePairing, GenerateKey, PublishCode,
         Namespaces, FinishProfile
<1> DEFINE Same == stranded' = stranded /\ cluster' = cluster /\ out' = out
<1>4. ASSUME Same, Ends(status), ow.pc \notin {"token", "record"} PROVE Keeps
  BY <1>2, <1>3, <1>4, ErrsKeep DEF Reconciling
<1>5. ASSUME Same, Ends(NotOnboarded), ow.pc \notin {"idle", "token", "record"} PROVE Keeps
  BY <1>2, <1>3, <1>5, FailKeeps
<1>6. ASSUME Same, NEW w, Goes(w), ow.pc # "idle",
             w.gen = ow.gen, w.token = ow.token, w.href = ow.href,
             w.pc \in AfterCluster => w.href,
             w.pc \in {"create", "token"} => Specs[w.gen].output \in Output,
             w.token => w.pc \in {"token", "record"}
      PROVE  /\ Others
             /\ /\ ow.pc \notin {"idle", "token"} \/ ~ Creating(ow.gen)
                /\ w.pc \in {"namespaces", "clean", "partial"} /\ Creating(ow.gen) => Whole(out, ow.gen)
                => (Publishing => Publishing')
  <2>1. out' = out
    BY <1>6
  <2>2. Grows
    BY <1>2, <1>6
  <2>3. Others
    BY <1>3, <1>6, <2>2, GoKeeps
  <2>4. ASSUME Publishing, ow.pc \notin {"idle", "token"} \/ ~ Creating(ow.gen),
               w.pc \in {"namespaces", "clean", "partial"} /\ Creating(ow.gen) => Whole(out, ow.gen)
        PROVE  Publishing'
    <3>1. w.href /\ Creating(w.gen) => Kept(out', w.gen)
      BY <1>6, <2>1, <2>4 DEF Publishing
    <3>2. w.pc \in {"namespaces", "clean", "partial"} /\ Creating(w.gen) => Whole(out', w.gen)
      BY <1>6, <2>1, <2>4
    <3> QED BY <1>3, <1>6, <2>2, <2>4, <3>1, <3>2, GoKeeps
  <2> QED BY <2>3, <2>4
<1> HIDE DEF Same
<1>7. CASE OBegin
  <2> DEFINE w == [OIdle EXCEPT !.pc = "resolve", !.gen = gen, !.href = status.href]
  <2>1. /\ ow' = w /\ UNCHANGED <<gen, cluster, out, status, stranded>> /\ ~ ow.token
    BY <1>7 DEF OBegin, Reconciling
  <2>2. w.pc = "resolve" /\ w.gen = gen /\ w.href = status.href /\ ~ w.token
    BY DEF OIdle
  <2>3. gen \in 1..gen
    <3>1. Len(Specs) \in Nat
      BY Generations
    <3> QED BY <3>1 DEF TypeOK
  <2> HIDE DEF w
  <2>4. Reconciling'
    BY <2>1, <2>2, <2>3 DEF Reconciling, AfterCluster
  <2>5. Creations => Creations'
    BY <2>1, <2>2 DEF Creations
  <2>6. Publishing => Publishing'
    BY <2>1, <2>2 DEF Publishing, Creating, Kept, Whole
  <2> QED BY <2>4, <2>5, <2>6 DEF Others
<1>8. CASE ResolveConnection
  <2>1. Same /\ ow.pc = "resolve"
    BY <1>8 DEF ResolveConnection, Same
  <2>2. CASE OnboardFail
    BY <1>5, <2>1, <2>2, FailEnds
  <2>3. CASE Spend /\ Errs
    BY <1>4, <2>1, <2>3, ErrsEnds
  <2> DEFINE v == [ow EXCEPT !.creds = creds]
             w == IF ow.href THEN Paired(v) ELSE [v EXCEPT !.pc = "find"]
  <2>4. CASE OContinue(w) /\ UNCHANGED faults
    <3>1. /\ w.gen = ow.gen /\ w.token = ow.token /\ w.href = ow.href
          /\ w.pc = IF ow.href THEN IF Creating(ow.gen) THEN "pair" ELSE "namespaces" ELSE "find"
      BY <1>1 DEF Paired, Creating, Worker
    <3> HIDE DEF w
    <3>2. Goes(w)
      BY <2>4, GoesOn
    <3>3. ~ ow.token
      BY <2>1 DEF Reconciling
    <3>4. /\ w.pc \in AfterCluster => w.href
          /\ w.pc \notin {"create", "token"}
          /\ w.pc \in {"namespaces", "clean", "partial"} => ~ Creating(ow.gen)
      BY <3>1 DEF AfterCluster
    <3> QED BY <1>6, <2>1, <3>1, <3>2, <3>3, <3>4
  <2> QED BY <1>8, <2>2, <2>3, <2>4 DEF ResolveConnection
<1>9. CASE FindCluster
  <2>1. Same /\ ow.pc = "find" /\ ~ ow.token
    BY <1>9 DEF FindCluster, Same, Reconciling
  <2>2. CASE OnboardFail
    BY <1>5, <2>1, <2>2, FailEnds
  <2>3. CASE Fails /\ Errs
    BY <1>4, <2>1, <2>3, ErrsEnds
  <2>4. CASE /\ OContinue([ow EXCEPT !.pc = "record", !.href = TRUE]) /\ UNCHANGED faults
             /\ Stanza_.mode = "adopt"
    <3> DEFINE w == [ow EXCEPT !.pc = "record", !.href = TRUE]
    <3>1. w.gen = ow.gen /\ w.token = ow.token /\ w.href /\ w.pc = "record" /\ Goes(w)
      BY <1>1, <2>4, GoesOn DEF Worker
    <3> HIDE DEF w
    <3>2. ~ Creating(w.gen)
      BY <2>4, <3>1 DEF Creating, Stanza_
    <3> QED BY <1>2, <1>3, <2>1, <3>1, <3>2, GoKeeps DEF Same
  <2>5. CASE /\ OContinue([ow EXCEPT !.pc = "create"]) /\ UNCHANGED faults
             /\ Stanza_.output # ""
    <3> DEFINE w == [ow EXCEPT !.pc = "create"]
    <3>1. w.gen = ow.gen /\ w.token = ow.token /\ w.href = ow.href /\ w.pc = "create" /\ Goes(w)
      BY <1>1, <2>5, GoesOn DEF Worker
    <3> HIDE DEF w
    <3>2. Specs[ow.gen] \in Stanza
      BY <1>1, <2>1, StanzaType
    <3>3. Specs[w.gen].output \in Output
      BY <2>5, <3>1, <3>2 DEF Stanza, Stanza_
    <3> QED BY <1>6, <2>1, <3>1, <3>3 DEF AfterCluster
  <2> QED BY <1>9, <2>2, <2>3, <2>4, <2>5 DEF FindCluster
<1>10. CASE CreateCluster
  <2>1. /\ ow.pc = "create" /\ ~ ow.token /\ out' = out /\ status' = status
        /\ Specs[ow.gen].output \in Output
    BY <1>10 DEF CreateCluster, OContinue, Reconciling
  <2>2. CASE ow' = [ow EXCEPT !.pc = "failed"] /\ (stranded' = stranded \/ stranded' = "answer")
             /\ (cluster' = cluster \/ stranded' = "answer")
    <3> DEFINE w == [ow EXCEPT !.pc = "failed"]
    <3>1. w.gen = ow.gen /\ w.token = ow.token /\ w.href = ow.href /\ w.pc = "failed"
      BY <1>1 DEF Worker
    <3>2. ow' = w
      BY <2>2
    <3> HIDE DEF w
    <3>3. Reconciling'
      BY <1>3, <2>1, <3>1, <3>2 DEF Reconciling, AfterCluster
    <3>4. Creations => Creations'
      BY <2>1, <2>2 DEF Creations
    <3>5. Publishing => Publishing'
      BY <1>3, <2>1, <3>1, <3>2 DEF Publishing, Creating, Kept, Whole
    <3> QED BY <3>3, <3>4, <3>5 DEF Others
  <2>3. CASE ow' = [ow EXCEPT !.pc = "token", !.href = TRUE, !.token = TRUE]
    <3> DEFINE w == [ow EXCEPT !.pc = "token", !.href = TRUE, !.token = TRUE]
    <3>1. w.gen = ow.gen /\ w.token /\ w.href /\ w.pc = "token"
      BY <1>1 DEF Worker
    <3>2. ow' = w
      BY <2>3
    <3> HIDE DEF w
    <3>3. Reconciling'
      BY <1>3, <2>1, <3>1, <3>2 DEF Reconciling, AfterCluster
    <3>4. Creations'
      BY <3>1, <3>2 DEF Creations
    <3>5. Publishing => Publishing'
      BY <1>3, <2>1, <3>1, <3>2 DEF Publishing, Creating, Kept, Whole
    <3> QED BY <3>3, <3>4, <3>5 DEF Others
  <2> QED BY <1>10, <2>2, <2>3 DEF CreateCluster, OContinue
<1>11. CASE CreateFailed
  <2>1. Same /\ OnboardError /\ ow.pc = "failed"
    BY <1>11 DEF CreateFailed, Same
  <2> QED BY <1>5, <2>1, FailEnds
<1>12. CASE WriteToken
  <2>1. /\ ow.pc = "token" /\ Strands("error") /\ cluster' = cluster
        /\ (out' = out \/ out' = [out EXCEPT ![Stanza_.output] = Written(@, TRUE, FALSE)])
    BY <1>12 DEF WriteToken
  <2>2. Grows
    BY <1>1, <1>2, <2>1, OutGrows
  <2>3. CASE Spend /\ Errs
    BY <1>3, <2>1, <2>2, <2>3, ErrsEnds, ErrsKeep
  <2>4. CASE /\ OContinue([ow EXCEPT !.pc = "record"]) /\ UNCHANGED faults
             /\ out' = [out EXCEPT ![Stanza_.output] = Written(@, TRUE, FALSE)]
    <3> DEFINE w == [ow EXCEPT !.pc = "record"]
    <3>1. w.gen = ow.gen /\ w.token = ow.token /\ w.href = ow.href /\ w.pc = "record" /\ Goes(w)
      BY <1>1, <2>4, GoesOn DEF Worker
    <3> HIDE DEF w
    <3>2. Specs[ow.gen].output \in Output /\ ow.href
      BY <2>1 DEF Reconciling, AfterCluster
    <3>3. Kept(out', w.gen)
      BY <1>1, <2>4, <3>1, <3>2, OutGrows DEF Kept, Stanza_
    <3>4. stranded' = stranded
      BY <2>1, <3>1 DEF Strands, Goes
    <3> QED BY <1>3, <2>1, <2>2, <3>1, <3>2, <3>3, <3>4, GoKeeps
  <2> QED BY <1>12, <2>3, <2>4 DEF WriteToken
<1>13. CASE RecordHref
  <2> DEFINE new == [status EXCEPT !.href = TRUE]
             v == [ow EXCEPT !.token = FALSE]
             w == Paired(v)
             Recorded == ow' = w /\ oqueued' = TRUE /\ UNCHANGED otimer
  <2>1. /\ ow.pc = "record" /\ cluster' = cluster /\ out' = out /\ Strands("error")
        /\ Persist(new, Recorded)
    BY <1>13 DEF RecordHref
  <2>2. new \in Status /\ new.href /\ new.onboarded = status.onboarded /\ new.obs = status.obs
    BY <1>1, StatusesTyped DEF Status
  <2>3. /\ w.gen = ow.gen /\ ~ w.token /\ w.href = ow.href
        /\ w.pc = IF Creating(ow.gen) THEN "pair" ELSE "namespaces"
    BY <1>1 DEF Paired, Creating, Worker
  <2>4. ow.href /\ status.obs <= gen
    BY <2>1 DEF Reconciling, AfterCluster
  <2>5. ASSUME Publishing, ow.gen = gen
        PROVE  /\ Creating(gen) => Kept(out, gen)
               /\ status.onboarded = "True" /\ status.obs = gen /\ Creating(gen) => Whole(out, gen)
    BY <2>1, <2>4, <2>5 DEF Publishing
  <2>6. CASE Errs /\ (Spend \/ UNCHANGED faults)
    BY <1>2, <1>3, <2>1, <2>6, ErrsEnds, ErrsKeep
  <2>7. CASE ow.gen = gen /\ status' = new /\ Spend /\ OBackoff
    <3>1. Ends(new)
      BY <2>7, PersistEnds DEF Persist
    <3> HIDE DEF new
    <3> QED BY <1>2, <1>3, <2>1, <2>2, <2>4, <2>5, <3>1, EndKeeps
  <2>8. CASE ow.gen = gen /\ status' = new /\ Recorded
    <3>1. ow' = w /\ status' = new
      BY <2>8
    <3> HIDE DEF new, w
    <3>2. Reconciling'
      <4>1. ow.gen \in 1..gen
        BY <2>1 DEF Reconciling
      <4> QED BY <1>3, <2>2, <2>3, <2>4, <3>1, <4>1 DEF Reconciling
    <3>3. Creations'
      BY <2>2, <3>1 DEF Creations
    <3>4. ASSUME Publishing PROVE Publishing'
      <4>1. out' = out
        BY <2>1
      <4>2. Creating(gen) => Kept(out, gen)
        BY <2>5, <2>8, <3>4
      <4>3. status.onboarded = "True" /\ status.obs = gen /\ Creating(gen) => Whole(out, gen)
        BY <2>5, <2>8, <3>4
      <4> QED BY <1>3, <2>2, <2>3, <2>8, <3>1, <4>1, <4>2, <4>3 DEF Publishing, Creating
    <3> QED BY <3>2, <3>3, <3>4 DEF Others
  <2> HIDE DEF new, Recorded
  <2> QED BY <2>1, <2>6, <2>7, <2>8 DEF Persist
<1>14. CASE FindPairing
  <2>1. Same /\ ow.pc = "pair" /\ ~ ow.token /\ ow.href
    BY <1>14 DEF FindPairing, Same, Reconciling, AfterCluster
  <2>2. CASE OnboardFail
    BY <1>5, <2>1, <2>2, FailEnds
  <2>3. CASE Fails /\ Errs
    BY <1>4, <2>1, <2>3, ErrsEnds
  <2>4. CASE /\ OContinue([ow EXCEPT !.pc = IF pairing THEN "key" ELSE "newpair"])
             /\ UNCHANGED faults
    <3> DEFINE w == [ow EXCEPT !.pc = IF pairing THEN "key" ELSE "newpair"]
    <3>1. /\ w.gen = ow.gen /\ w.token = ow.token /\ w.href = ow.href
          /\ w.pc \in {"key", "newpair"}
      BY <1>1 DEF Worker
    <3>2. Goes(w)
      BY <2>4, GoesOn
    <3> HIDE DEF w
    <3> QED BY <1>6, <2>1, <3>1, <3>2 DEF AfterCluster
  <2> QED BY <1>14, <2>2, <2>3, <2>4 DEF FindPairing
<1>15. CASE CreatePairing
  <2>1. Same /\ ow.pc = "newpair" /\ ~ ow.token /\ ow.href
    BY <1>15 DEF CreatePairing, Same, Reconciling, AfterCluster
  <2>2. CASE OContinue([ow EXCEPT !.pc = "key"]) /\ UNCHANGED faults
    <3> DEFINE w == [ow EXCEPT !.pc = "key"]
    <3>1. w.gen = ow.gen /\ w.token = ow.token /\ w.href = ow.href /\ w.pc = "key"
      BY <1>1 DEF Worker
    <3>2. Goes(w)
      BY <2>2, GoesOn
    <3> HIDE DEF w
    <3> QED BY <1>6, <2>1, <3>1, <3>2 DEF AfterCluster
  <2>3. CASE (Spend \/ Fails) /\ Errs
    BY <1>4, <2>1, <2>3, ErrsEnds
  <2> QED BY <1>15, <2>2, <2>3 DEF CreatePairing
<1>16. CASE GenerateKey
  <2>1. Same /\ ow.pc = "key" /\ ~ ow.token /\ ow.href
    BY <1>16 DEF GenerateKey, Same, Reconciling, AfterCluster
  <2>2. CASE OContinue([ow EXCEPT !.pc = "publish"]) /\ UNCHANGED faults
    <3> DEFINE w == [ow EXCEPT !.pc = "publish"]
    <3>1. w.gen = ow.gen /\ w.token = ow.token /\ w.href = ow.href /\ w.pc = "publish"
      BY <1>1 DEF Worker
    <3>2. Goes(w)
      BY <2>2, GoesOn
    <3> HIDE DEF w
    <3> QED BY <1>6, <2>1, <3>1, <3>2 DEF AfterCluster
  <2>3. CASE Fails /\ Errs
    BY <1>4, <2>1, <2>3, ErrsEnds
  <2> QED BY <1>16, <2>2, <2>3 DEF GenerateKey
<1>17. CASE PublishCode
  <2>1. /\ ow.pc = "publish" /\ stranded' = stranded /\ cluster' = cluster
        /\ ~ ow.token /\ ow.href
        /\ (out' = out \/ out' = [out EXCEPT ![Stanza_.output] = Written(@, FALSE, TRUE)])
    BY <1>17 DEF PublishCode, Reconciling, AfterCluster
  <2>2. Grows
    BY <1>1, <1>2, <2>1, OutGrows
  <2>3. CASE (Spend \/ UNCHANGED faults) /\ Errs
    BY <1>3, <2>1, <2>2, <2>3, ErrsEnds, ErrsKeep
  <2>4. CASE /\ OContinue([ow EXCEPT !.pc = "namespaces"]) /\ UNCHANGED faults
             /\ out' = [out EXCEPT ![Stanza_.output] = Written(@, FALSE, TRUE)]
    <3> DEFINE w == [ow EXCEPT !.pc = "namespaces"]
    <3>1. /\ w.gen = ow.gen /\ w.token = ow.token /\ w.href = ow.href
          /\ w.pc = "namespaces" /\ Goes(w)
      BY <1>1, <2>4, GoesOn DEF Worker
    <3> HIDE DEF w
    <3>2. ASSUME Publishing, Creating(w.gen) PROVE Whole(out', w.gen)
      <4>1. Kept(out, ow.gen)
        BY <2>1, <3>1, <3>2 DEF Publishing
      <4>2. Kept(out', ow.gen)
        BY <2>2, <4>1 DEF Kept, Grows
      <4>3. out'[Stanza_.output].code
        BY <1>1, <2>4, <4>1, OutGrows DEF Kept, Stanza_
      <4> QED BY <3>1, <4>2, <4>3 DEF Whole, Kept, Stanza_
    <3>3. Whole(out', w.gen) => Kept(out', w.gen)
      BY DEF Whole, Kept
    <3> QED BY <1>3, <2>1, <2>2, <3>1, <3>2, <3>3, GoKeeps
  <2> QED BY <1>17, <2>3, <2>4 DEF PublishCode
<1>18. CASE Namespaces
  <2>1. Same /\ ow.pc = "namespaces" /\ ~ ow.token /\ ow.href
    BY <1>18 DEF Namespaces, Same, Reconciling, AfterCluster
  <2>2. PICK p \in {"clean", "partial"} : Goes([ow EXCEPT !.pc = p])
    BY <1>18, GoesOn DEF Namespaces
  <2> DEFINE w == [ow EXCEPT !.pc = p]
  <2>3. w.gen = ow.gen /\ w.token = ow.token /\ w.href = ow.href /\ w.pc = p
    BY <1>1 DEF Worker
  <2>4. Goes(w)
    BY <2>2
  <2> HIDE DEF w
  <2>5. Publishing /\ Creating(ow.gen) => Whole(out, ow.gen)
    BY <2>1 DEF Publishing
  <2> QED BY <1>6, <2>1, <2>3, <2>4, <2>5 DEF AfterCluster
<1>19. CASE FinishProfile
  <2>1. Same /\ ow.pc \in {"clean", "partial"} /\ ~ ow.token /\ ow.href
    BY <1>19 DEF FinishProfile, Same, Reconciling, AfterCluster
  <2> DEFINE clean == [href |-> ow.href, onboarded |-> "True", obs |-> ow.gen]
             partial == [status EXCEPT !.href = ow.href, !.onboarded = "True"]
  <2>2. /\ clean \in Status /\ clean.href /\ clean.obs = ow.gen
        /\ partial \in Status /\ partial.href /\ partial.obs = status.obs
    BY <1>1, <2>1, StatusesTyped DEF Status
  <2>3. PICK new \in {clean, partial} : Ends(new)
    BY <1>19, PersistEnds DEF FinishProfile
  <2>4. /\ new \in Status /\ new.href
        /\ ow.gen = gen => new.obs <= gen
    <3>1. gen <= gen /\ status.obs <= gen
      <4>1. Len(Specs) \in Nat
        BY Generations
      <4> QED BY <4>1 DEF TypeOK, Reconciling
    <3> HIDE DEF clean, partial
    <3> QED BY <2>2, <2>3, <3>1
  <2>5. Publishing /\ Creating(ow.gen) => Whole(out, ow.gen) /\ Kept(out, ow.gen)
    BY <2>1 DEF Publishing, Whole
  <2> HIDE DEF clean, partial
  <2> QED BY <1>2, <1>3, <2>1, <2>3, <2>4, <2>5, EndKeeps DEF Same
<1> QED BY <1>7, <1>8, <1>9, <1>10, <1>11, <1>12, <1>13, <1>14, <1>15, <1>16, <1>17, <1>18,
           <1>19 DEF ProfileStep

-----------------------------------------------------------------------------
(* Everybody's steps, and the theorems *)

(* The reconcile's invariants hold of every step, Publishing of a profile that *)
(* keeps to its output Secret.                                                 *)
LEMMA InvNext ==
  ASSUME TypeOK, Reconciling, [Next]_vars
  PROVE  Others /\ (Steady /\ Publishing => Publishing')
<1>1. CASE ProfileStep
  BY <1>1, ProfileKeeps
<1>2. CASE UNCHANGED <<gen, cluster, out, status, ow, stranded>>
  <2>1. Reconciling'
    BY <1>2 DEF Reconciling
  <2>2. Creations => Creations'
    BY <1>2 DEF Creations
  <2>3. Publishing => Publishing'
    BY <1>2 DEF Publishing, Creating, Kept, Whole
  <2> QED BY <2>1, <2>2, <2>3 DEF Others
<1>3. CASE Restart
  <2>1. /\ ow' = OIdle /\ OIdle.pc = "idle" /\ ~ OIdle.token
        /\ UNCHANGED <<gen, cluster, out, status>> /\ Strands("crash")
    BY <1>3 DEF Restart, OIdle
  <2>2. Reconciling'
    BY <2>1 DEF Reconciling, AfterCluster
  <2>3. Creations => Creations'
    BY <2>1 DEF Creations, Strands
  <2>4. Publishing => Publishing'
    BY <2>1 DEF Publishing, Creating, Kept, Whole
  <2> QED BY <2>2, <2>3, <2>4 DEF Others
<1>4. CASE EditProfile
  <2>1. /\ gen' = gen + 1 /\ UNCHANGED <<cluster, out, status, ow, stranded>>
        /\ gen < Len(Specs)
    BY <1>4 DEF EditProfile
  <2>2. Len(Specs) \in Nat
    BY Generations
  <2>3. /\ gen \in 1..Len(Specs) /\ gen' \in 1..Len(Specs) /\ gen \in 1..gen'
        /\ status.obs \in Nat /\ (ow.gen \in 1..gen => ow.gen \in 1..gen')
    <3>1. status.obs \in 0..Len(Specs)
      BY DEF TypeOK, Status
    <3> QED BY <2>1, <2>2, <3>1 DEF TypeOK
  <2>4. status.obs <= gen' /\ status.obs # gen'
    BY <2>1, <2>3 DEF Reconciling
  <2>5. Reconciling'
    BY <2>1, <2>3, <2>4 DEF Reconciling
  <2>6. Creations => Creations'
    BY <2>1 DEF Creations
  <2>7. ASSUME Steady, Publishing PROVE Publishing'
    <3>1. Creating(gen') => Creating(gen) /\ Specs[gen].output = Specs[gen'].output
      BY <2>3, <2>7 DEF Steady
    <3>2. status.href /\ Creating(gen') => Kept(out, gen')
      BY <2>7, <3>1 DEF Publishing, Kept
    <3> QED BY <2>1, <2>4, <2>7, <3>2 DEF Publishing, Creating, Kept, Whole
  <2> QED BY <2>5, <2>6, <2>7 DEF Others
<1>5. CASE ClusterChanges
  <2>1. UNCHANGED <<gen, out, status, ow>> /\ cluster' # "ours"
    BY <1>5 DEF ClusterChanges
  <2>2. Reconciling'
    BY <2>1 DEF Reconciling
  <2>3. Creations'
    BY <2>1 DEF Creations
  <2>4. Publishing => Publishing'
    BY <2>1 DEF Publishing, Creating, Kept, Whole
  <2> QED BY <2>2, <2>3, <2>4 DEF Others
<1> QED BY <1>1, <1>2, <1>3, <1>4, <1>5
        DEF Next, ConnectionNext, profileVars, OTimerFire, vars

(* They hold at the start. *)
LEMMA InvInit == Init => Reconciling /\ Creations /\ Publishing
<1> SUFFICES ASSUME Init PROVE Reconciling /\ Creations /\ Publishing
  OBVIOUS
<1>1. /\ gen = 1 /\ cluster # "ours" /\ ow.pc = "idle" /\ ~ ow.token
      /\ ~ status.href /\ status.onboarded = "none" /\ status.obs = 0
  BY DEF Init, OIdle
<1> QED BY <1>1 DEF Reconciling, AfterCluster, Creations, Publishing

(* Create mode stops at a cluster of its own only when the token was lost in   *)
(* between, whatever the profile's history and whoever else touches the        *)
(* cluster (WriteToken and RecordHref come before anything else).              *)
THEOREM DeadEndsAreLosses == Spec => []DeadEndIsLoss
<1>1. Init => TypeOK /\ Reconciling /\ Creations
  BY TypeInit, InvInit
<1>2. (TypeOK /\ Reconciling /\ Creations) /\ [Next]_vars
      => (TypeOK /\ Reconciling /\ Creations)'
  BY TypeNext, InvNext DEF Others
<1>3. Reconciling /\ Creations => DeadEndIsLoss
  BY DEF Reconciling, Creations, DeadEndIsLoss, DeadEnd
<1> QED BY <1>1, <1>2, <1>3, PTL DEF Spec

(* A profile that keeps to its output Secret for as long as it creates reports *)
(* onboarded only when cluster id, token and code are in that Secret, through  *)
(* every crash, lost call and edit of the rest of its spec.                    *)
THEOREM OnboardedMeansPublished == Steady => (Spec => []OnboardedIsPublished)
<1> SUFFICES ASSUME Steady PROVE Spec => []OnboardedIsPublished
  OBVIOUS
<1>1. Init => TypeOK /\ Reconciling /\ Publishing
  BY TypeInit, InvInit
<1>2. (TypeOK /\ Reconciling /\ Publishing) /\ [Next]_vars
      => (TypeOK /\ Reconciling /\ Publishing)'
  BY TypeNext, InvNext DEF Others
<1>3. Publishing => OnboardedIsPublished
  BY DEF Publishing, Whole, Kept, Creating, OnboardedIsPublished
<1> QED BY <1>1, <1>2, <1>3, PTL DEF Spec
=============================================================================
