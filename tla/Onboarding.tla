------------------------------ MODULE Onboarding ------------------------------
(* The onboarding half of the ClusterProfile controller: create or adopt the   *)
(* container cluster, keep its one-time token, pair the nodes, publish the     *)
(* credentials.  It stands on the PCEConnection controller (Connection) and    *)
(* leads to the namespaces (NamespaceProfiles), which end well or not here.    *)
EXTENDS Connection, Sequences

CONSTANTS
  Output, \* names of output Secrets; "" is not one
  Specs   \* Specs[g]: the onboarding stanza of generation g

VARIABLES
  gen,              \* generation of the profile
  cluster,          \* container cluster of the profile's name in the PCE
  pairing,          \* whether the PCE has the pairing profile
  out,              \* out[s]: the output Secret of name s
  status,           \* the profile's status
  oqueued, otimer,  \* work queue and RequeueAfter of the profile
  ow,               \* its reconcile under way
  stranded          \* history: what kept the last creation from being recorded

profileVars == <<gen, cluster, pairing, out, status, oqueued, otimer, ow, stranded>>
vars == <<inputs, connVars, bounds, profileVars>>

Stanza == [mode : {"create", "adopt"}, output : Output \cup {""}, existing : BOOLEAN]
Secret == [exists : BOOLEAN, id : BOOLEAN, token : BOOLEAN, code : BOOLEAN]
ASSUME StanzaAssumption == Specs \in Seq(Stanza) /\ Len(Specs) > 0 /\ "" \notin Output

NoSecret == [exists |-> FALSE, id |-> FALSE, token |-> FALSE, code |-> FALSE]
Status == [href : BOOLEAN, onboarded : {"none", "True", "False"}, obs : 0..Len(Specs)]
Worker == [pc : {"idle", "resolve", "find", "create", "failed", "token", "record",
                 "pair", "newpair", "key", "publish", "namespaces", "clean", "partial"},
           gen : 0..Len(Specs), creds : Creds, href : BOOLEAN, token : BOOLEAN]
OIdle == [pc |-> "idle", gen |-> 0, creds |-> "missing", href |-> FALSE, token |-> FALSE]

Init ==
  /\ ConnInit
  /\ gen = 1
  /\ cluster \in {"absent", "foreign"} /\ pairing \in BOOLEAN
  /\ out = [s \in Output |-> NoSecret]
  /\ status = [href |-> FALSE, onboarded |-> "none", obs |-> 0]
  /\ oqueued = TRUE /\ otimer = FALSE /\ ow = OIdle
  /\ stranded = "no"

-----------------------------------------------------------------------------
(* How a reconcile goes on and ends *)

Stanza_ == Specs[ow.gen]
Answers == health = "up" /\ ow.creds = "good"
OContinue(w) == ow' = w /\ UNCHANGED <<status, oqueued, otimer>>
OBackoff == ow' = OIdle /\ oqueued' = TRUE /\ UNCHANGED otimer
ORequeue == ow' = OIdle /\ otimer' = TRUE /\ oqueued' = (oqueued \/ status' # status)
Errs == OBackoff /\ UNCHANGED status

(* A PCE call fails: the PCE does not answer or refuses, or the call is lost. *)
Fails == (~ Answers /\ UNCHANGED faults) \/ Spend

(* Status().Update from the snapshot, and what follows it. *)
Persist(new, After) ==
  \/ ow.gen = gen /\ status' = new /\ After /\ UNCHANGED faults
  \/ ow.gen = gen /\ status' = new /\ Spend /\ OBackoff
  \/ ow.gen # gen /\ UNCHANGED faults /\ Errs
  \/ Spend /\ Errs

(* Mutant: the observed generation is one too far. *)
NotOnboarded_Ahead ==
  [status EXCEPT !.href = ow.href, !.onboarded = "False", !.obs = ow.gen + 1]
(* onboardFail and onboardError. *)
NotOnboarded == [status EXCEPT !.href = ow.href, !.onboarded = "False", !.obs = ow.gen]
(* Mutant: a profile that fails is not looked at again. *)
OnboardFail_Final ==
  Persist(NotOnboarded, ow' = OIdle /\ UNCHANGED <<oqueued, otimer>>)
OnboardFail == Persist(NotOnboarded, ORequeue)
OnboardError == Persist(NotOnboarded, OBackoff)

(* A creation whose token or href is with this reconcile only is lost with it. *)
Strands(how) ==
  stranded' = IF ow'.token \/ ~ ow.token \/ status'.href THEN stranded ELSE how

-----------------------------------------------------------------------------
(* Reconcile: connection and cluster *)

OTimerFire ==
  /\ otimer /\ otimer' = FALSE /\ oqueued' = TRUE
  /\ UNCHANGED <<inputs, connVars, bounds, gen, cluster, pairing, out, status, ow, stranded>>

OBegin ==
  /\ ow.pc = "idle" /\ oqueued /\ oqueued' = FALSE
  /\ ow' = [OIdle EXCEPT !.pc = "resolve", !.gen = gen, !.href = status.href]
  /\ UNCHANGED <<inputs, connVars, bounds, gen, cluster, pairing, out, status, otimer, stranded>>

Paired(w) == [w EXCEPT !.pc = IF Specs[w.gen].mode = "create" THEN "pair" ELSE "namespaces"]

(* resolveConnection: the Connected condition, then a Secret read of its own. *)
ResolveConnection ==
  /\ ow.pc = "resolve"
  /\ \/ /\ Connected /\ creds # "missing"
        /\ OContinue(LET w == [ow EXCEPT !.creds = creds] IN
                     IF ow.href THEN Paired(w) ELSE [w EXCEPT !.pc = "find"])
        /\ UNCHANGED faults
     \/ ~ (Connected /\ creds # "missing") /\ OnboardFail
     \/ Spend /\ Errs
  /\ UNCHANGED <<inputs, connVars, changes, gen, cluster, pairing, out, stranded>>

(* FindContainerClusterByName and the two onboarding paths. *)
FindCluster ==
  LET adopt == Stanza_.mode = "adopt"  found == cluster # "absent" IN
  /\ ow.pc = "find"
  /\ \/ Answers /\ adopt /\ ~ found /\ OnboardFail
     \/ Answers /\ ~ adopt /\ (Stanza_.output = "" \/ found) /\ OnboardFail
     \/ /\ Answers /\ adopt /\ found
        /\ OContinue([ow EXCEPT !.pc = "record", !.href = TRUE]) /\ UNCHANGED faults
     \/ /\ Answers /\ ~ adopt /\ ~ found /\ Stanza_.output # ""
        /\ OContinue([ow EXCEPT !.pc = "create"]) /\ UNCHANGED faults
     \/ Fails /\ Errs
  /\ UNCHANGED <<inputs, connVars, changes, gen, cluster, pairing, out, stranded>>

(* The POST answers with the token, once; a lost answer loses it.  The PCE is  *)
(* taken to refuse a second cluster of the name.                               *)
CreateCluster ==
  /\ ow.pc = "create"
  /\ \/ /\ Answers /\ cluster = "absent" /\ cluster' = "ours"
        /\ \/ OContinue([ow EXCEPT !.pc = "token", !.href = TRUE, !.token = TRUE])
              /\ UNCHANGED <<faults, stranded>>
           \/ Spend /\ OContinue([ow EXCEPT !.pc = "failed"]) /\ stranded' = "answer"
     \/ /\ (cluster # "absent" /\ UNCHANGED faults) \/ Fails
        /\ OContinue([ow EXCEPT !.pc = "failed"]) /\ UNCHANGED <<cluster, stranded>>
  /\ UNCHANGED <<inputs, connVars, changes, gen, pairing, out>>
CreateFailed ==
  /\ ow.pc = "failed" /\ OnboardError
  /\ UNCHANGED <<inputs, connVars, changes, gen, cluster, pairing, out, stranded>>

(* writeCredentialsSecret: an empty token or code leaves the one there alone. *)
(* Mutant: an empty token blanks the one there. *)
Written_Blanks(s, token, code) ==
  [exists |-> TRUE, id |-> TRUE, token |-> token, code |-> s.code \/ code]
Written(s, token, code) ==
  [exists |-> TRUE, id |-> TRUE, token |-> s.token \/ token, code |-> s.code \/ code]
(* Mutant: the href is left to the status write at the end. *)
WriteToken_Later ==
  /\ ow.pc = "token"
  /\ \/ /\ out' = [out EXCEPT ![Stanza_.output] = Written(@, TRUE, FALSE)]
        /\ \/ OContinue(Paired([ow EXCEPT !.token = FALSE])) /\ UNCHANGED <<faults, stranded>>
           \/ Spend /\ Errs /\ Strands("error")
     \/ Spend /\ Errs /\ UNCHANGED out /\ Strands("error")
  /\ UNCHANGED <<inputs, connVars, changes, gen, cluster, pairing>>
WriteToken ==
  /\ ow.pc = "token"
  /\ \/ /\ out' = [out EXCEPT ![Stanza_.output] = Written(@, TRUE, FALSE)]
        /\ \/ OContinue([ow EXCEPT !.pc = "record"]) /\ UNCHANGED faults
           \/ Spend /\ Errs
     \/ Spend /\ Errs /\ UNCHANGED out
  /\ Strands("error")
  /\ UNCHANGED <<inputs, connVars, changes, gen, cluster, pairing>>

(* The href goes to the status at once, before the pairing. *)
RecordHref ==
  /\ ow.pc = "record"
  /\ Persist([status EXCEPT !.href = TRUE],
             ow' = Paired([ow EXCEPT !.token = FALSE]) /\ oqueued' = TRUE /\ UNCHANGED otimer)
  /\ Strands("error")
  /\ UNCHANGED <<inputs, connVars, changes, gen, cluster, pairing, out>>

-----------------------------------------------------------------------------
(* Reconcile: pairing, Secret, status *)

(* FindPairingProfileByName: one named in the spec must exist. *)
FindPairing ==
  /\ ow.pc = "pair"
  /\ \/ Answers /\ Stanza_.existing /\ ~ pairing /\ OnboardFail
     \/ /\ Answers /\ (pairing \/ ~ Stanza_.existing)
        /\ OContinue([ow EXCEPT !.pc = IF pairing THEN "key" ELSE "newpair"]) /\ UNCHANGED faults
     \/ Fails /\ Errs
  /\ UNCHANGED <<inputs, connVars, changes, gen, cluster, pairing, out, stranded>>

(* EnsureLabel for each node label, then CreatePairingProfile. *)
CreatePairing ==
  /\ ow.pc = "newpair"
  /\ \/ /\ Answers /\ pairing' = TRUE
        /\ \/ OContinue([ow EXCEPT !.pc = "key"]) /\ UNCHANGED faults
           \/ Spend /\ Errs
     \/ Fails /\ Errs /\ UNCHANGED pairing
  /\ UNCHANGED <<inputs, connVars, changes, gen, cluster, out, stranded>>

(* A new pairing key on every reconcile. *)
GenerateKey ==
  /\ ow.pc = "key"
  /\ \/ Answers /\ OContinue([ow EXCEPT !.pc = "publish"]) /\ UNCHANGED faults
     \/ Fails /\ Errs
  /\ UNCHANGED <<inputs, connVars, changes, gen, cluster, pairing, out, stranded>>

PublishCode ==
  /\ ow.pc = "publish"
  /\ \/ /\ Stanza_.output # ""
        /\ out' = [out EXCEPT ![Stanza_.output] = Written(@, FALSE, TRUE)]
        /\ \/ OContinue([ow EXCEPT !.pc = "namespaces"]) /\ UNCHANGED faults
           \/ Spend /\ Errs
     \/ Stanza_.output = "" /\ Errs /\ UNCHANGED <<out, faults>>
     \/ Spend /\ Errs /\ UNCHANGED out
  /\ UNCHANGED <<inputs, connVars, changes, gen, cluster, pairing, stranded>>

(* The namespaces are reconciled cleanly or not; a cluster that is gone has no *)
(* CWPs to list.                                                               *)
Namespaces ==
  /\ ow.pc = "namespaces"
  /\ \/ /\ Answers /\ cluster # "absent"
        /\ OContinue([ow EXCEPT !.pc = "clean"]) /\ UNCHANGED faults
     \/ /\ (cluster = "absent" /\ UNCHANGED faults) \/ Fails
        /\ OContinue([ow EXCEPT !.pc = "partial"])
  /\ UNCHANGED <<inputs, connVars, changes, gen, cluster, pairing, out, stranded>>

(* Onboarded is True either way, the generation observed after a clean pass.   *)
FinishProfile ==
  /\ \/ /\ ow.pc = "clean"
        /\ Persist([href |-> ow.href, onboarded |-> "True", obs |-> ow.gen], ORequeue)
     \/ /\ ow.pc = "partial"
        /\ Persist([status EXCEPT !.href = ow.href, !.onboarded = "True"], OBackoff)
  /\ UNCHANGED <<inputs, connVars, changes, gen, cluster, pairing, out, stranded>>

ProfileStep ==
  \/ OBegin \/ ResolveConnection \/ FindCluster \/ CreateCluster \/ CreateFailed
  \/ WriteToken \/ RecordHref \/ FindPairing \/ CreatePairing \/ GenerateKey
  \/ PublishCode \/ Namespaces \/ FinishProfile

-----------------------------------------------------------------------------
(* Everybody else *)

(* The operator restarts: both controllers list their objects anew. *)
Restart ==
  /\ Spend
  /\ cw' = CIdle /\ cqueued' = TRUE /\ ctimer' = FALSE
  /\ ow' = OIdle /\ oqueued' = TRUE /\ otimer' = FALSE
  /\ UNCHANGED <<inputs, conn, changes, gen, cluster, pairing, out, status>>
  /\ Strands("crash")

Change == changes > 0 /\ changes' = changes - 1
EditProfile ==
  /\ Change /\ gen < Len(Specs) /\ gen' = gen + 1 /\ oqueued' = TRUE
  /\ UNCHANGED <<inputs, connVars, faults, cluster, pairing, out, status, otimer, ow, stranded>>
(* Somebody deletes the cluster in the PCE, or onboards it some other way. *)
ClusterChanges ==
  /\ Change
  /\ cluster' = IF cluster = "absent" THEN "foreign" ELSE "absent"
  /\ stranded' = IF ow.token THEN stranded ELSE "no"
  /\ UNCHANGED <<inputs, connVars, faults, gen, pairing, out, status, oqueued, otimer, ow>>

ConnectionNext == (CTimerFire \/ ConnStep \/ ChangeInputs) /\ UNCHANGED profileVars
Next ==
  \/ ConnectionNext \/ OTimerFire \/ ProfileStep
  \/ Restart \/ EditProfile \/ ClusterChanges
Spec == Init /\ [][Next]_vars
FairSpec ==
  /\ Spec
  /\ WF_vars(ConnStep /\ UNCHANGED profileVars) /\ WF_vars(CTimerFire /\ UNCHANGED profileVars)
  /\ WF_vars(ProfileStep) /\ WF_vars(OTimerFire)

-----------------------------------------------------------------------------
(* Properties *)

(* Types of all variables. *)
TypeOK ==
  /\ creds \in Creds /\ health \in Health /\ conn \in Reason
  /\ cqueued \in BOOLEAN /\ ctimer \in BOOLEAN /\ cw \in ConnWorker
  /\ faults \in 0..MaxFaults /\ changes \in 0..MaxChanges
  /\ gen \in 1..Len(Specs) /\ cluster \in {"absent", "foreign", "ours"}
  /\ pairing \in BOOLEAN /\ out \in [Output -> Secret] /\ status \in Status
  /\ oqueued \in BOOLEAN /\ otimer \in BOOLEAN /\ ow \in Worker
  /\ stranded \in {"no", "answer", "error", "crash"}

(* "Once onboarding succeeds, the operator writes the Secret [...].  It        *)
(* contains four keys" (docs/guides/onboarding.md): a profile that reports     *)
(* onboarded at its generation, in create mode, has published the id, the      *)
(* one-time token and the activation code under the name it gives.             *)
OnboardedIsPublished ==
  status.onboarded = "True" /\ status.obs = gen /\ Specs[gen].mode = "create"
  => LET s == out[Specs[gen].output] IN s.id /\ s.token /\ s.code

(* Create mode stops at an own cluster it has no href of only when the token   *)
(* was lost in between: to a failed call, a lost answer or a crash (Reconcile  *)
(* writes the token and the href before anything else).                        *)
DeadEnd == cluster = "ours" /\ ~ status.href /\ ow.pc \in {"idle", "resolve", "find"}
DeadEndIsLoss == DeadEnd => stranded # "no"

(* Given a PCE that answers and good credentials a profile ends up onboarded   *)
(* at its generation, or waits for somebody else: a cluster or pairing profile *)
(* that is or is not there, an output Secret without a name.                   *)
Settled == status.onboarded = "True" /\ status.obs = gen
Waits ==
  LET s == Specs[gen] IN
  \/ s.mode = "create" /\ (s.output = "" \/ (s.existing /\ ~ pairing))
  \/ ~ status.href /\ (s.mode = "create" <=> cluster # "absent")
  \/ status.href /\ cluster = "absent"
Onboards == <>[](Good /\ Connected) => <>[](Settled \/ Waits)
=============================================================================
