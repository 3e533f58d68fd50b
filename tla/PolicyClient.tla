---------------------------- MODULE PolicyClient ----------------------------
(* The lifecycle over a connection that loses the bodies of answers.  Client.do*)
(* ignores the error of reading a body and decodes nothing when it is empty:   *)
(* a request that was answered 2xx then succeeds with the zero value of its    *)
(* result - no labels, no rulesets, no rules.                                  *)
EXTENDS PolicyLifecycle

(* FindLabel takes an empty list for an unknown label.  In create mode         *)
(* EnsureLabel looks again before it creates (a second list that is lost ends  *)
(* in a creation the PCE refuses, like a failed call).                         *)
Unseen(w, l) ==
  IF Mode = "skip" THEN Looked(w, l, w.hit)
  ELSE IF Mode = "create" /\ l[2] \in Creatable THEN Looked(w, l, w.hit \cup {l})
  ELSE Verdict(w, "Rejected", "keep", TRUE)

(* Each result goes to the code that awaits it.  A lost result of a deletion   *)
(* or a provisioning is not looked at; that of a creation leaves an empty      *)
(* href, whose use fails like a lost answer; so does a missing service.        *)
LosesLabel(c) ==
  LET w == wk[c] IN
  \/ /\ w.pc = "scope" /\ scope \cap labels # {}
     /\ wk' = [wk EXCEPT ![c] = Verdict(w, "Rejected", "keep", TRUE)]
  \/ /\ w.pc = "narrow" /\ SpecOf[c][w.gen].to \cap labels # {}
     /\ wk' = [wk EXCEPT ![c] = Verdict(w, "Rejected", "keep", TRUE)]
  \/ /\ w.pc = "lookup"
     /\ \E l \in w.todo : l[2] \in labels /\ wk' = [wk EXCEPT ![c] = Unseen(w, l)]
(* Mutant: a finalizing reconcile that finds no ruleset has nothing left to do. *)
LosesList_Ends(c) ==
  \/ wk[c].pc = "find" /\ draft[c].exists /\ wk' = [wk EXCEPT ![c].pc = "create"]
  \/ wk[c].pc = "finfind" /\ draft[c].exists /\ wk' = [wk EXCEPT ![c] = Idle]
(* FindRuleSetByOwner takes an empty list for no ruleset, reconcileRuleSet an  *)
(* empty list of rules for none to delete.                                     *)
LosesList(c) ==
  LET w == wk[c] IN
  \/ w.pc = "find" /\ draft[c].exists /\ wk' = [wk EXCEPT ![c].pc = "create"]
  \/ /\ w.pc = "list" /\ Writable(c)
     /\ wk' = [wk EXCEPT ![c] = AfterDeletes([w EXCEPT !.del = {}])]
  \/ w.pc = "finfind" /\ draft[c].exists /\ wk' = [wk EXCEPT ![c].pc = "release"]

LostBody(c) ==
  /\ Spend
  /\ LosesLabel(c) \/ LosesList(c)
  /\ UNCHANGED <<kube, queue, timer, pce, env, changes>>

LossyNext == Next \/ Console \/ \E c \in CR : LostBody(c)
LossySpec == Init /\ [][LossyNext]_vars
FairLossySpec == LossySpec /\ Fairness

-----------------------------------------------------------------------------
(* Properties *)

Writing == {"list", "delete", "service", "rule", "provision"}

(* A pending deletion that stands when a reconcile looks for its ruleset is    *)
(* never written over: whatever answers are lost, restarts happen and console  *)
(* users do, no path of the reconcile of a live CR leads to a write of a       *)
(* ruleset marked for deletion unless the look-up was answered before it was   *)
(* marked (reconcileRuleSet, "Defer to the admin instead of recreating or      *)
(* overriding their pending change").                                          *)
PendingDeletionDeferred ==
  [][\A c \in CR :
       cr[c].phase = "live" /\ draft[c].marked /\ wk[c].pc \notin Writing
         => Console \/ (draft'[c] = draft[c] /\ wk'[c].pc \notin Writing)]_vars
=============================================================================
