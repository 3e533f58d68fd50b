---------------------------- MODULE PolicyPromise ----------------------------
(* What the operator promises about a policy CR, seen by somebody who watches  *)
(* only what users ask for and what the PCE enforces: each change of the       *)
(* enforced policy of a CR puts the whole compilation of one generation in     *)
(* force, never an older one than before; policy is withdrawn only from a CR   *)
(* being deleted; and a CR is gone only when nothing of it is enforced.        *)
(* Calls, drafts, caches, failures and restarts do not appear.                 *)
EXTENDS PolicyRules

VARIABLES
  asked,    \* asked[c]: the phase and generation of the object
  enforced  \* enforced[c]: the generation and rules in force

promise == <<asked, enforced>>

Nothing == [exists |-> FALSE, gen |-> 0, rules |-> {}]

Init ==
  /\ asked = [c \in CR |-> [phase |-> "absent", gen |-> 0]]
  /\ enforced = [c \in CR |-> Nothing]

Ask(c) ==
  /\ \/ asked[c].phase = "absent"
        /\ asked' = [asked EXCEPT ![c] = [phase |-> "live", gen |-> 1]]
     \/ /\ asked[c].phase \in {"live", "deleting"} /\ asked[c].gen < Len(SpecOf[c])
        /\ asked' = [asked EXCEPT ![c].gen = @ + 1]
     \/ /\ asked[c].phase = "live"
        /\ asked' = [asked EXCEPT ![c].phase = "deleting"]
  /\ UNCHANGED enforced

Enforce(c) ==
  /\ asked[c].phase \in {"live", "deleting"}
  /\ \E g \in 1..asked[c].gen :
       /\ g >= enforced[c].gen /\ SpecOf[c][g].valid
       /\ \E R \in Compilations(SpecOf[c][g]) :
            enforced' = [enforced EXCEPT ![c] = [exists |-> TRUE, gen |-> g, rules |-> R]]
  /\ UNCHANGED asked

Withdraw(c) ==
  /\ asked[c].phase = "deleting"
  /\ enforced' = [enforced EXCEPT ![c] = Nothing]
  /\ UNCHANGED asked

(* A CR that never got its finalizer leaves from "live". *)
Leave(c) ==
  /\ asked[c].phase \in {"live", "deleting"} /\ ~ enforced[c].exists
  /\ asked' = [asked EXCEPT ![c].phase = "gone"]
  /\ UNCHANGED enforced

Next == \E c \in CR : Ask(c) \/ Enforce(c) \/ Withdraw(c) \/ Leave(c)

Spec == Init /\ [][Next]_promise
=============================================================================
