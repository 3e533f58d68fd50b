------------------------------ MODULE Connection ------------------------------
(* The PCEConnection controller: reads the credentials Secret, pings the PCE   *)
(* and records Connected.  It watches the PCEConnection only, never the        *)
(* Secret.                                                                     *)
EXTENDS Naturals

CONSTANTS
  RetryAfterZero, \* whether a 429 may ask for a Retry-After of 0
  MaxFaults,      \* bound on failed API calls, lost answers and restarts
  MaxChanges      \* bound on what administrators and the PCE's health do

VARIABLES
  creds,            \* the credentials Secret: "missing", "refused" or "good"
  health,           \* the PCE: "up", "down" or "limited"
  conn,             \* reason of the Connected condition; "none" before the first
  cqueued, ctimer,  \* work queue and RequeueAfter of the connection
  cw,               \* its reconcile under way
  faults, changes

inputs == <<creds, health>>
connVars == <<conn, cqueued, ctimer, cw>>
bounds == <<faults, changes>>

ASSUME ConnectionAssumption ==
  RetryAfterZero \in BOOLEAN /\ MaxFaults \in Nat /\ MaxChanges \in Nat

Creds == {"missing", "refused", "good"}
Health == {"up", "down", "limited"}
(* Connected is True with reason Connected and False with any other. *)
Reason == {"none", "Connected", "SecretMissing", "AuthFailed", "RateLimited", "PCEUnreachable"}
ConnWorker == [pc : {"idle", "load", "ping", "write"}, creds : Creds,
               reason : Reason, again : BOOLEAN]
CIdle == [pc |-> "idle", creds |-> "missing", reason |-> "none", again |-> FALSE]

ConnInit ==
  /\ creds \in Creds /\ health = "up"
  /\ conn = "none" /\ cqueued = TRUE /\ ctimer = FALSE /\ cw = CIdle
  /\ faults = MaxFaults /\ changes = MaxChanges

-----------------------------------------------------------------------------
Spend == faults > 0 /\ faults' = faults - 1
CBackoff == cw' = CIdle /\ cqueued' = TRUE /\ UNCHANGED <<conn, ctimer>>
CContinue(w) == cw' = w /\ UNCHANGED <<conn, cqueued, ctimer>>

CTimerFire ==
  /\ ctimer /\ ctimer' = FALSE /\ cqueued' = TRUE
  /\ UNCHANGED <<inputs, conn, cw, bounds>>

CBegin ==
  /\ cw.pc = "idle" /\ cqueued /\ cqueued' = FALSE
  /\ cw' = [CIdle EXCEPT !.pc = "load"]
  /\ UNCHANGED <<inputs, conn, ctimer, bounds>>

Outcome(w, reason, again) == [w EXCEPT !.pc = "write", !.reason = reason, !.again = again]

(* loadConfig: a missing or incomplete Secret is looked at again, any other    *)
(* failure to read it is an error.                                             *)
LoadConfig ==
  /\ cw.pc = "load"
  /\ \/ /\ CContinue(IF creds = "missing" THEN Outcome(cw, "SecretMissing", TRUE)
                     ELSE [cw EXCEPT !.pc = "ping", !.creds = creds])
        /\ UNCHANGED faults
     \/ Spend /\ CBackoff
  /\ UNCHANGED <<inputs, changes>>

(* Mutant: an unreachable PCE is not looked at again. *)
PingOutcomes_Final(w) ==
  IF health = "down" THEN {Outcome(w, "PCEUnreachable", FALSE)}
  ELSE IF health = "limited"
       THEN {Outcome(w, "RateLimited", a) : a \in {TRUE, ~ RetryAfterZero}}
  ELSE IF w.creds = "refused" THEN {Outcome(w, "AuthFailed", FALSE)}
  ELSE {Outcome(w, "Connected", TRUE)}

(* classifyPingError: what Ping's answer leads to; RequeueAfter 0 is none. *)
PingOutcomes(w) ==
  IF health = "down" THEN {Outcome(w, "PCEUnreachable", TRUE)}
  ELSE IF health = "limited"
       THEN {Outcome(w, "RateLimited", a) : a \in {TRUE, ~ RetryAfterZero}}
  ELSE IF w.creds = "refused" THEN {Outcome(w, "AuthFailed", FALSE)}
  ELSE {Outcome(w, "Connected", TRUE)}
Ping ==
  /\ cw.pc = "ping"
  /\ \/ (\E w \in PingOutcomes(cw) : CContinue(w)) /\ UNCHANGED faults
     \/ Spend /\ CContinue(Outcome(cw, "PCEUnreachable", TRUE))
  /\ UNCHANGED <<inputs, changes>>

(* The status write; a status that changed brings an event of its own.  An     *)
(* error may hide a write that took effect.                                    *)
WriteConnected ==
  /\ cw.pc = "write"
  /\ \/ /\ conn' = cw.reason /\ cw' = CIdle
        /\ cqueued' = (cqueued \/ conn' # conn)
        /\ ctimer' = (ctimer \/ cw.again)
        /\ UNCHANGED faults
     \/ Spend /\ CBackoff
     \/ /\ Spend /\ conn' = cw.reason
        /\ cw' = CIdle /\ cqueued' = TRUE /\ UNCHANGED ctimer
  /\ UNCHANGED <<inputs, changes>>

ConnStep == CBegin \/ LoadConfig \/ Ping \/ WriteConnected

-----------------------------------------------------------------------------
(* Everybody else; none of it makes an event. *)
ChangeInputs ==
  /\ changes > 0 /\ changes' = changes - 1
  /\ \/ creds' \in Creds \ {creds} /\ UNCHANGED health
     \/ health' \in Health \ {health} /\ UNCHANGED creds
  /\ UNCHANGED <<connVars, faults>>

-----------------------------------------------------------------------------
Connected == conn = "Connected"
Good == creds = "good" /\ health = "up"

(* Once the credentials are good and the PCE answers, Connected comes back by  *)
(* itself, except after a 401 or 403, which PCEConnectionReconciler does not   *)
(* look at again.                                                              *)
ConnectionRecovers == <>[]Good => <>[]Connected \/ <>[](conn = "AuthFailed")
=============================================================================
