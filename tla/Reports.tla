-------------------------------- MODULE Reports --------------------------------
(* The two read-only controllers: PolicyInsight runs an expensive traffic      *)
(* query once for every request, RuleView mirrors the rules of the PCE every   *)
(* interval.  Both start from the informer's snapshot, gate on the status they *)
(* wrote before, and write a status that answers the request.  A request is a  *)
(* generation with a refresh token: the code compares and records the two      *)
(* together, so one number stands for the pair (tokens are taken to be new).   *)
EXTENDS Naturals

CONSTANTS
  MaxRequests, \* bound on spec edits and refresh tokens
  MaxFaults,   \* bound on failed calls, restarts and edits that request nothing
  MaxChanges   \* bound on changes of readiness and of the PCE's data

VARIABLES
  kind,          \* which of the two the object is
  obj, cache,    \* the object at the API server and in the informer
  fresh,         \* whether the informer is at the object's resourceVersion
  queued, timer, \* work queue and RequeueAfter
  wk,            \* the reconcile under way
  world,         \* what resolveClusterProfile and the scope labels come to
  truth,         \* version of what the PCE knows: flows and rules
  job,           \* the asynchronous traffic query in the PCE
  runs,          \* history: traffic queries begun from the latest snapshot
  lost,          \* history: the answer of the present request was dropped
  faults, changes

informer == <<cache, fresh>>
wake == <<queued, timer>>
env == <<kind, world, truth>>
history == <<runs, lost>>
bounds == <<faults, changes>>
vars == <<obj, informer, wake, wk, env, job, history, bounds>>

ASSUME BoundsAssumption ==
  MaxRequests \in Nat \ {0} /\ MaxFaults \in Nat /\ MaxChanges \in Nat

Kinds == {"insight", "ruleview"}
(* Version 0 is nothing at all: what an answer whose body is lost decodes to.   *)
Versions == 0..MaxChanges + 1
(* of and data: the request and the version the report's content is for.       *)
Object == [req : 1..MaxRequests, obs : 0..MaxRequests, ready : {"none", "True", "False"},
           of : 0..MaxRequests, data : Versions, age : {"young", "old"}]
Worker == [pc : {"idle", "resolve", "labels", "query", "poll", "download", "search", "write"},
           req : 0..MaxRequests, own : BOOLEAN, side : {"inbound", "outbound"},
           data : Versions, answer : {"none", "True", "False"}]
Idle == [pc |-> "idle", req |-> 0, own |-> FALSE, side |-> "inbound",
         data |-> 0, answer |-> "none"]

Init ==
  /\ kind \in Kinds
  /\ obj = [req |-> 1, obs |-> 0, ready |-> "none", of |-> 0, data |-> 0, age |-> "old"]
  /\ cache = obj /\ fresh = TRUE
  /\ queued = TRUE /\ timer = FALSE /\ wk = Idle
  /\ world \in {"ok", "notready", "noscope"} /\ truth = 1 /\ job = "none"
  /\ runs = 0 /\ lost = FALSE
  /\ faults = MaxFaults /\ changes = MaxChanges

-----------------------------------------------------------------------------
(* How a reconcile goes on and ends *)

Spend == faults > 0 /\ faults' = faults - 1
Continue(w) == wk' = w /\ UNCHANGED wake
Answer(x) == [wk EXCEPT !.pc = "write", !.answer = x]
(* fail: a condition with a reason; the request counts as answered. *)
Fail == Continue(Answer("False"))
Backoff == wk' = Idle /\ queued' = TRUE /\ UNCHANGED timer
Internal == UNCHANGED <<obj, informer, env, changes>>

-----------------------------------------------------------------------------
(* Reconcile *)

TimerFire ==
  /\ timer /\ timer' = FALSE /\ queued' = TRUE
  /\ UNCHANGED <<wk, job, history, faults>> /\ Internal

(* Mutant: RuleView's gate is PolicyInsight's. *)
Answered_Once(o) == o.obs = o.req /\ o.ready # "none"
(* The gate: the request is answered; a RuleView's answer may be too old. *)
Answered(o) ==
  /\ o.obs = o.req /\ o.ready # "none"
  /\ kind = "ruleview" => o.age = "young"

Begin ==
  /\ wk.pc = "idle" /\ queued /\ queued' = FALSE
  /\ \/ ~ Answered(cache) /\ UNCHANGED timer
        /\ wk' = [Idle EXCEPT !.pc = "resolve", !.req = cache.req, !.own = fresh]
     \/ Answered(cache) /\ timer' = (timer \/ kind = "ruleview") /\ UNCHANGED wk
  /\ UNCHANGED <<job, history, faults>> /\ Internal

Resolve ==
  /\ wk.pc = "resolve"
  /\ \/ world # "notready" /\ Continue([wk EXCEPT !.pc = "labels"]) /\ UNCHANGED faults
     \/ world = "notready" /\ Fail /\ UNCHANGED faults
     \/ Spend /\ Backoff
  /\ UNCHANGED <<job, history>> /\ Internal

FindLabels ==
  /\ wk.pc = "labels"
  /\ \/ /\ world # "noscope" /\ UNCHANGED faults
        /\ Continue([wk EXCEPT !.pc = IF kind = "insight" THEN "query" ELSE "search"])
     \/ world = "noscope" /\ Fail /\ UNCHANGED faults
     \/ Spend /\ Fail
  /\ UNCHANGED <<job, history>> /\ Internal

(* QueryTraffic: create the query, poll it, download its result; inbound flows *)
(* first, then outbound.                                                       *)
CreateQuery ==
  /\ wk.pc = "query"
  /\ runs' = IF wk.side = "inbound" /\ wk.own THEN runs + 1 ELSE runs
  /\ \/ job' = "running" /\ Continue([wk EXCEPT !.pc = "poll"]) /\ UNCHANGED faults
     \/ Spend /\ Fail /\ UNCHANGED job
  /\ UNCHANGED lost /\ Internal
(* Mutant: without a deadline. *)
PollQuery_Forever ==
  /\ wk.pc = "poll"
  /\ \/ job = "done" /\ Continue([wk EXCEPT !.pc = "download"]) /\ UNCHANGED faults
     \/ Spend /\ Fail
  /\ UNCHANGED <<job, history>> /\ Internal
PollQuery ==
  /\ wk.pc = "poll"
  /\ \/ job = "done" /\ Continue([wk EXCEPT !.pc = "download"]) /\ UNCHANGED faults
     \/ job = "running" /\ Fail /\ UNCHANGED faults \* the deadline
     \/ Spend /\ Fail
  /\ UNCHANGED <<job, history>> /\ Internal
Content(d) == [Answer("True") EXCEPT !.data = d]
(* A report of two downloads is as whole as both of them. *)
Downloaded(d) ==
  IF wk.side = "inbound" THEN [wk EXCEPT !.pc = "query", !.side = "outbound", !.data = d]
  ELSE Content(IF wk.data = 0 THEN 0 ELSE d)
Download ==
  /\ wk.pc = "download"
  /\ \/ Continue(Downloaded(truth)) /\ UNCHANGED faults
     \/ Spend /\ Continue(Downloaded(0)) \* the body is lost
     \/ Spend /\ Fail
  /\ UNCHANGED <<job, history>> /\ Internal

SearchRules ==
  /\ wk.pc = "search"
  /\ \/ Continue(Content(truth)) /\ UNCHANGED faults
     \/ Spend /\ Continue(Content(0)) \* the body is lost
     \/ Spend /\ Fail
  /\ UNCHANGED <<job, history>> /\ Internal

(* The answer as it stands in the status; a failure leaves the content there. *)
(* Mutant: a failure does not record the request. *)
Recorded_Unless(o) ==
  LET r == [o EXCEPT !.obs = IF wk.answer = "True" THEN wk.req ELSE @,
                     !.ready = wk.answer, !.age = "young"] IN
  IF wk.answer = "True" THEN [r EXCEPT !.of = wk.req, !.data = wk.data] ELSE r
(* Mutant: the request after the one answered is recorded. *)
Recorded_Ahead(o) ==
  LET r == [o EXCEPT !.obs = wk.req + 1, !.ready = wk.answer, !.age = "young"] IN
  IF wk.answer = "True" THEN [r EXCEPT !.of = wk.req, !.data = wk.data] ELSE r
Recorded(o) ==
  LET r == [o EXCEPT !.obs = wk.req, !.ready = wk.answer, !.age = "young"] IN
  IF wk.answer = "True" THEN [r EXCEPT !.of = wk.req, !.data = wk.data] ELSE r

(* An error of the status write.  After a traffic query it is swallowed: an    *)
(* error would bring the query again.                                          *)
Swallows == kind = "insight" /\ wk.answer = "True"
(* Mutant: every error of the write is swallowed. *)
WriteFails_Quiet == wk' = Idle /\ UNCHANGED wake
WriteFails == IF Swallows THEN wk' = Idle /\ UNCHANGED wake ELSE Backoff

Written == obj' = Recorded(obj) /\ fresh' = FALSE
Done == wk' = Idle /\ timer' = (timer \/ kind = "ruleview") /\ UNCHANGED queued

(* Mutant: a patch that cannot conflict, with the generation the object has.   *)
WriteStatus_Patch ==
  /\ wk.pc = "write" /\ Done /\ fresh' = FALSE
  /\ obj' = [Recorded(obj) EXCEPT !.obs = obj.req]
  /\ UNCHANGED <<cache, env, job, history, bounds>>
WriteStatus ==
  /\ wk.pc = "write"
  /\ \/ wk.own /\ Written /\ Done /\ UNCHANGED <<lost, faults>>
     \/ wk.own /\ Written /\ Spend /\ WriteFails /\ UNCHANGED lost \* the answer is lost
     \/ wk.own /\ Spend /\ WriteFails /\ lost' = Swallows /\ UNCHANGED <<obj, fresh>>
     \/ ~ wk.own /\ WriteFails /\ UNCHANGED <<obj, fresh, lost, faults>> \* a conflict
  /\ UNCHANGED <<cache, env, job, runs, changes>>

Reconcile ==
  \/ Begin \/ Resolve \/ FindLabels \/ CreateQuery \/ PollQuery \/ Download
  \/ SearchRules \/ WriteStatus

-----------------------------------------------------------------------------
(* Everybody else *)

(* The informer delivers; every update of the object is an event. *)
CacheSync ==
  /\ ~ fresh /\ fresh' = TRUE /\ cache' = obj /\ queued' = TRUE
  /\ UNCHANGED <<obj, timer, wk, env, job, history, bounds>>

Overtaken == fresh' = FALSE /\ wk' = [wk EXCEPT !.own = FALSE] /\ lost' = FALSE
Request ==
  /\ obj.req < MaxRequests
  /\ obj' = [obj EXCEPT !.req = @ + 1] /\ Overtaken
  /\ UNCHANGED <<cache, wake, env, job, runs, bounds>>
(* An edit that requests nothing, of some other label or annotation. *)
Touch ==
  /\ Spend /\ Overtaken
  /\ UNCHANGED <<obj, cache, wake, env, job, runs, changes>>

(* An interval has passed since the status was written. *)
IntervalPasses ==
  /\ obj.age = "young" \/ cache.age = "young"
  /\ obj' = [obj EXCEPT !.age = "old"] /\ cache' = [cache EXCEPT !.age = "old"]
  /\ UNCHANGED <<fresh, wake, wk, env, job, history, bounds>>

Restart ==
  /\ Spend
  /\ wk' = Idle /\ queued' = TRUE /\ timer' = FALSE
  /\ cache' = obj /\ fresh' = TRUE /\ lost' = FALSE
  /\ UNCHANGED <<obj, env, job, runs, changes>>

QueryCompletes ==
  /\ job = "running" /\ job' = "done"
  /\ UNCHANGED <<wake, wk, history, faults>> /\ Internal

Change ==
  /\ changes > 0 /\ changes' = changes - 1
  /\ \/ world' \in {"ok", "notready", "noscope"} \ {world} /\ UNCHANGED truth
     \/ truth' = truth + 1 /\ UNCHANGED world
  /\ UNCHANGED <<obj, informer, wake, wk, kind, job, history, faults>>

Next ==
  \/ TimerFire \/ Reconcile \/ CacheSync \/ IntervalPasses
  \/ Request \/ Touch \/ Restart \/ QueryCompletes \/ Change
Spec == Init /\ [][Next]_vars

(* The informer, the timers, the clock and the worker go on; the PCE need not  *)
(* complete a query.                                                           *)
FairSpec ==
  /\ Spec
  /\ WF_vars(CacheSync) /\ WF_vars(TimerFire) /\ WF_vars(IntervalPasses) /\ WF_vars(Reconcile)

-----------------------------------------------------------------------------
(* Properties *)

(* Types of all variables. *)
TypeOK ==
  /\ kind \in Kinds /\ obj \in Object /\ cache \in Object /\ fresh \in BOOLEAN
  /\ queued \in BOOLEAN /\ timer \in BOOLEAN /\ wk \in Worker
  /\ world \in {"ok", "notready", "noscope"} /\ truth \in Versions
  /\ job \in {"none", "running", "done"} /\ runs \in Nat /\ lost \in BOOLEAN
  /\ faults \in 0..MaxFaults /\ changes \in 0..MaxChanges

(* "The operator computes once per request and then idles - it never polls the *)
(* PCE on a timer" (docs/reference/policyinsight.md): a traffic query needs a  *)
(* request of its own, or a fault or a foreign edit that cost an earlier one   *)
(* its answer; the controller's own status writes bring none.  (Queries begun  *)
(* from a snapshot that is outdated are not counted: while the informer lags a *)
(* failed one comes again.)                                                    *)
QueriesAreBounded == runs <= obj.req + (MaxFaults - faults)

(* A report that says Ready holds the content of the request it names, however *)
(* requests, snapshots and status writes interleave.                           *)
ReportIsOfRequest == obj.ready = "True" => obj.of = obj.obs /\ obj.obs <= obj.req

(* An idle controller that has seen the latest object has answered its request,*)
(* unless it dropped the answer rather than query again, and a RuleView has    *)
(* its next look scheduled.                                                    *)
NothingForgotten ==
  wk.pc = "idle" /\ ~ queued /\ fresh =>
    (obj.obs = obj.req \/ lost) /\ (kind = "ruleview" => timer)

(* Every last request is answered, even by a PCE that never completes a query, *)
(* since the poll loop has a deadline.                                         *)
RequestIsAnswered == <>[](obj.obs = obj.req \/ lost)

(* A RuleView recovers by itself and mirrors what the PCE has.                 *)
RuleViewFollows ==
  kind = "ruleview" /\ <>[](world = "ok") => <>[](obj.ready = "True" /\ obj.data = truth)
=============================================================================
