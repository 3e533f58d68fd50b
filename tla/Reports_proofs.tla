---------------------------- MODULE Reports_proofs ----------------------------
(* Proofs of the safety properties of Reports, for every value of the bounds,  *)
(* and of what its reports say, for every content.                             *)
EXTENDS ReportContent, FunctionTheorems, FiniteSetTheorems, SequenceTheorems,
        WellFoundedInduction, TLAPS

-----------------------------------------------------------------------------
(* The inductive invariant *)

(* The informer is behind the object or shows it; the reconcile is for a       *)
(* request that was made.  The PCE has changed no oftener than its bound says. *)
Synced ==
  /\ fresh => cache = obj
  /\ truth + changes <= MaxChanges + 1
  /\ cache.req <= obj.req /\ wk.req <= obj.req

(* A snapshot at the latest resourceVersion is for the latest request, and one *)
(* that is outdated leaves an event to come.                                   *)
Snapshot ==
  wk.pc # "idle" => IF wk.own THEN fresh /\ wk.req = obj.req ELSE ~ fresh \/ queued

(* What is in the status was computed for the request it names.                *)
Honest ==
  /\ obj.obs <= obj.req /\ (obj.ready = "none" => obj.obs = 0)
  /\ obj.ready = "True" => obj.of = obj.obs
  /\ wk.pc = "write" => wk.answer # "none"

(* Only a PolicyInsight queries, and from the latest snapshot only while the   *)
(* request is not answered.                                                    *)
Querying ==
  /\ wk.pc \in {"query", "poll", "download"} => kind = "insight"
  /\ kind = "insight" /\ wk.pc # "idle" /\ wk.own => obj.obs # obj.req

(* A query of the latest request has begun, or there is a run to spare for it. *)
Charged ==
  wk.own /\ (wk.pc \in {"poll", "download", "write"} \/ (wk.pc = "query" /\ wk.side = "outbound"))
Budget ==
  /\ runs <= obj.req + (MaxFaults - faults)
  /\ obj.obs # obj.req /\ ~ Charged => runs < obj.req + (MaxFaults - faults)

IInv == TypeOK /\ Synced /\ Snapshot /\ Honest /\ Querying /\ Budget /\ NothingForgotten

-----------------------------------------------------------------------------
(* Steps *)

(* Nothing is asked or known yet. *)
LEMMA InitInvariant == Init => IInv
<1> SUFFICES ASSUME Init PROVE IInv
  OBVIOUS
<1>1. 0 \in Versions /\ 1 \in Versions /\ 0 \in 0..MaxRequests /\ 1 \in 1..MaxRequests
  BY BoundsAssumption DEF Versions
<1>2. obj \in Object /\ obj.req = 1 /\ obj.obs = 0 /\ obj.ready = "none"
  BY <1>1 DEF Init, Object
<1>3. wk \in Worker /\ wk.pc = "idle" /\ wk.req = 0 /\ wk.own = FALSE
  BY <1>1 DEF Init, Idle, Worker
<1>4. TypeOK
  <2>1. faults \in 0..MaxFaults /\ changes \in 0..MaxChanges /\ runs \in Nat
    BY BoundsAssumption DEF Init
  <2>2. fresh \in BOOLEAN /\ queued \in BOOLEAN /\ timer \in BOOLEAN /\ lost \in BOOLEAN
    BY DEF Init
  <2>3. cache \in Object /\ kind \in Kinds /\ truth \in Versions
    BY <1>1, <1>2 DEF Init
  <2> QED
    BY <1>2, <1>3, <2>1, <2>2, <2>3 DEF Init, TypeOK
<1>5. Budget
  BY <1>2, BoundsAssumption DEF Init, Budget
<1>6. Synced /\ Snapshot /\ Honest /\ Querying /\ NothingForgotten
  BY <1>2, <1>3, BoundsAssumption DEF Init, Synced, Snapshot, Honest, Querying, NothingForgotten
<1> QED
  BY <1>4, <1>5, <1>6 DEF IInv

(* A step of the reconcile that only moves it on. *)
LEMMA Moves ==
  ASSUME IInv, NEW w \in Worker, wk' = w, w.pc # "idle", wk.pc # "idle",
         w.req = wk.req, w.own = wk.own, UNCHANGED wake, Internal,
         w.pc \in {"query", "poll", "download"} => kind = "insight",
         w.pc = "write" => w.answer # "none",
         faults' \in 0..MaxFaults, lost' = lost, runs' \in Nat,
         job' \in {"none", "running", "done"},
         runs' <= obj.req + (MaxFaults - faults'),
         obj.obs # obj.req /\ ~ Charged' => runs' < obj.req + (MaxFaults - faults')
  PROVE  IInv'
BY DEF IInv, TypeOK, Synced, Snapshot, Honest, Querying, Budget, NothingForgotten, Internal,
       informer, env, wake

(* A reconcile that spends a fault leaves a run to spare. *)
LEMMA Spends ==
  ASSUME IInv, Spend
  PROVE  /\ faults' \in 0..MaxFaults
         /\ runs < obj.req + (MaxFaults - faults')
BY BoundsAssumption DEF IInv, TypeOK, Budget, Spend, Object

(* A reconcile ended without an answer comes back. *)
LEMMA Requeues ==
  ASSUME IInv, Backoff, UNCHANGED <<obj, informer, env, changes, job, history>>,
         faults' \in 0..MaxFaults,
         runs < obj.req + (MaxFaults - faults')
  PROVE  IInv'
<1>1. wk' \in Worker /\ wk'.pc = "idle" /\ wk'.req = 0 /\ wk'.own = FALSE
  BY BoundsAssumption DEF Backoff, Idle, Worker, Versions
<1> USE DEF Backoff, informer, env, history
<1>2. TypeOK'
  BY <1>1 DEF IInv, TypeOK
<1>3. Synced' /\ Honest'
  BY <1>1 DEF IInv, TypeOK, Object, Synced, Honest
<1>4. Snapshot' /\ Querying' /\ NothingForgotten'
  BY <1>1 DEF Snapshot, Querying, NothingForgotten
<1>5. Budget'
  BY <1>1, BoundsAssumption DEF IInv, TypeOK, Object, Budget, Charged
<1> QED
  BY <1>2, <1>3, <1>4, <1>5 DEF IInv

(* A timer that fires puts its object back into the queue. *)
LEMMA TimerFireStep == IInv /\ TimerFire => IInv'
<1> SUFFICES ASSUME IInv, TimerFire PROVE IInv'
  OBVIOUS
<1> USE DEF Internal, informer, env, history
<1>1. TypeOK' /\ Synced'
  BY DEF IInv, TypeOK, Synced, TimerFire
<1>2. Honest' /\ Querying'
  BY DEF IInv, Honest, Querying, TimerFire
<1>3. Snapshot' /\ NothingForgotten'
  BY DEF IInv, TypeOK, Snapshot, NothingForgotten, TimerFire
<1>4. Budget'
  BY DEF IInv, Budget, Charged, TimerFire
<1> QED
  BY <1>1, <1>2, <1>3, <1>4 DEF IInv

(* A reconcile begins only where the cached request is not answered. *)
LEMMA BeginStep == IInv /\ Begin => IInv'
<1> SUFFICES ASSUME IInv, Begin PROVE IInv'
  OBVIOUS
<1> USE DEF Internal, informer, env, history
<1>1. CASE ~ Answered(cache) /\ wk' = [Idle EXCEPT !.pc = "resolve", !.req = cache.req, !.own = fresh]
                             /\ UNCHANGED timer
  <2>0. wk' = [pc |-> "resolve", req |-> cache.req, own |-> fresh, side |-> "inbound",
               data |-> 0, answer |-> "none"]
    BY <1>1 DEF Idle
  <2>1. /\ wk' \in Worker /\ wk'.pc = "resolve" /\ wk'.req = cache.req /\ wk'.own = fresh
    BY <2>0, BoundsAssumption DEF Worker, Versions, IInv, TypeOK, Object
  <2>2. kind = "insight" /\ fresh => obj.obs # obj.req
    BY <1>1 DEF Answered, IInv, Synced, Honest, TypeOK, Object
  <2>3. TypeOK' /\ Synced' /\ Honest'
    BY <2>1 DEF IInv, TypeOK, Synced, Honest, Begin
  <2>4. Snapshot' /\ Querying' /\ NothingForgotten'
    BY <2>1, <2>2 DEF IInv, TypeOK, Synced, Snapshot, Querying, NothingForgotten, Begin
  <2>5. Budget'
    BY <2>1 DEF IInv, Budget, Charged, Begin, Snapshot
  <2> QED
    BY <2>3, <2>4, <2>5 DEF IInv
<1>2. CASE Answered(cache) /\ timer' = (timer \/ kind = "ruleview") /\ UNCHANGED wk
  BY <1>2 DEF Begin, Answered, IInv, TypeOK, Synced, Snapshot, Honest, Querying, Budget, Charged,
     NothingForgotten
<1> QED
  BY <1>1, <1>2 DEF Begin

(* A step that moves on without a call to the traffic query. *)
LEMMA MovesOn ==
  ASSUME IInv, NEW w \in Worker, Continue(w), w.pc # "idle", wk.pc # "idle",
         w.req = wk.req, w.own = wk.own, Internal, UNCHANGED <<job, history>>,
         w.pc \in {"query", "poll", "download"} => kind = "insight",
         w.pc = "write" => w.answer # "none",
         Charged => \/ w.pc \in {"poll", "download", "write"}
                    \/ w.pc = "query" /\ w.side = "outbound",
         faults' = faults \/ Spend
  PROVE  IInv'
<1>1. ~ Charged' => ~ Charged
  BY DEF Charged, Continue
<1>2. /\ faults' \in 0..MaxFaults /\ runs <= obj.req + (MaxFaults - faults')
      /\ obj.obs # obj.req /\ ~ Charged' => runs < obj.req + (MaxFaults - faults')
  <2>1. CASE faults' = faults
    BY <1>1, <2>1 DEF IInv, TypeOK, Budget
  <2>2. CASE Spend
    BY <2>2, Spends, BoundsAssumption DEF IInv, TypeOK, Object
  <2> QED
    BY <2>1, <2>2
<1> QED
  BY <1>2, Moves DEF Continue, history, IInv, TypeOK

(* An answer is for the request the reconcile began with. *)
LEMMA AnswerFields ==
  ASSUME wk \in Worker, NEW a \in {"none", "True", "False"}
  PROVE  LET w == Answer(a) IN
         w \in Worker /\ w.pc = "write" /\ w.answer = a /\ w.req = wk.req /\ w.own = wk.own
<1> DEFINE v == [wk EXCEPT !.pc = "write"]
<1>1. v \in Worker /\ v.pc = "write" /\ v.req = wk.req /\ v.own = wk.own
  BY DEF Worker
<1>2. Answer(a) = [v EXCEPT !.answer = a]
  BY DEF Answer
<1> HIDE DEF v
<1>3. LET x == [v EXCEPT !.answer = a] IN
      x \in Worker /\ x.pc = v.pc /\ x.req = v.req /\ x.own = v.own /\ x.answer = a
  BY <1>1 DEF Worker
<1> QED
  BY <1>1, <1>2, <1>3

(* A failure is an answer too. *)
LEMMA FailStep ==
  ASSUME IInv, Fail, wk.pc # "idle", Internal, UNCHANGED <<job, history>>,
         faults' = faults \/ Spend
  PROVE  IInv'
<1> DEFINE w == Answer("False")
<1>1. w \in Worker /\ w.pc = "write" /\ w.answer # "none" /\ w.req = wk.req /\ w.own = wk.own
  BY AnswerFields DEF IInv, TypeOK
<1> HIDE DEF w
<1> QED
  BY <1>1, MovesOn DEF Fail, w

(* The cluster profile is ready, or not, or cannot be read. *)
LEMMA ResolveStep == IInv /\ Resolve => IInv'
<1> SUFFICES ASSUME IInv, Resolve PROVE IInv'
  OBVIOUS
<1>1. CASE Continue([wk EXCEPT !.pc = "labels"]) /\ UNCHANGED faults
  <2> DEFINE w == [wk EXCEPT !.pc = "labels"]
  <2>1. w \in Worker /\ w.pc = "labels" /\ w.req = wk.req /\ w.own = wk.own
    BY DEF IInv, TypeOK, Worker
  <2>2. wk.pc = "resolve" /\ ~ Charged
    BY DEF Resolve, Charged
  <2> HIDE DEF w
  <2> QED
    BY <1>1, <2>1, <2>2, MovesOn DEF Resolve, w
<1>2. CASE Fail /\ UNCHANGED faults
  BY <1>2, FailStep DEF Resolve
<1>3. CASE Spend /\ Backoff
  BY <1>3, Spends, Requeues DEF Resolve, Internal
<1> QED
  BY <1>1, <1>2, <1>3 DEF Resolve

(* The scope labels are found, or not, or the look-up fails. *)
LEMMA FindLabelsStep == IInv /\ FindLabels => IInv'
<1> SUFFICES ASSUME IInv, FindLabels PROVE IInv'
  OBVIOUS
<1> DEFINE w == [wk EXCEPT !.pc = IF kind = "insight" THEN "query" ELSE "search"]
<1>1. CASE Continue(w) /\ UNCHANGED faults
  <2>1. w \in Worker /\ w.req = wk.req /\ w.own = wk.own
    BY DEF IInv, TypeOK, Worker
  <2>2. w.pc \in {"query", "search"} /\ (w.pc = "query" => kind = "insight")
    BY DEF IInv, TypeOK, Worker
  <2>3. wk.pc = "labels" /\ ~ Charged
    BY DEF FindLabels, Charged
  <2> HIDE DEF w
  <2> QED
    BY <1>1, <2>1, <2>2, <2>3, MovesOn DEF FindLabels
<1>2. CASE Fail /\ (UNCHANGED faults \/ Spend)
  BY <1>2, FailStep DEF FindLabels
<1> QED
  BY <1>1, <1>2 DEF FindLabels

(* The query is done, or the deadline has come, or the poll fails. *)
LEMMA PollQueryStep == IInv /\ PollQuery => IInv'
<1> SUFFICES ASSUME IInv, PollQuery PROVE IInv'
  OBVIOUS
<1> DEFINE w == [wk EXCEPT !.pc = "download"]
<1>1. CASE Continue(w) /\ UNCHANGED faults
  <2>1. w \in Worker /\ w.pc = "download" /\ w.req = wk.req /\ w.own = wk.own
    BY DEF IInv, TypeOK, Worker
  <2>2. wk.pc = "poll" /\ kind = "insight"
    BY DEF PollQuery, IInv, Querying
  <2> HIDE DEF w
  <2> QED
    BY <1>1, <2>1, <2>2, MovesOn DEF PollQuery
<1>2. CASE Fail /\ (UNCHANGED faults \/ Spend)
  BY <1>2, FailStep DEF PollQuery
<1> QED
  BY <1>1, <1>2 DEF PollQuery

(* An answer of the PCE becomes the content of a report. *)
LEMMA ContentFields ==
  ASSUME IInv, NEW d \in Versions
  PROVE  LET w == Content(d) IN
         w \in Worker /\ w.pc = "write" /\ w.answer = "True" /\ w.req = wk.req /\ w.own = wk.own
<1> DEFINE v == Answer("True")
<1>1. v \in Worker /\ v.pc = "write" /\ v.answer = "True" /\ v.req = wk.req /\ v.own = wk.own
  BY AnswerFields DEF IInv, TypeOK
<1>2. Content(d) = [v EXCEPT !.data = d]
  BY DEF Content
<1> HIDE DEF v
<1>3. LET x == [v EXCEPT !.data = d] IN
      x \in Worker /\ x.pc = v.pc /\ x.answer = v.answer /\ x.req = v.req /\ x.own = v.own
  BY <1>1 DEF Worker
<1> QED
  BY <1>1, <1>2, <1>3

(* What is known of the PCE, or nothing when the body is lost. *)
LEMMA ContentStep ==
  ASSUME IInv, NEW d \in Versions, Continue(Content(d)), wk.pc # "idle", Internal,
         UNCHANGED <<job, history>>, faults' = faults \/ Spend
  PROVE  IInv'
<1> DEFINE w == Content(d)
<1>1. w \in Worker /\ w.pc = "write" /\ w.answer # "none" /\ w.req = wk.req /\ w.own = wk.own
  BY ContentFields
<1> HIDE DEF w
<1> QED
  BY <1>1, MovesOn DEF w

(* Inbound flows are followed by the outbound query, those by the report. *)
LEMMA DownloadedStep ==
  ASSUME IInv, NEW d \in Versions, Continue(Downloaded(d)), wk.pc = "download", Internal,
         UNCHANGED <<job, history>>, faults' = faults \/ Spend
  PROVE  IInv'
<1>1. CASE wk.side = "inbound"
  <2> DEFINE u == [wk EXCEPT !.pc = "query"]
             v == [u EXCEPT !.data = d]
             w == [v EXCEPT !.side = "outbound"]
  <2>1. u \in Worker /\ u.pc = "query" /\ u.req = wk.req /\ u.own = wk.own
    BY DEF Worker, IInv, TypeOK
  <2>2. Downloaded(d) = w
    BY <1>1 DEF Downloaded
  <2> HIDE DEF u
  <2>3. v \in Worker /\ v.pc = u.pc /\ v.req = u.req /\ v.own = u.own
    BY <2>1 DEF Worker
  <2> HIDE DEF v
  <2>4. w \in Worker /\ w.pc = v.pc /\ w.req = v.req /\ w.own = v.own /\ w.side = "outbound"
    BY <2>3 DEF Worker
  <2>5. kind = "insight"
    BY DEF IInv, Querying
  <2> HIDE DEF w
  <2> QED
    BY <2>1, <2>2, <2>3, <2>4, <2>5, MovesOn
<1>2. CASE wk.side # "inbound"
  <2>1. 0 \in Versions
    BY BoundsAssumption DEF Versions
  <2> QED
    BY <1>2, <2>1, ContentStep DEF Downloaded
<1> QED
  BY <1>1, <1>2

(* A download answers one of the two queries, or loses its body. *)
LEMMA DownloadStep == IInv /\ Download => IInv'
<1> SUFFICES ASSUME IInv, Download PROVE IInv'
  OBVIOUS
<1>0. 0 \in Versions /\ truth \in Versions
  BY BoundsAssumption DEF Versions, IInv, TypeOK
<1>1. CASE Continue(Downloaded(truth)) /\ UNCHANGED faults
  BY <1>0, <1>1, DownloadedStep DEF Download
<1>2. CASE Spend /\ Continue(Downloaded(0))
  BY <1>0, <1>2, DownloadedStep DEF Download
<1>3. CASE Fail /\ Spend
  BY <1>3, FailStep DEF Download
<1> QED
  BY <1>1, <1>2, <1>3 DEF Download

(* The rules found become the content of a RuleView. *)
LEMMA SearchRulesStep == IInv /\ SearchRules => IInv'
<1> SUFFICES ASSUME IInv, SearchRules PROVE IInv'
  OBVIOUS
<1>0. 0 \in Versions /\ truth \in Versions
  BY BoundsAssumption DEF Versions, IInv, TypeOK
<1>1. CASE Continue(Content(truth)) /\ UNCHANGED faults
  BY <1>0, <1>1, ContentStep DEF SearchRules
<1>2. CASE Spend /\ Continue(Content(0))
  BY <1>0, <1>2, ContentStep DEF SearchRules
<1>3. CASE Fail /\ Spend
  BY <1>3, FailStep DEF SearchRules
<1> QED
  BY <1>1, <1>2, <1>3 DEF SearchRules

(* A query begun for the latest request takes the run that was to spare. *)
LEMMA CreateQueryStep == IInv /\ CreateQuery => IInv'
<1> SUFFICES ASSUME IInv, CreateQuery PROVE IInv'
  OBVIOUS
<1>0. wk.pc = "query" /\ kind = "insight" /\ (wk.own => obj.obs # obj.req)
  BY DEF CreateQuery, IInv, Querying
<1>1. /\ runs' \in Nat
      /\ runs' <= obj.req + (MaxFaults - faults)
      /\ ~ wk.own => runs' = runs
  BY <1>0, BoundsAssumption DEF CreateQuery, IInv, TypeOK, Budget, Charged, Object, Worker
<1>2. ~ wk.own /\ obj.obs # obj.req => runs' < obj.req + (MaxFaults - faults)
  BY <1>1 DEF IInv, Budget, Charged
<1>3. CASE job' = "running" /\ Continue([wk EXCEPT !.pc = "poll"]) /\ UNCHANGED faults
  <2> DEFINE w == [wk EXCEPT !.pc = "poll"]
  <2>1. w \in Worker /\ w.pc = "poll" /\ w.req = wk.req /\ w.own = wk.own
    BY DEF IInv, TypeOK, Worker
  <2> HIDE DEF w
  <2>2. wk' = w /\ (~ Charged' => ~ wk.own)
    BY <1>3, <2>1 DEF Continue, w, Charged
  <2> QED
    BY <1>0, <1>1, <1>2, <1>3, <2>1, <2>2, Moves DEF CreateQuery, Continue, IInv, TypeOK
<1>4. CASE Spend /\ Fail /\ UNCHANGED job
  <2> DEFINE w == Answer("False")
  <2>1. w \in Worker /\ w.pc = "write" /\ w.answer # "none" /\ w.req = wk.req /\ w.own = wk.own
    BY AnswerFields DEF IInv, TypeOK
  <2>2. /\ faults' \in 0..MaxFaults /\ runs' <= obj.req + (MaxFaults - faults')
        /\ ~ wk.own => runs' < obj.req + (MaxFaults - faults')
    BY <1>1, <1>4, Spends, BoundsAssumption DEF Spend, IInv, TypeOK, Object
  <2> HIDE DEF w
  <2>3. wk' = w /\ (~ Charged' => ~ wk.own)
    BY <1>4, <2>1 DEF Fail, Continue, w, Charged
  <2> QED
    BY <1>0, <1>1, <1>4, <2>1, <2>2, <2>3, Moves DEF CreateQuery, Fail, Continue, IInv, TypeOK
<1> QED
  BY <1>3, <1>4 DEF CreateQuery

(* The status written for the latest request answers it. *)
LEMMA RecordedFields ==
  ASSUME IInv, wk.pc = "write", wk.req = obj.req
  PROVE  LET r == Recorded(obj) IN
         /\ r \in Object /\ r.req = obj.req /\ r.obs = obj.req /\ r.ready # "none"
         /\ r.ready = "True" => r.of = r.obs
<1> DEFINE a == [obj EXCEPT !.obs = wk.req]
           b == [a EXCEPT !.ready = wk.answer]
           r == [b EXCEPT !.age = "young"]
           e == [r EXCEPT !.of = wk.req]
<1>0. wk.req \in 0..MaxRequests /\ wk.answer \in {"True", "False"} /\ wk.data \in Versions
  BY DEF IInv, TypeOK, Worker, Honest
<1>1. a \in Object /\ a.req = obj.req /\ a.obs = obj.req
  BY <1>0 DEF IInv, TypeOK, Object
<1>2. Recorded(obj) = IF wk.answer = "True" THEN [e EXCEPT !.data = wk.data] ELSE r
  BY DEF Recorded
<1> HIDE DEF a
<1>3. b \in Object /\ b.req = obj.req /\ b.obs = obj.req /\ b.ready = wk.answer
  BY <1>0, <1>1 DEF Object
<1> HIDE DEF b
<1>4. r \in Object /\ r.req = obj.req /\ r.obs = obj.req /\ r.ready = wk.answer
  BY <1>3 DEF Object
<1> HIDE DEF r
<1>5. /\ e \in Object /\ e.req = obj.req /\ e.obs = obj.req /\ e.ready = wk.answer
      /\ e.of = obj.req
  BY <1>0, <1>4 DEF Object
<1> HIDE DEF e
<1>6. LET x == [e EXCEPT !.data = wk.data] IN
      x \in Object /\ x.req = e.req /\ x.obs = e.obs /\ x.ready = e.ready /\ x.of = e.of
  BY <1>0, <1>5 DEF Object
<1> QED
  BY <1>0, <1>2, <1>4, <1>5, <1>6

(* A worker that has ended is well typed. *)
LEMMA IdleFields == Idle \in Worker /\ Idle.pc = "idle" /\ Idle.req = 0 /\ Idle.own = FALSE
BY BoundsAssumption DEF Idle, Worker, Versions

(* The status is written or not, and its answer comes back or not. *)
LEMMA WriteStatusStep == IInv /\ WriteStatus => IInv'
<1> SUFFICES ASSUME IInv, WriteStatus PROVE IInv'
  OBVIOUS
<1> USE DEF env, wake
<1>0. /\ wk.pc = "write" /\ wk' = Idle
      /\ queued' \in BOOLEAN /\ timer' \in BOOLEAN /\ (queued => queued')
  BY DEF WriteStatus, Done, WriteFails, Backoff, IInv, TypeOK
<1>1. /\ wk' \in Worker /\ wk'.pc = "idle" /\ wk'.req = 0 /\ wk'.own = FALSE
      /\ Snapshot' /\ Querying'
  BY <1>0, IdleFields DEF Snapshot, Querying
<1>2. CASE wk.own /\ Written /\ lost' = lost /\ (faults' = faults \/ Spend)
  <2>1. wk.req = obj.req /\ fresh' = FALSE /\ obj' = Recorded(obj)
    BY <1>0, <1>2 DEF IInv, Snapshot, Written
  <2>2. /\ obj' \in Object /\ obj'.req = obj.req /\ obj'.obs = obj.req /\ obj'.ready # "none"
        /\ obj'.ready = "True" => obj'.of = obj'.obs
    BY <1>0, <2>1, RecordedFields
  <2>3. faults' \in 0..MaxFaults /\ runs <= obj.req + (MaxFaults - faults')
    BY <1>2, Spends, BoundsAssumption DEF IInv, TypeOK, Budget, Object
  <2>4. TypeOK'
    BY <1>0, <1>1, <1>2, <2>1, <2>2, <2>3 DEF WriteStatus, IInv, TypeOK
  <2>5. Synced' /\ Honest' /\ NothingForgotten'
    BY <1>1, <2>1, <2>2, BoundsAssumption DEF WriteStatus, IInv, TypeOK, Object, Synced, Honest,
       NothingForgotten
  <2>6. Budget'
    BY <1>1, <2>2, <2>3 DEF WriteStatus, Budget
  <2> QED
    BY <1>1, <2>4, <2>5, <2>6 DEF IInv
<1>3. ASSUME WriteFails, UNCHANGED <<obj, fresh>>, lost' \in BOOLEAN,
             Swallows /\ wk.own => lost' = TRUE,
             Spend \/ (~ wk.own /\ faults' = faults)
      PROVE  IInv'
  <2>1. lost' \in BOOLEAN /\ faults' \in 0..MaxFaults
    BY <1>3, Spends DEF Swallows, IInv, TypeOK
  <2>2. TypeOK'
    BY <1>0, <1>1, <1>3, <2>1 DEF WriteStatus, IInv, TypeOK
  <2>3. Synced' /\ Honest'
    BY <1>1, <1>3 DEF WriteStatus, IInv, TypeOK, Object, Synced, Honest
  <2>4. Budget'
    <3>1. CASE Spend
      BY <1>1, <1>3, <3>1, Spends, BoundsAssumption DEF WriteStatus, IInv, TypeOK, Object, Budget
    <3>2. CASE ~ wk.own /\ faults' = faults
      BY <1>1, <1>3, <3>2 DEF WriteStatus, IInv, Budget, Charged
    <3> QED
      BY <1>3, <3>1, <3>2
  <2>5. NothingForgotten'
    <3>1. CASE Swallows
      <4>1. queued' = queued /\ kind' = "insight" /\ fresh' = fresh
        BY <1>3, <3>1 DEF WriteStatus, WriteFails, Swallows
      <4>2. lost' \/ ~ fresh \/ queued
        BY <1>0, <1>3, <3>1 DEF IInv, Snapshot
      <4> QED
        BY <4>1, <4>2 DEF NothingForgotten
    <3>2. CASE ~ Swallows
      BY <1>3, <3>2 DEF WriteFails, Backoff, NothingForgotten
    <3> QED
      BY <3>1, <3>2
  <2> QED
    BY <1>1, <2>2, <2>3, <2>4, <2>5 DEF IInv
<1>4. CASE wk.own /\ Written /\ Done /\ UNCHANGED <<lost, faults>>
  BY <1>4, <1>2
<1>5. CASE wk.own /\ Written /\ Spend /\ WriteFails /\ UNCHANGED lost
  BY <1>5, <1>2
<1>6. CASE wk.own /\ Spend /\ WriteFails /\ lost' = Swallows /\ UNCHANGED <<obj, fresh>>
  <2>1. lost' \in BOOLEAN /\ (Swallows => lost' = TRUE)
    BY <1>6 DEF Swallows
  <2>2. Spend /\ WriteFails /\ UNCHANGED <<obj, fresh>>
    BY <1>6
  <2> QED
    BY <2>1, <2>2, <1>3
<1>7. CASE ~ wk.own /\ WriteFails /\ UNCHANGED <<obj, fresh, lost, faults>>
  <2>1. UNCHANGED <<obj, fresh>> /\ lost' \in BOOLEAN /\ faults' = faults
    BY <1>7 DEF IInv, TypeOK
  <2> QED
    BY <1>7, <2>1, <1>3
<1> QED
  BY <1>4, <1>5, <1>6, <1>7 DEF WriteStatus

-----------------------------------------------------------------------------
(* Everybody else *)

(* The informer shows the latest object. *)
LEMMA CacheSyncStep == IInv /\ CacheSync => IInv'
<1> SUFFICES ASSUME IInv, CacheSync PROVE IInv'
  OBVIOUS
<1> USE DEF env, history, bounds
<1>1. TypeOK' /\ Honest' /\ Querying'
  BY DEF IInv, TypeOK, Honest, Querying, CacheSync
<1>2. Synced' /\ Snapshot' /\ NothingForgotten'
  BY DEF IInv, TypeOK, Object, Synced, Snapshot, NothingForgotten, CacheSync
<1>3. Budget'
  BY DEF IInv, Budget, Charged, CacheSync
<1> QED
  BY <1>1, <1>2, <1>3 DEF IInv

(* A new request brings a run of its own. *)
LEMMA RequestStep == IInv /\ Request => IInv'
<1> SUFFICES ASSUME IInv, Request PROVE IInv'
  OBVIOUS
<1> USE DEF env, wake, bounds
<1>1. /\ obj' \in Object /\ obj'.req = obj.req + 1 /\ obj'.obs = obj.obs
      /\ obj'.ready = obj.ready /\ obj'.of = obj.of
  BY BoundsAssumption DEF IInv, TypeOK, Object, Request
<1>2. /\ wk' \in Worker /\ wk'.own = FALSE /\ wk'.pc = wk.pc /\ wk'.req = wk.req
      /\ wk'.answer = wk.answer /\ fresh' = FALSE
  BY DEF IInv, TypeOK, Worker, Request, Overtaken
<1>3. TypeOK'
  BY <1>1, <1>2 DEF IInv, TypeOK, Request, Overtaken
<1>4. Synced' /\ Honest'
  BY <1>1, <1>2, BoundsAssumption DEF IInv, TypeOK, Object, Worker, Synced, Honest, Request
<1>5. Snapshot' /\ Querying' /\ NothingForgotten'
  BY <1>2 DEF IInv, Snapshot, Querying, NothingForgotten, Request
<1>6. Budget'
  BY <1>1, BoundsAssumption DEF IInv, TypeOK, Object, Budget, Request
<1> QED
  BY <1>3, <1>4, <1>5, <1>6 DEF IInv

(* A foreign edit makes the snapshot outdated and costs a fault. *)
LEMMA TouchStep == IInv /\ Touch => IInv'
<1> SUFFICES ASSUME IInv, Touch PROVE IInv'
  OBVIOUS
<1> USE DEF env, wake
<1>1. /\ wk' \in Worker /\ wk'.own = FALSE /\ wk'.pc = wk.pc /\ wk'.req = wk.req
      /\ wk'.answer = wk.answer /\ fresh' = FALSE
  BY DEF IInv, TypeOK, Worker, Touch, Overtaken
<1>2. faults' \in 0..MaxFaults /\ runs < obj.req + (MaxFaults - faults')
  BY Spends DEF Touch
<1>3. TypeOK' /\ Synced' /\ Honest'
  BY <1>1, <1>2 DEF IInv, TypeOK, Synced, Honest, Touch, Overtaken
<1>4. Snapshot' /\ Querying' /\ NothingForgotten'
  BY <1>1 DEF IInv, Snapshot, Querying, NothingForgotten, Touch
<1>5. Budget'
  BY <1>2, BoundsAssumption DEF IInv, TypeOK, Object, Budget, Touch
<1> QED
  BY <1>3, <1>4, <1>5 DEF IInv

(* Ageing changes nothing else of the object. *)
LEMMA IntervalPassesStep == IInv /\ IntervalPasses => IInv'
<1> SUFFICES ASSUME IInv, IntervalPasses PROVE IInv'
  OBVIOUS
<1> USE DEF env, wake, history, bounds
<1>1. /\ obj' \in Object /\ obj'.req = obj.req /\ obj'.obs = obj.obs
      /\ obj'.ready = obj.ready /\ obj'.of = obj.of
  BY DEF IInv, TypeOK, Object, IntervalPasses
<1>2. cache' \in Object /\ cache'.req = cache.req /\ (fresh => cache' = obj')
  BY DEF IInv, TypeOK, Synced, Object, IntervalPasses
<1>3. TypeOK' /\ Synced' /\ Honest' /\ Querying'
  BY <1>1, <1>2 DEF IInv, TypeOK, Synced, Honest, Querying, IntervalPasses
<1>4. Snapshot' /\ NothingForgotten'
  BY <1>1 DEF IInv, Snapshot, NothingForgotten, IntervalPasses
<1>5. Budget'
  BY <1>1 DEF IInv, Budget, Charged, IntervalPasses
<1> QED
  BY <1>3, <1>4, <1>5 DEF IInv

(* A restart loses the reconcile and the timers, and lists all objects. *)
LEMMA RestartStep == IInv /\ Restart => IInv'
<1> SUFFICES ASSUME IInv, Restart PROVE IInv'
  OBVIOUS
<1> USE DEF env
<1>1. /\ wk' \in Worker /\ wk'.pc = "idle" /\ wk'.req = 0
  BY IdleFields DEF Restart
<1>2. faults' \in 0..MaxFaults /\ runs < obj.req + (MaxFaults - faults')
  BY Spends DEF Restart
<1>3. TypeOK'
  BY <1>1, <1>2 DEF IInv, TypeOK, Restart
<1>6. Synced' /\ Honest'
  BY <1>1, BoundsAssumption DEF IInv, TypeOK, Object, Synced, Honest, Restart
<1>4. Snapshot' /\ Querying' /\ NothingForgotten'
  BY <1>1 DEF Snapshot, Querying, NothingForgotten, Restart
<1>5. Budget'
  BY <1>2, BoundsAssumption DEF IInv, TypeOK, Object, Budget, Restart
<1> QED
  BY <1>3, <1>6, <1>4, <1>5 DEF IInv

(* What happens in the PCE leaves the object and the worker alone. *)
LEMMA PCEStep == IInv /\ (QueryCompletes \/ Change) => IInv'
<1> SUFFICES ASSUME IInv, QueryCompletes \/ Change PROVE IInv'
  OBVIOUS
<1> USE DEF env, wake, informer, history, Internal
<1>1. /\ UNCHANGED <<kind, obj, cache, fresh, queued, timer, wk, runs, lost, faults>>
  BY DEF QueryCompletes, Change
<1>2. TypeOK' /\ truth' + changes' <= MaxChanges + 1
  <2>1. CASE QueryCompletes
    BY <1>1, <2>1 DEF IInv, TypeOK, Synced, QueryCompletes
  <2>2. CASE Change
    BY <1>1, <2>2, BoundsAssumption DEF IInv, TypeOK, Versions, Synced, Change
  <2> QED
    BY <2>1, <2>2
<1>3. Synced' /\ Honest' /\ Querying' /\ Snapshot' /\ NothingForgotten'
  BY <1>1, <1>2 DEF IInv, Synced, Honest, Querying, Snapshot, NothingForgotten
<1>4. Budget'
  BY <1>1 DEF IInv, Budget, Charged
<1> QED
  BY <1>2, <1>3, <1>4 DEF IInv

-----------------------------------------------------------------------------
(* Theorems *)

(* The invariant is inductive. *)
THEOREM Invariant == Spec => []IInv
<1>1. IInv /\ [Next]_vars => IInv'
  <2> SUFFICES ASSUME IInv, [Next]_vars PROVE IInv'
    OBVIOUS
  <2>1. CASE Reconcile
    BY <2>1, BeginStep, ResolveStep, FindLabelsStep, CreateQueryStep, PollQueryStep, DownloadStep,
       SearchRulesStep, WriteStatusStep DEF Reconcile
  <2>2. CASE TimerFire \/ CacheSync \/ IntervalPasses \/ Request \/ Touch \/ Restart
             \/ QueryCompletes \/ Change
    BY <2>2, TimerFireStep, CacheSyncStep, IntervalPassesStep, RequestStep, TouchStep, RestartStep,
       PCEStep
  <2>3. CASE UNCHANGED vars
    <3>1. UNCHANGED <<kind, obj, cache, fresh, queued, timer, wk, world, truth, job, runs, lost,
                      faults, changes>>
      BY <2>3 DEF vars, informer, wake, env, history, bounds
    <3>2. TypeOK' /\ Budget'
      BY <3>1 DEF IInv, TypeOK, Budget, Charged
    <3>3. Synced' /\ Honest' /\ Querying' /\ Snapshot' /\ NothingForgotten'
      BY <3>1 DEF IInv, Synced, Honest, Querying, Snapshot, NothingForgotten
    <3> QED
      BY <3>2, <3>3 DEF IInv
  <2> QED
    BY <2>1, <2>2, <2>3 DEF Next
<1> QED
  BY InitInvariant, <1>1, PTL DEF Spec

(* Every variable keeps its type, whatever the bounds. *)
THEOREM TypeCorrect == Spec => []TypeOK
<1>1. IInv => TypeOK
  BY DEF IInv
<1> QED
  BY Invariant, <1>1, PTL

(* A report that says Ready holds the content of the request it names, however *)
(* requests, snapshots and status writes interleave: the controllers record    *)
(* content and request in one write, at the resourceVersion they read.         *)
THEOREM OfRequest == Spec => []ReportIsOfRequest
<1>1. IInv => ReportIsOfRequest
  BY DEF IInv, Honest, ReportIsOfRequest
<1> QED
  BY Invariant, <1>1, PTL

(* The PCE is queried once for every request, and again only for a fault or a  *)
(* foreign edit that cost an answer: no status write or timer brings a query.  *)
THEOREM Bounded == Spec => []QueriesAreBounded
<1>1. IInv => QueriesAreBounded
  BY DEF IInv, Budget, QueriesAreBounded
<1> QED
  BY Invariant, <1>1, PTL

(* A controller that rests on the latest object has answered its request, or   *)
(* has dropped the answer on purpose, and a RuleView's next look is scheduled. *)
THEOREM Answers == Spec => []NothingForgotten
<1>1. IInv => NothingForgotten
  BY DEF IInv
<1> QED
  BY Invariant, <1>1, PTL

-----------------------------------------------------------------------------
(* Loops and sorts *)

(* A set of numbers that is not empty has a least one. *)
LEMMA Least ==
  ASSUME NEW S \in SUBSET Nat, S # {}
  PROVE  \E n \in S : \A m \in S : n <= m
<1> DEFINE R == OpToRel(<, Nat)
<1>1. IsWellFoundedOn(R, Nat)
  BY NatLessThanWellFounded
<1>2. \A x, y \in Nat : <<x, y>> \in R <=> x < y
  BY DEF OpToRel
<1> HIDE DEF R
<1>3. PICK n \in S : \A m \in S : ~ (<<m, n>> \in R)
  BY <1>1, WFMin
<1>4. n \in Nat /\ \A m \in S : m \in Nat /\ ~ (m < n)
  BY <1>2, <1>3
<1>5. \A m \in S : n <= m
  BY <1>4
<1> QED
  BY <1>5

(* acc is what a loop of n rounds goes through. *)
Goes(acc, n, base, round) ==
  acc[0] = base /\ \A i \in 1..n : acc[i] = round[<<acc[i - 1], i>>]

(* A loop goes through something, and stays in the type of its accumulator. *)
LEMMA RoundsExist ==
  ASSUME NEW T, NEW n \in Nat, NEW base \in T, NEW round \in [T \X (1..n) -> T]
  PROVE  \E acc \in [0..n -> T] : Goes(acc, n, base, round)
<1> DEFINE Has(m) == \E acc \in [0..m -> T] : Goes(acc, m, base, round)
           Bad == {m \in 0..n : ~ Has(m)}
<1>1. SUFFICES ASSUME Bad # {} PROVE FALSE
  OBVIOUS
<1>2. PICK m \in Bad : \A j \in Bad : m <= j
  BY <1>1, Least, Bad \in SUBSET Nat
<1>3. Has(0)
  <2> DEFINE acc == [i \in 0..0 |-> base]
  <2>1. acc \in [0..0 -> T] /\ acc[0] = base /\ 1..0 = {}
    OBVIOUS
  <2> HIDE DEF acc
  <2>2. Goes(acc, 0, base, round)
    BY <2>1 DEF Goes
  <2> QED BY <2>1, <2>2
<1>4. m \in 1..n /\ m - 1 \in 0..n /\ ~ (m <= m - 1)
  <2>1. m # 0 /\ m \in 0..n
    BY <1>2, <1>3
  <2> QED BY <2>1
<1>5. Has(m - 1)
  BY <1>2, <1>4
<1>6. PICK a \in [0..(m - 1) -> T] : Goes(a, m - 1, base, round)
  BY <1>5
<1>7. a[0] = base /\ \A i \in 1..(m - 1) : a[i] = round[<<a[i - 1], i>>]
  BY <1>6 DEF Goes
<1> DEFINE b == [i \in 0..m |-> IF i = m THEN round[<<a[m - 1], m>>] ELSE a[i]]
<1>8. a[m - 1] \in T
  BY <1>4, <1>6
<1>9. round[<<a[m - 1], m>>] \in T
  BY <1>4, <1>8
<1>10. \A i \in 0..m : i # m => i \in 0..(m - 1)
  BY <1>4
<1>11. b \in [0..m -> T]
  BY <1>6, <1>9, <1>10
<1>12. /\ \A i \in 0..(m - 1) : b[i] = a[i]
       /\ b[m] = round[<<a[m - 1], m>>]
  BY <1>4
<1> HIDE DEF b
<1>13. b[0] = base
  BY <1>4, <1>7, <1>12
<1>14. ASSUME NEW i \in 1..m PROVE b[i] = round[<<b[i - 1], i>>]
  <2>1. i - 1 \in 0..(m - 1) /\ b[i - 1] = a[i - 1]
    BY <1>4, <1>12
  <2>2. CASE i = m
    BY <1>12, <2>1, <2>2
  <2>3. CASE i # m
    <3>1. i \in 1..(m - 1) /\ i \in 0..(m - 1)
      BY <1>4, <2>3
    <3> QED BY <1>7, <1>12, <2>1, <3>1
  <2> QED BY <2>2, <2>3
<1>15. Goes(b, m, base, round)
  BY <1>13, <1>14 DEF Goes
<1>16. Has(m)
  BY <1>11, <1>15
<1> QED
  BY <1>2, <1>16

(* v and w agree after a round if they did before it. *)
Alike(v, w, n) == \A i \in 1..n : v[i - 1] = w[i - 1] => v[i] = w[i]

(* Two runs of a loop go through the same. *)
LEMMA RoundsAgree ==
  ASSUME NEW n \in Nat, NEW v, NEW w, v[0] = w[0], Alike(v, w, n)
  PROVE  \A i \in 0..n : v[i] = w[i]
<1> DEFINE Bad == {i \in 0..n : v[i] # w[i]}
<1>1. SUFFICES ASSUME Bad # {} PROVE FALSE
  OBVIOUS
<1>2. PICK i \in Bad : \A j \in Bad : i <= j
  BY <1>1, Least, Bad \in SUBSET Nat
<1>3. i # 0
  BY <1>2
<1>4. i \in 1..n /\ i - 1 \in 0..n /\ ~ (i <= i - 1)
  BY <1>2, <1>3
<1>5. v[i - 1] = w[i - 1]
  BY <1>2, <1>4
<1>6. v[i] = w[i]
  BY <1>4, <1>5 DEF Alike
<1> QED
  BY <1>2, <1>6

(* An order that slices.SortFunc can sort by. *)
Sortable(n, less) ==
  /\ \A i, j \in 1..n : <<i, j>> \in less => <<j, i>> \notin less
  /\ \A i, j, k \in 1..n : <<i, j>> \notin less /\ <<j, k>> \notin less => <<i, k>> \notin less

(* p is one of the orders of n entries. *)
Permutes(p, n) ==
  /\ p \in [1..n -> 1..n]
  /\ \A i, j \in 1..n : p[i] = p[j] => i = j
  /\ \A k \in 1..n : \E i \in 1..n : p[i] = k

(* The entries so far, in order. *)
InOrder(p, n, less) ==
  Permutes(p, n) /\ \A i, j \in 1..n : i < j => <<p[j], p[i]>> \notin less

(* One entry more finds its place. *)
LEMMA Inserted ==
  ASSUME NEW n \in Nat, NEW less, Sortable(n, less), NEW m \in 1..n,
         NEW p, InOrder(p, m - 1, less)
  PROVE  \E q : InOrder(q, m, less)
<1>1. /\ \A i \in 1..(m - 1) : p[i] \in 1..(m - 1)
      /\ \A i, j \in 1..(m - 1) : p[i] = p[j] => i = j
      /\ \A k \in 1..(m - 1) : \E i \in 1..(m - 1) : p[i] = k
      /\ \A i, j \in 1..(m - 1) : i < j => <<p[j], p[i]>> \notin less
  BY DEF InOrder, Permutes
<1> DEFINE Places == {k \in 1..m : k = m \/ <<m, p[k]>> \in less}
<1>2. PICK k \in Places : \A l \in Places : k <= l
  <2>1. Places \in SUBSET Nat /\ m \in Places
    OBVIOUS
  <2> HIDE DEF Places
  <2> QED BY <2>1, Least
<1>3. /\ k \in 1..m /\ (k # m => <<m, p[k]>> \in less)
      /\ \A i \in 1..m : i < k => <<m, p[i]>> \notin less
  BY <1>2
<1> HIDE DEF Places
<1> DEFINE q == [i \in 1..m |-> IF i < k THEN p[i] ELSE IF i = k THEN m ELSE p[i - 1]]
<1>4. /\ \A i \in 1..m : i < k => i \in 1..(m - 1) /\ q[i] = p[i]
      /\ q[k] = m
      /\ \A i \in 1..m : k < i => i - 1 \in 1..(m - 1) /\ k <= i - 1 /\ q[i] = p[i - 1]
  BY <1>3
<1>5. \A i \in 1..m : i < k \/ i = k \/ k < i
  BY <1>3
<1>6. q \in [1..m -> 1..m]
  <2>1. \A i \in 1..m : q[i] \in 1..m
    BY <1>1, <1>3, <1>4, <1>5
  <2> QED BY <2>1
<1> HIDE DEF q
<1>7. ASSUME NEW i \in 1..m, NEW j \in 1..m, q[i] = q[j] PROVE i = j
  <2>1. CASE i = k
    BY <1>1, <1>3, <1>4, <1>5, <1>7, <2>1
  <2>2. CASE j = k
    BY <1>1, <1>3, <1>4, <1>5, <1>7, <2>2
  <2>3. CASE i < k /\ j < k
    BY <1>1, <1>4, <1>7, <2>3
  <2>4. CASE k < i /\ k < j
    <3>1. p[i - 1] = p[j - 1] /\ i - 1 \in 1..(m - 1) /\ j - 1 \in 1..(m - 1)
      BY <1>4, <1>7, <2>4
    <3> QED BY <1>1, <3>1
  <2>5. CASE i < k /\ k < j
    <3>1. p[i] = p[j - 1] /\ i \in 1..(m - 1) /\ j - 1 \in 1..(m - 1) /\ k <= j - 1
      BY <1>4, <1>7, <2>5
    <3>2. i = j - 1
      BY <1>1, <3>1
    <3> QED BY <1>3, <2>5, <3>1, <3>2
  <2>6. CASE k < i /\ j < k
    <3>1. p[j] = p[i - 1] /\ j \in 1..(m - 1) /\ i - 1 \in 1..(m - 1) /\ k <= i - 1
      BY <1>4, <1>7, <2>6
    <3>2. j = i - 1
      BY <1>1, <3>1
    <3> QED BY <1>3, <2>6, <3>1, <3>2
  <2> QED BY <1>5, <2>1, <2>2, <2>3, <2>4, <2>5, <2>6
<1>8. ASSUME NEW l \in 1..m PROVE \E i \in 1..m : q[i] = l
  <2>1. CASE l = m
    BY <1>3, <1>4, <2>1
  <2>2. CASE l # m
    <3>1. PICK i \in 1..(m - 1) : p[i] = l
      BY <1>1, <2>2
    <3>2. CASE i < k
      BY <1>4, <3>1, <3>2
    <3>3. CASE ~ (i < k)
      <4>1. i + 1 \in 1..m /\ k < i + 1 /\ (i + 1) - 1 = i
        BY <1>3, <3>3
      <4> QED BY <1>4, <3>1, <4>1
    <3> QED BY <3>2, <3>3
  <2> QED BY <2>1, <2>2
<1>9. ASSUME NEW i \in 1..m, NEW j \in 1..m, i < j PROVE <<q[j], q[i]>> \notin less
  <2>1. CASE j < k
    <3>1. i < k /\ i \in 1..(m - 1) /\ j \in 1..(m - 1)
      BY <1>3, <1>9, <2>1
    <3> QED BY <1>1, <1>4, <1>9, <2>1, <3>1
  <2>2. CASE j = k
    BY <1>3, <1>4, <1>9, <2>2
  <2>3. CASE i < k /\ k < j
    <3>1. i < j - 1 /\ i \in 1..(m - 1) /\ j - 1 \in 1..(m - 1)
      BY <1>3, <1>4, <2>3
    <3> QED BY <1>1, <1>4, <2>3, <3>1
  <2>4. CASE k < i
    <3>1. k < j /\ i - 1 < j - 1 /\ i - 1 \in 1..(m - 1) /\ j - 1 \in 1..(m - 1)
      BY <1>3, <1>4, <1>9, <2>4
    <3> QED BY <1>1, <1>4, <2>4, <3>1
  <2>5. CASE i = k
    <3>1. k < j /\ k # m /\ j - 1 \in 1..(m - 1) /\ k \in 1..(m - 1) /\ k <= j - 1
      BY <1>3, <1>4, <1>9, <2>5
    <3>2. <<m, p[k]>> \in less /\ q[j] = p[j - 1] /\ q[i] = m
      BY <1>3, <1>4, <2>5, <3>1
    <3>3. m \in 1..n /\ p[k] \in 1..n /\ p[j - 1] \in 1..n
      <4>1. p[k] \in 1..(m - 1) /\ p[j - 1] \in 1..(m - 1)
        BY <1>1, <3>1
      <4> QED BY <4>1
    <3>4. <<p[k], m>> \notin less
      BY <3>2, <3>3 DEF Sortable
    <3>5. CASE k = j - 1
      BY <3>2, <3>4, <3>5
    <3>6. CASE k < j - 1
      <4>1. <<p[j - 1], p[k]>> \notin less
        BY <1>1, <3>1, <3>6
      <4>2. <<m, p[j - 1]>> \in less
        BY <3>2, <3>3, <4>1 DEF Sortable
      <4> QED BY <3>2, <3>3, <4>2 DEF Sortable
    <3> QED BY <3>1, <3>5, <3>6
  <2> QED BY <1>5, <1>9, <2>1, <2>2, <2>3, <2>4, <2>5
<1>10. InOrder(q, m, less)
  BY <1>6, <1>7, <1>8, <1>9 DEF InOrder, Permutes
<1> QED
  BY <1>10

(* A list can be sorted, and Arrangement does. *)
LEMMA Arranged ==
  ASSUME NEW n \in Nat, NEW less, Sortable(n, less)
  PROVE  /\ Permutes(Arrangement(n, less), n)
         /\ \A i, j \in 1..n :
              i < j => <<Arrangement(n, less)[j], Arrangement(n, less)[i]>> \notin less
<1> DEFINE Has(m) == \E p : InOrder(p, m, less)
           Bad == {m \in 0..n : ~ Has(m)}
<1>1. Bad = {}
  <2> SUFFICES ASSUME Bad # {} PROVE FALSE
    OBVIOUS
  <2>1. PICK m \in Bad : \A j \in Bad : m <= j
    BY Least, Bad \in SUBSET Nat
  <2>2. Has(0)
    <3> DEFINE p == [i \in 1..0 |-> i]
    <3>1. p \in [1..0 -> 1..0] /\ 1..0 = {}
      OBVIOUS
    <3> HIDE DEF p
    <3>2. InOrder(p, 0, less)
      BY <3>1 DEF InOrder, Permutes
    <3> QED BY <3>2
  <2>3. m \in 1..n /\ m - 1 \in 0..n /\ ~ (m <= m - 1)
    <3>1. m # 0 /\ m \in 0..n
      BY <2>1, <2>2
    <3> QED BY <3>1
  <2>4. PICK p : InOrder(p, m - 1, less)
    BY <2>1, <2>3
  <2>5. Has(m)
    BY <2>3, <2>4, Inserted
  <2> QED BY <2>1, <2>5
<1>2. PICK p : InOrder(p, n, less)
  BY <1>1
<1>3. /\ p \in [1..n -> 1..n]
      /\ \A i, j \in 1..n : p[i] = p[j] => i = j
      /\ \A k \in 1..n : \E i \in 1..n : p[i] = k
      /\ \A i, j \in 1..n : i < j => <<p[j], p[i]>> \notin less
  BY <1>2 DEF InOrder, Permutes
<1>4. p \in Bijection(1..n, 1..n)
  BY <1>3, Fun_IsBij
<1>5. /\ Arrangement(n, less) \in Bijection(1..n, 1..n)
      /\ \A i, j \in 1..n :
           i < j => <<Arrangement(n, less)[j], Arrangement(n, less)[i]>> \notin less
  BY <1>3, <1>4 DEF Arrangement
<1>6. Permutes(Arrangement(n, less), n)
  BY <1>5 DEF Bijection, Injection, Surjection, IsInjective, Permutes
<1> QED
  BY <1>5, <1>6

(* The order of the rules: those of the operator first, then by name. *)
LEMMA OrderIs ==
  ASSUME NEW a, NEW b, NEW eds
  PROVE  Order(a, b, eds) <=>
           \/ Owned(a, eds) /\ ~ Owned(b, eds)
           \/ (Owned(a, eds) <=> Owned(b, eds)) /\ a.name < b.name
<1>1. Owned(a, eds) \in BOOLEAN /\ Owned(b, eds) \in BOOLEAN
  BY DEF Owned
<1> QED
  BY <1>1 DEF Order

(* A capped list is the start of the list. *)
LEMMA CappedIs ==
  ASSUME NEW S, NEW s \in Seq(S), NEW n \in Nat
  PROVE  /\ Capped(s, n) \in Seq(S)
         /\ Len(Capped(s, n)) = IF Len(s) <= n THEN Len(s) ELSE n
         /\ \A i \in 1..Len(Capped(s, n)) : Capped(s, n)[i] = s[i]
         /\ Len(s) <= n => Capped(s, n) = s
<1>1. Len(s) \in Nat /\ \A i \in 1..Len(s) : s[i] \in S
  BY LenProperties, ElementOfSeq
<1>2. CASE Len(s) <= n
  BY <1>2 DEF Capped
<1>3. CASE ~ (Len(s) <= n)
  <2>1. Capped(s, n) = SubSeq(s, 1, n)
    BY <1>3 DEF Capped
  <2>2. \A i \in 1..n : s[i] \in S
    BY <1>1, <1>3
  <2>3. /\ SubSeq(s, 1, n) \in Seq(S) /\ Len(SubSeq(s, 1, n)) = n
        /\ \A i \in 1..n : SubSeq(s, 1, n)[i] = s[i]
    BY <2>2, SubSeqProperties
  <2> QED BY <1>3, <2>1, <2>3
<1> QED BY <1>2, <1>3

(* A function on the first numbers is a list. *)
LEMMA FunctionIsSeq ==
  ASSUME NEW n \in Nat, NEW S, NEW f \in [1..n -> S]
  PROVE  f \in Seq(S) /\ Len(f) = n
OBVIOUS

(* The sorted rules are the rules found, in the order of Order. *)
LEMMA RulesSorted ==
  ASSUME NEW found \in Seq(FoundRule), NEW eds
  PROVE  \E p : /\ Permutes(p, Len(found))
                /\ Sorted(found, LAMBDA a, b : Order(a, b, eds))
                     = [i \in 1..Len(found) |-> found[p[i]]]
                /\ \A i, j \in 1..Len(found) : i < j => ~ Order(found[p[j]], found[p[i]], eds)
<1> DEFINE n == Len(found)
           less == {x \in (1..n) \X (1..n) : Order(found[x[1]], found[x[2]], eds)}
           p == Arrangement(n, less)
<1>1. n \in Nat /\ \A i \in 1..n : found[i].name \in Nat
  <2>1. n \in Nat
    BY LenProperties
  <2>2. \A i \in 1..n : found[i] \in FoundRule
    BY ElementOfSeq
  <2> QED BY <2>1, <2>2 DEF FoundRule
<1>2. \A i, j \in 1..n : <<i, j>> \in less <=> Order(found[i], found[j], eds)
  OBVIOUS
<1>3. Sorted(found, LAMBDA a, b : Order(a, b, eds)) = [i \in 1..n |-> found[p[i]]]
  BY DEF Sorted
<1> HIDE DEF less, n
<1>4. \A i, j \in 1..n : <<i, j>> \in less <=>
        \/ Owned(found[i], eds) /\ ~ Owned(found[j], eds)
        \/ (Owned(found[i], eds) <=> Owned(found[j], eds)) /\ found[i].name < found[j].name
  BY <1>2, OrderIs
<1>5. Sortable(n, less)
  <2>1. \A i, j \in 1..n : <<i, j>> \in less => <<j, i>> \notin less
    BY <1>1, <1>4
  <2>2. ASSUME NEW i \in 1..n, NEW j \in 1..n, NEW k \in 1..n,
               <<i, j>> \notin less, <<j, k>> \notin less
        PROVE  <<i, k>> \notin less
    <3>1. /\ found[i].name \in Nat /\ found[j].name \in Nat /\ found[k].name \in Nat
      BY <1>1
    <3> DEFINE a == Owned(found[i], eds)
               b == Owned(found[j], eds)
               c == Owned(found[k], eds)
    <3>2. ~ (\/ a /\ ~ b
             \/ (a <=> b) /\ found[i].name < found[j].name)
      BY <1>4, <2>2
    <3>3. ~ (\/ b /\ ~ c
             \/ (b <=> c) /\ found[j].name < found[k].name)
      BY <1>4, <2>2
    <3>4. <<i, k>> \in less <=> \/ a /\ ~ c
                                \/ (a <=> c) /\ found[i].name < found[k].name
      BY <1>4
    <3>5. a \in BOOLEAN /\ b \in BOOLEAN /\ c \in BOOLEAN
      BY DEF Owned
    <3> HIDE DEF a, b, c
    <3> QED BY <3>1, <3>2, <3>3, <3>4, <3>5
  <2> QED BY <2>1, <2>2 DEF Sortable
<1>6. Permutes(p, n) /\ \A i, j \in 1..n : i < j => <<p[j], p[i]>> \notin less
  BY <1>1, <1>5, Arranged
<1> HIDE DEF p
<1>7. \A i, j \in 1..n : i < j => ~ Order(found[p[j]], found[p[i]], eds)
  BY <1>2, <1>6 DEF Permutes
<1> QED
  BY <1>3, <1>6, <1>7 DEF n

(* Of the rules found and those of the operator among them, the rest counts as *)
(* everybody else's.                                                           *)
LEMMA RulesCounted ==
  ASSUME NEW found \in Seq(FoundRule), NEW eds
  PROVE  /\ IsFiniteSet(OwnedOf(found, eds)) /\ Len(found) \in Nat
         /\ Cardinality(OwnedOf(found, eds)) \in Nat
         /\ Cardinality(DOMAIN found \ OwnedOf(found, eds)) \in Nat
         /\ Cardinality(OwnedOf(found, eds)) + Cardinality(DOMAIN found \ OwnedOf(found, eds))
              = Len(found)
<1>1. Len(found) \in Nat /\ DOMAIN found = 1..Len(found)
  BY LenProperties
<1>2. IsFiniteSet(DOMAIN found) /\ Cardinality(DOMAIN found) = Len(found)
  BY <1>1, FS_Interval
<1>3. OwnedOf(found, eds) \in SUBSET DOMAIN found
  BY DEF OwnedOf
<1>4. IsFiniteSet(OwnedOf(found, eds)) /\ DOMAIN found \cap OwnedOf(found, eds) = OwnedOf(found, eds)
  BY <1>2, <1>3, FS_Subset
<1>5. /\ IsFiniteSet(DOMAIN found \ OwnedOf(found, eds))
      /\ Cardinality(DOMAIN found \ OwnedOf(found, eds))
           = Len(found) - Cardinality(OwnedOf(found, eds))
  BY <1>2, <1>4, FS_Difference
<1>6. Cardinality(OwnedOf(found, eds)) \in Nat
      /\ Cardinality(DOMAIN found \ OwnedOf(found, eds)) \in Nat
  BY <1>4, <1>5, FS_CardinalityType
<1> QED
  BY <1>1, <1>4, <1>5, <1>6

(* Where somebody else's rule is listed, the operator's are, before it. *)
LEMMA OwnListedFirst ==
  ASSUME NEW found \in Seq(FoundRule), NEW eds, NEW n \in Nat
  PROVE  LET list == Capped(Sorted(found, LAMBDA a, b : Order(a, b, eds)), n) IN
         /\ list \in Seq(FoundRule)
         /\ Len(list) = IF Len(found) <= n THEN Len(found) ELSE n
         /\ \A i \in DOMAIN list \ OwnedOf(list, eds) :
              /\ \A j \in OwnedOf(list, eds) : j < i
              /\ Cardinality(OwnedOf(list, eds)) = Cardinality(OwnedOf(found, eds))
<1> DEFINE all == Sorted(found, LAMBDA a, b : Order(a, b, eds))
           list == Capped(all, n)
<1>1. PICK m \in Nat : m = Len(found)
  BY LenProperties
<1>2. PICK p : /\ Permutes(p, m) /\ all = [i \in 1..m |-> found[p[i]]]
               /\ \A i, j \in 1..m : i < j => ~ Order(found[p[j]], found[p[i]], eds)
  BY <1>1, RulesSorted
<1>3. DOMAIN found = 1..m /\ \A i \in 1..m : found[i] \in FoundRule
  BY <1>1, LenProperties, ElementOfSeq
<1> HIDE DEF all
<1>4. \A i \in 1..m : p[i] \in 1..m /\ all[i] = found[p[i]]
  BY <1>2 DEF Permutes
<1>5. all \in Seq(FoundRule) /\ Len(all) = m
  <2>1. all \in [1..m -> FoundRule]
    BY <1>2, <1>3, <1>4
  <2> QED BY <1>1, <2>1, FunctionIsSeq
<1>6. /\ list \in Seq(FoundRule) /\ Len(list) = IF m <= n THEN m ELSE n
      /\ \A i \in 1..Len(list) : list[i] = all[i]
  BY <1>5, CappedIs
<1> HIDE DEF list
<1>7. DOMAIN list = 1..Len(list) /\ DOMAIN all = 1..m /\ \A i \in 1..Len(list) : i \in 1..m
  BY <1>1, <1>5, <1>6, LenProperties
<1>8. ASSUME NEW i \in 1..m, NEW j \in 1..m, ~ Owned(all[i], eds), Owned(all[j], eds)
      PROVE  j < i
  <2>1. SUFFICES ASSUME i < j PROVE FALSE
    BY <1>1, <1>8
  <2>2. ~ Order(all[j], all[i], eds)
    BY <1>2, <1>4, <2>1
  <2> QED BY <1>8, <2>2, OrderIs
<1>9. OwnedOf(list, eds) = {i \in 1..Len(list) : Owned(all[i], eds)}
  BY <1>6, <1>7 DEF OwnedOf
<1>10. Cardinality(OwnedOf(all, eds)) = Cardinality(OwnedOf(found, eds))
  <2> DEFINE h == [i \in OwnedOf(all, eds) |-> p[i]]
  <2>1. \A i \in OwnedOf(all, eds) : i \in 1..m /\ p[i] \in OwnedOf(found, eds)
    BY <1>3, <1>4, <1>7 DEF OwnedOf
  <2>2. \A k \in OwnedOf(found, eds) : \E i \in OwnedOf(all, eds) : p[i] = k
    BY <1>2, <1>3, <1>4, <1>7 DEF OwnedOf, Permutes
  <2>3. \A i, j \in OwnedOf(all, eds) : p[i] = p[j] => i = j
    BY <1>2, <2>1 DEF Permutes
  <2>4. h \in Bijection(OwnedOf(all, eds), OwnedOf(found, eds))
    <3>1. /\ h \in [OwnedOf(all, eds) -> OwnedOf(found, eds)]
          /\ \A i, j \in OwnedOf(all, eds) : h[i] = h[j] => i = j
          /\ \A k \in OwnedOf(found, eds) : \E i \in OwnedOf(all, eds) : h[i] = k
      BY <2>1, <2>2, <2>3
    <3> HIDE DEF h
    <3> QED BY <3>1, Fun_IsBij
  <2>5. ExistsBijection(OwnedOf(all, eds), OwnedOf(found, eds))
    BY <2>4 DEF ExistsBijection
  <2>6. IsFiniteSet(OwnedOf(all, eds))
    BY <1>5, RulesCounted
  <2> QED BY <2>5, <2>6, FS_Bijection
<1>11. ASSUME NEW i \in DOMAIN list \ OwnedOf(list, eds)
       PROVE  /\ \A j \in OwnedOf(list, eds) : j < i
              /\ Cardinality(OwnedOf(list, eds)) = Cardinality(OwnedOf(found, eds))
  <2>1. i \in 1..Len(list) /\ i \in 1..m /\ ~ Owned(all[i], eds)
    BY <1>7, <1>9
  <2>2. ASSUME NEW j \in 1..m, Owned(all[j], eds) PROVE j < i /\ j \in 1..Len(list)
    <3>1. j < i
      BY <1>8, <2>1, <2>2
    <3>2. Len(list) \in Nat
      BY <1>1, <1>6
    <3> QED BY <2>1, <3>1, <3>2
  <2>3. OwnedOf(all, eds) = {j \in 1..m : Owned(all[j], eds)}
    BY <1>7 DEF OwnedOf
  <2>4. OwnedOf(list, eds) = OwnedOf(all, eds)
    BY <1>7, <1>9, <2>2, <2>3
  <2> QED BY <1>7, <1>9, <1>10, <2>2, <2>4
<1> QED
  BY <1>1, <1>6, <1>11 DEF list, all

(* The rule list tells what was found, whatever was. *)
LEMMA RuleListTells ==
  ASSUME NEW found \in Seq(FoundRule), NEW eds \in {"none", "ours"}, NEW n \in Nat
  PROVE  RuleViewTells(found, eds, n)
<1> DEFINE list == Capped(Sorted(found, LAMBDA a, b : Order(a, b, eds)), n)
           r == MapRules(found, eds, n)
           ours == OwnedOf(list, eds)
<1>1. /\ list \in Seq(FoundRule)
      /\ Len(list) = IF Len(found) <= n THEN Len(found) ELSE n
      /\ \A i \in DOMAIN list \ ours :
           /\ \A j \in ours : j < i
           /\ Cardinality(ours) = Cardinality(OwnedOf(found, eds))
  BY OwnListedFirst
<1>2. Len(found) \in Nat
  BY LenProperties
<1>3. /\ r.list = list /\ r.owned = Cardinality(OwnedOf(found, eds))
      /\ r.external = Cardinality(DOMAIN found \ OwnedOf(found, eds))
      /\ r.truncated = (Len(found) > n)
  BY DEF MapRules
<1>4. OwnedOf(found, eds) = {i \in DOMAIN found : eds = "ours" /\ found[i].eds = "ours"}
  BY DEF OwnedOf, Owned
<1>5. r.owned + r.external = Len(found)
  BY <1>3, RulesCounted
<1> HIDE DEF list, r
<1>6. (Len(found) > n) <=> (Len(list) < Len(found))
  BY <1>1, <1>2
<1>7. r.truncated = (Len(list) < Len(found))
  <2>1. (Len(found) > n) \in BOOLEAN /\ (Len(list) < Len(found)) \in BOOLEAN
    BY <1>1, <1>2
  <2> QED BY <1>3, <1>6, <2>1
<1> QED
  BY <1>1, <1>3, <1>4, <1>5, <1>7 DEF RuleViewTells, r

-----------------------------------------------------------------------------
(* The loops over the flows *)

Key == Nat \X Nat
Finding == [key : Key, ip : DOMAIN IpKey, conns : Nat, decision : Decisions]

(* A flow that counts for the finding of a key. *)
Counts(f, side, k) == DraftBlocked(f.decision) /\ FindingKey(f, side) = k

(* The rounds of the loops of Weight, ClassifyFlows and Matching. *)
Sums(flows, side, k) ==
  Rounds(flows, 0, LAMBDA sum, f : IF DraftBlocked(f.decision) /\ FindingKey(f, side) = k
                                   THEN sum + f.conns ELSE sum)
Founds(flows, side) ==
  Rounds(flows, <<>>, LAMBDA acc, f : IF DraftBlocked(f.decision) THEN Noted(acc, f, side) ELSE acc)
Matches(traffic, side) ==
  Rounds(traffic, <<>>, LAMBDA acc, f : IF Near(f, side).labels = Own THEN Append(acc, f) ELSE acc)

(* The total of a key grows with every flow that counts for it. *)
LEMMA SumsGrow ==
  ASSUME NEW flows \in Seq(TrafficFlow), NEW side, NEW k
  PROVE  LET n == Len(flows)
             w == Sums(flows, side, k) IN
         /\ w \in [0..n -> Nat] /\ w[0] = 0
         /\ \A i \in 1..n : w[i] = IF Counts(flows[i], side, k)
                                   THEN w[i - 1] + flows[i].conns ELSE w[i - 1]
<1> DEFINE n == Len(flows)
           w == Sums(flows, side, k)
           Round(a, i) == IF Counts(flows[i], side, k) THEN a + flows[i].conns ELSE a
           round == [x \in Nat \X (1..n) |-> Round(x[1], x[2])]
<1>1. n \in Nat /\ 0 \in Nat
  BY LenProperties
<1>2. w = CHOOSE acc : acc = [i \in 0..n |-> IF i = 0 THEN 0 ELSE Round(acc[i - 1], i)]
  BY DEF Sums, Rounds, Counts
<1>3. ASSUME NEW a \in Nat, NEW i \in 1..n PROVE Round(a, i) \in Nat
  <2>1. flows[i] \in TrafficFlow
    BY ElementOfSeq
  <2>2. flows[i].conns \in Nat
    BY <2>1 DEF TrafficFlow
  <2> QED BY <2>2
<1> HIDE DEF n, w, Round
<1>4. round \in [Nat \X (1..n) -> Nat] /\ \A a \in Nat, i \in 1..n : round[<<a, i>>] = Round(a, i)
  BY <1>3
<1> HIDE DEF round
<1>5. PICK g \in [0..n -> Nat] : g[0] = 0 /\ \A i \in 1..n : g[i] = round[<<g[i - 1], i>>]
  <2>1. \E g \in [0..n -> Nat] : Goes(g, n, 0, round)
    BY <1>1, <1>4, RoundsExist, Zenon
  <2> QED BY <2>1 DEF Goes
<1>6. ASSUME NEW i \in 1..n PROVE g[i] = Round(g[i - 1], i)
  <2>1. g[i - 1] \in Nat
    BY <1>1, <1>5
  <2> QED BY <2>1, <1>4, <1>5
<1>7. g = [i \in 0..n |-> IF i = 0 THEN 0 ELSE Round(g[i - 1], i)]
  BY <1>1, <1>5, <1>6
<1>8. w = [i \in 0..n |-> IF i = 0 THEN 0 ELSE Round(w[i - 1], i)]
  BY <1>2, <1>7
<1>9. w[0] = 0 /\ \A i \in 1..n : w[i] = Round(w[i - 1], i)
  BY <1>1, <1>8
<1>10. \A i \in 0..n : w[i] = g[i]
  <2>1. n \in Nat /\ w[0] = g[0]
    BY <1>1, <1>5, <1>9
  <2>2. Alike(w, g, n)
    BY <1>6, <1>9 DEF Alike
  <2> QED BY <2>1, <2>2, RoundsAgree, Zenon
<1>11. w \in [0..n -> Nat]
  BY <1>5, <1>8, <1>10
<1> QED
  BY <1>9, <1>11 DEF n, w, Round

(* A flow has a key. *)
LEMMA KeyTyped ==
  ASSUME NEW f \in TrafficFlow, NEW side
  PROVE  FindingKey(f, side) \in Key /\ NewFinding(f, side) \in Finding
<1>1. /\ Peer(f, side) \in Ends /\ f.port \in Nat /\ f.conns \in Nat /\ f.decision \in Decisions
  BY DEF TrafficFlow, Peer
<1>2. /\ Peer(f, side).labels \in {0} \cup DOMAIN LabelsKey
      /\ Peer(f, side).ip \in DOMAIN IpKey
  BY <1>1 DEF Ends
<1>3. PeerKey(Peer(f, side)) \in Nat
  BY <1>2, KeyAssumption DEF PeerKey
<1>4. FindingKey(f, side) \in Key
  BY <1>1, <1>3 DEF FindingKey, Key
<1> QED
  BY <1>1, <1>2, <1>4 DEF NewFinding, Finding

(* A flow adds its connections to the finding of its key, or is a finding.     *)
LEMMA NotedTells ==
  ASSUME NEW acc \in Seq(Finding), NEW f \in TrafficFlow, NEW side
  PROVE  LET n == Len(acc)
             k == FindingKey(f, side)
             out == Noted(acc, f, side)
             seen == \E a \in 1..n : acc[a].key = k IN
         /\ out \in Seq(Finding)
         /\ seen => Len(out) = n
         /\ ~ seen => Len(out) = n + 1 /\ out[n + 1].key = k /\ out[n + 1].conns = f.conns
         /\ \A a \in 1..n :
              /\ out[a].key = acc[a].key
              /\ acc[a].key = k => out[a].conns = acc[a].conns + f.conns
              /\ acc[a].key # k => out[a].conns = acc[a].conns
<1> DEFINE n == Len(acc)
           k == FindingKey(f, side)
           out == Noted(acc, f, side)
           seen == \E a \in 1..n : acc[a].key = k
           e == NewFinding(f, side)
<1>1. n \in Nat /\ DOMAIN acc = 1..n
  BY LenProperties
<1>2. \A i \in 1..n : acc[i] \in Finding
  BY ElementOfSeq
<1>3. e \in Finding /\ e.key = k /\ e.conns = f.conns /\ f.conns \in Nat
  BY KeyTyped DEF NewFinding, TrafficFlow
<1> HIDE DEF n, k
<1>4. CASE seen
  <2> DEFINE G(i) == IF acc[i].key = k THEN [acc[i] EXCEPT !.conns = @ + f.conns] ELSE acc[i]
  <2>1. out = [i \in 1..n |-> G(i)]
    BY <1>1, <1>4 DEF Noted, k
  <2>2. ASSUME NEW i \in 1..n
        PROVE  /\ G(i) \in Finding /\ G(i).key = acc[i].key
               /\ acc[i].key = k => G(i).conns = acc[i].conns + f.conns
               /\ acc[i].key # k => G(i).conns = acc[i].conns
    BY <1>2, <1>3 DEF Finding
  <2> HIDE DEF G
  <2>3. out \in [1..n -> Finding]
    BY <2>1, <2>2
  <2>4. out \in Seq(Finding) /\ Len(out) = n
    BY <1>1, <2>3, FunctionIsSeq
  <2>5. \A i \in 1..n : out[i] = G(i)
    BY <2>1
  <2> HIDE DEF out
  <2> QED
    BY <1>4, <2>2, <2>4, <2>5 DEF out, n, k
<1>5. CASE ~ seen
  <2>1. out = Append(acc, e)
    BY <1>1, <1>5 DEF Noted, k
  <2> HIDE DEF e
  <2>2. /\ Append(acc, e) \in Seq(Finding) /\ Len(Append(acc, e)) = n + 1
        /\ \A i \in 1..n : Append(acc, e)[i] = acc[i]
        /\ Append(acc, e)[n + 1] = e
    BY <1>3, AppendProperties DEF n
  <2> HIDE DEF out
  <2> QED
    BY <1>3, <1>5, <2>1, <2>2 DEF out, n, k
<1> QED BY <1>4, <1>5 DEF n, k

(* The findings grow with every blocked flow. *)
LEMMA FoundsGrow ==
  ASSUME NEW flows \in Seq(TrafficFlow), NEW side
  PROVE  LET n == Len(flows)
             w == Founds(flows, side) IN
         /\ w \in [0..n -> Seq(Finding)] /\ w[0] = <<>>
         /\ \A i \in 1..n : w[i] = IF DraftBlocked(flows[i].decision)
                                   THEN Noted(w[i - 1], flows[i], side) ELSE w[i - 1]
<1> DEFINE n == Len(flows)
           w == Founds(flows, side)
           T == Seq(Finding)
           Round(a, i) == IF DraftBlocked(flows[i].decision) THEN Noted(a, flows[i], side) ELSE a
           round == [x \in T \X (1..n) |-> Round(x[1], x[2])]
<1>1. n \in Nat /\ <<>> \in T
  BY LenProperties, EmptySeq
<1>2. w = CHOOSE acc : acc = [i \in 0..n |-> IF i = 0 THEN <<>> ELSE Round(acc[i - 1], i)]
  BY DEF Founds, Rounds
<1>3. ASSUME NEW a \in T, NEW i \in 1..n PROVE Round(a, i) \in T
  <2>1. flows[i] \in TrafficFlow
    BY ElementOfSeq
  <2>2. Noted(a, flows[i], side) \in T
    BY <2>1, NotedTells
  <2> QED BY <2>2
<1> HIDE DEF n, w, T, Round
<1>4. round \in [T \X (1..n) -> T] /\ \A a \in T, i \in 1..n : round[<<a, i>>] = Round(a, i)
  BY <1>3
<1> HIDE DEF round
<1>5. PICK g \in [0..n -> T] : g[0] = <<>> /\ \A i \in 1..n : g[i] = round[<<g[i - 1], i>>]
  <2>1. \E g \in [0..n -> T] : Goes(g, n, <<>>, round)
    BY <1>1, <1>4, RoundsExist, Zenon
  <2> QED BY <2>1 DEF Goes
<1>6. ASSUME NEW i \in 1..n PROVE g[i] = Round(g[i - 1], i)
  <2>1. g[i - 1] \in T
    BY <1>1, <1>5
  <2> QED BY <2>1, <1>4, <1>5
<1>7. g = [i \in 0..n |-> IF i = 0 THEN <<>> ELSE Round(g[i - 1], i)]
  BY <1>1, <1>5, <1>6
<1>8. w = [i \in 0..n |-> IF i = 0 THEN <<>> ELSE Round(w[i - 1], i)]
  BY <1>2, <1>7
<1>9. w[0] = <<>> /\ \A i \in 1..n : w[i] = Round(w[i - 1], i)
  BY <1>1, <1>8
<1>10. \A i \in 0..n : w[i] = g[i]
  <2>1. n \in Nat /\ w[0] = g[0]
    BY <1>1, <1>5, <1>9
  <2>2. Alike(w, g, n)
    BY <1>6, <1>9 DEF Alike
  <2> QED BY <2>1, <2>2, RoundsAgree, Zenon
<1>11. w \in [0..n -> T]
  BY <1>5, <1>8, <1>10
<1> QED
  BY <1>9, <1>11 DEF n, w, T, Round

(* The flows that match are flows. *)
LEMMA MatchingTyped ==
  ASSUME NEW traffic \in Seq(TrafficFlow), NEW side
  PROVE  Matching(traffic, side) \in Seq(TrafficFlow)
<1> DEFINE n == Len(traffic)
           w == Matches(traffic, side)
           T == Seq(TrafficFlow)
           Round(a, i) == IF Near(traffic[i], side).labels = Own THEN Append(a, traffic[i]) ELSE a
           round == [x \in T \X (1..n) |-> Round(x[1], x[2])]
<1>1. n \in Nat /\ <<>> \in T
  BY LenProperties, EmptySeq
<1>2. w = CHOOSE acc : acc = [i \in 0..n |-> IF i = 0 THEN <<>> ELSE Round(acc[i - 1], i)]
  BY DEF Matches, Rounds
<1>3. ASSUME NEW a \in T, NEW i \in 1..n PROVE Round(a, i) \in T
  <2>1. traffic[i] \in TrafficFlow
    BY ElementOfSeq
  <2>2. Append(a, traffic[i]) \in T
    BY <2>1, AppendProperties
  <2> QED BY <2>2
<1>4. Matching(traffic, side) = w[n]
  BY DEF Matching, Loop, Matches
<1> HIDE DEF n, w, T, Round
<1>5. round \in [T \X (1..n) -> T] /\ \A a \in T, i \in 1..n : round[<<a, i>>] = Round(a, i)
  BY <1>3
<1> HIDE DEF round
<1>6. PICK g \in [0..n -> T] : g[0] = <<>> /\ \A i \in 1..n : g[i] = round[<<g[i - 1], i>>]
  <2>1. \E g \in [0..n -> T] : Goes(g, n, <<>>, round)
    BY <1>1, <1>5, RoundsExist, Zenon
  <2> QED BY <2>1 DEF Goes
<1>7. ASSUME NEW i \in 1..n PROVE g[i] = Round(g[i - 1], i)
  <2>1. g[i - 1] \in T
    BY <1>1, <1>6
  <2> QED BY <2>1, <1>5, <1>6
<1>8. g = [i \in 0..n |-> IF i = 0 THEN <<>> ELSE Round(g[i - 1], i)]
  BY <1>1, <1>6, <1>7
<1>9. w = [i \in 0..n |-> IF i = 0 THEN <<>> ELSE Round(w[i - 1], i)]
  BY <1>2, <1>8
<1>10. w[0] = <<>> /\ \A i \in 1..n : w[i] = Round(w[i - 1], i)
  BY <1>1, <1>9
<1>11. \A i \in 0..n : w[i] = g[i]
  <2>1. n \in Nat /\ w[0] = g[0]
    BY <1>1, <1>6, <1>10
  <2>2. Alike(w, g, n)
    BY <1>7, <1>10 DEF Alike
  <2> QED BY <2>1, <2>2, RoundsAgree, Zenon
<1>12. w[n] \in T
  BY <1>1, <1>6, <1>11
<1> QED
  BY <1>4, <1>12 DEF T

(* The total of Weight. *)
LEMMA WeightIs ==
  ASSUME NEW flows, NEW side, NEW k
  PROVE  Weight(flows, side, k) = Sums(flows, side, k)[Len(flows)]
BY DEF Weight, Loop, Sums

(* What the findings tell of the first i flows: every blocked peer and port    *)
(* has one finding, with the total of its connections.                         *)
Told(flows, side, i) ==
  LET acc == Founds(flows, side)[i] IN
  /\ \A a, b \in 1..Len(acc) : acc[a].key = acc[b].key => a = b
  /\ \A a \in 1..Len(acc) : \E m \in 1..i : Counts(flows[m], side, acc[a].key)
  /\ \A m \in 1..i : DraftBlocked(flows[m].decision) =>
       \E a \in 1..Len(acc) : acc[a].key = FindingKey(flows[m], side)
  /\ \A a \in 1..Len(acc) : acc[a].conns = Sums(flows, side, acc[a].key)[i]
  /\ \A k : (\A m \in 1..i : ~ Counts(flows[m], side, k)) => Sums(flows, side, k)[i] = 0

(* A flow that is not blocked changes nothing. *)
LEMMA PassedTold ==
  ASSUME NEW flows \in Seq(TrafficFlow), NEW side, NEW i \in 1..Len(flows),
         Told(flows, side, i - 1), ~ DraftBlocked(flows[i].decision)
  PROVE  Told(flows, side, i)
<1> DEFINE acc == Founds(flows, side)[i - 1]
<1>1. Len(flows) \in Nat
  BY LenProperties
<1>2. Founds(flows, side)[i] = acc
  BY FoundsGrow
<1>3. \A k : Sums(flows, side, k)[i] = Sums(flows, side, k)[i - 1]
  BY SumsGrow DEF Counts
<1>4. 1..i = (1..(i - 1)) \cup {i} /\ \A k : ~ Counts(flows[i], side, k)
  BY <1>1 DEF Counts
<1> HIDE DEF acc
<1>5. /\ \A a, b \in 1..Len(acc) : acc[a].key = acc[b].key => a = b
      /\ \A a \in 1..Len(acc) : \E m \in 1..(i - 1) : Counts(flows[m], side, acc[a].key)
      /\ \A m \in 1..(i - 1) : DraftBlocked(flows[m].decision) =>
           \E a \in 1..Len(acc) : acc[a].key = FindingKey(flows[m], side)
      /\ \A a \in 1..Len(acc) : acc[a].conns = Sums(flows, side, acc[a].key)[i - 1]
      /\ \A k : (\A m \in 1..(i - 1) : ~ Counts(flows[m], side, k)) =>
                  Sums(flows, side, k)[i - 1] = 0
  BY DEF Told, acc
<1>6. \A a \in 1..Len(acc) : \E m \in 1..i : Counts(flows[m], side, acc[a].key)
  BY <1>4, <1>5
<1>7. \A m \in 1..i : DraftBlocked(flows[m].decision) =>
        \E a \in 1..Len(acc) : acc[a].key = FindingKey(flows[m], side)
  BY <1>4, <1>5
<1>8. \A a \in 1..Len(acc) : acc[a].conns = Sums(flows, side, acc[a].key)[i]
  BY <1>3, <1>5
<1>9. \A k : (\A m \in 1..i : ~ Counts(flows[m], side, k)) => Sums(flows, side, k)[i] = 0
  BY <1>3, <1>4, <1>5
<1> QED
  BY <1>2, <1>5, <1>6, <1>7, <1>8, <1>9 DEF Told

(* A blocked flow adds to its finding, or is one. *)
LEMMA BlockedTold ==
  ASSUME NEW flows \in Seq(TrafficFlow), NEW side, NEW i \in 1..Len(flows),
         Told(flows, side, i - 1), DraftBlocked(flows[i].decision)
  PROVE  Told(flows, side, i)
<1> DEFINE acc == Founds(flows, side)[i - 1]
           f == flows[i]
           kf == FindingKey(f, side)
           seen == \E a \in 1..Len(acc) : acc[a].key = kf
           out == Noted(acc, f, side)
<1>1. Len(flows) \in Nat /\ i - 1 \in 0..Len(flows) /\ f \in TrafficFlow
  BY LenProperties, ElementOfSeq
<1>2. Founds(flows, side)[i] = out
  BY FoundsGrow
<1>3. acc \in Seq(Finding)
  BY <1>1, FoundsGrow
<1>4. \A k : Sums(flows, side, k)[i - 1] \in Nat
  BY <1>1, SumsGrow
<1>5. ASSUME NEW k
      PROVE  /\ Counts(f, side, k) <=> k = kf
             /\ k # kf => Sums(flows, side, k)[i] = Sums(flows, side, k)[i - 1]
             /\ k = kf => Sums(flows, side, k)[i] = Sums(flows, side, k)[i - 1] + f.conns
  <2>1. Counts(f, side, k) <=> k = kf
    BY DEF Counts
  <2>2. Sums(flows, side, k)[i] = IF Counts(f, side, k) THEN Sums(flows, side, k)[i - 1] + f.conns
                                                        ELSE Sums(flows, side, k)[i - 1]
    BY SumsGrow
  <2> QED BY <2>1, <2>2
<1>6. /\ out \in Seq(Finding)
      /\ seen => Len(out) = Len(acc)
      /\ ~ seen => (Len(out) = Len(acc) + 1 /\ out[Len(acc) + 1].key = kf
                      /\ out[Len(acc) + 1].conns = f.conns)
      /\ \A a \in 1..Len(acc) :
           /\ out[a].key = acc[a].key
           /\ acc[a].key = kf => out[a].conns = acc[a].conns + f.conns
           /\ acc[a].key # kf => out[a].conns = acc[a].conns
  BY <1>1, <1>3, NotedTells, ZenonT(40)
<1>7. /\ \A a, b \in 1..Len(acc) : acc[a].key = acc[b].key => a = b
      /\ \A a \in 1..Len(acc) : \E m \in 1..(i - 1) : Counts(flows[m], side, acc[a].key)
      /\ \A m \in 1..(i - 1) : DraftBlocked(flows[m].decision) =>
           \E a \in 1..Len(acc) : acc[a].key = FindingKey(flows[m], side)
      /\ \A a \in 1..Len(acc) : acc[a].conns = Sums(flows, side, acc[a].key)[i - 1]
      /\ \A k : (\A m \in 1..(i - 1) : ~ Counts(flows[m], side, k)) =>
                  Sums(flows, side, k)[i - 1] = 0
  BY DEF Told
<1>8. PICK n \in Nat : n = Len(acc)
  BY <1>3, LenProperties
<1>9. 1..i = (1..(i - 1)) \cup {i}
  BY <1>1
<1>10. f.conns \in Nat
  BY <1>1 DEF TrafficFlow
<1> HIDE DEF acc, out, kf
<1>11. CASE seen
  <2>1. Len(out) = n /\ \A a \in 1..n : out[a].key = acc[a].key
    BY <1>6, <1>8, <1>11
  <2>2. PICK s \in 1..n : acc[s].key = kf
    BY <1>8, <1>11
  <2>3. \A a, b \in 1..n : out[a].key = out[b].key => a = b
    BY <1>7, <1>8, <2>1
  <2>4. \A a \in 1..n : \E m \in 1..i : Counts(flows[m], side, out[a].key)
    BY <1>7, <1>8, <1>9, <2>1
  <2>5. ASSUME NEW m \in 1..i, DraftBlocked(flows[m].decision)
        PROVE  \E a \in 1..n : out[a].key = FindingKey(flows[m], side)
    <3>1. CASE m = i
      BY <2>1, <2>2, <3>1 DEF kf
    <3>2. CASE m \in 1..(i - 1)
      BY <1>7, <1>8, <2>1, <2>5, <3>2
    <3> QED BY <1>9, <3>1, <3>2
  <2>6. ASSUME NEW a \in 1..n PROVE out[a].conns = Sums(flows, side, out[a].key)[i]
    <3>1. out[a].key = acc[a].key /\ acc[a].conns = Sums(flows, side, acc[a].key)[i - 1]
      BY <1>7, <1>8, <2>1
    <3>2. CASE acc[a].key = kf
      <4>1. out[a].conns = acc[a].conns + f.conns
        BY <1>6, <1>8, <3>2
      <4>2. Sums(flows, side, acc[a].key)[i] = Sums(flows, side, acc[a].key)[i - 1] + f.conns
        BY <1>5, <3>2
      <4> QED BY <3>1, <4>1, <4>2
    <3>3. CASE acc[a].key # kf
      <4>1. out[a].conns = acc[a].conns
        BY <1>6, <1>8, <3>3
      <4>2. Sums(flows, side, acc[a].key)[i] = Sums(flows, side, acc[a].key)[i - 1]
        BY <1>5, <3>3
      <4> QED BY <3>1, <4>1, <4>2
    <3> QED BY <3>2, <3>3
  <2>7. ASSUME NEW k, \A m \in 1..i : ~ Counts(flows[m], side, k)
        PROVE  Sums(flows, side, k)[i] = 0
    <3>1. k # kf /\ Sums(flows, side, k)[i - 1] = 0
      BY <1>5, <1>7, <1>9, <2>7
    <3> QED BY <1>5, <3>1
  <2> QED
    BY <1>2, <2>1, <2>3, <2>4, <2>5, <2>6, <2>7 DEF Told
<1>12. CASE ~ seen
  <2>1. /\ Len(out) = n + 1 /\ out[n + 1].key = kf /\ out[n + 1].conns = f.conns
        /\ \A a \in 1..n : out[a].key = acc[a].key /\ out[a].conns = acc[a].conns /\ acc[a].key # kf
    BY <1>6, <1>8, <1>12
  <2>2. 1..(n + 1) = (1..n) \cup {n + 1} /\ n + 1 \notin 1..n
    BY <1>8
  <2>3. ASSUME NEW a \in 1..(n + 1), NEW b \in 1..(n + 1), out[a].key = out[b].key PROVE a = b
    BY <1>7, <1>8, <2>1, <2>2, <2>3
  <2>4. ASSUME NEW a \in 1..(n + 1) PROVE \E m \in 1..i : Counts(flows[m], side, out[a].key)
    <3>1. CASE a \in 1..n
      BY <1>7, <1>8, <1>9, <2>1, <3>1
    <3>2. CASE a = n + 1
      <4>1. i \in 1..i /\ Counts(flows[i], side, out[a].key)
        BY <1>5, <1>9, <2>1, <3>2
      <4> QED BY <4>1
    <3> QED BY <2>2, <3>1, <3>2
  <2>5. ASSUME NEW m \in 1..i, DraftBlocked(flows[m].decision)
        PROVE  \E a \in 1..(n + 1) : out[a].key = FindingKey(flows[m], side)
    <3>1. CASE m = i
      BY <2>1, <2>2, <3>1 DEF kf
    <3>2. CASE m \in 1..(i - 1)
      <4>1. PICK a \in 1..n : acc[a].key = FindingKey(flows[m], side)
        BY <1>7, <1>8, <2>5, <3>2
      <4> QED BY <2>1, <2>2, <4>1
    <3> QED BY <1>9, <3>1, <3>2
  <2>6. ASSUME NEW a \in 1..(n + 1) PROVE out[a].conns = Sums(flows, side, out[a].key)[i]
    <3>1. CASE a \in 1..n
      <4>1. out[a].key = acc[a].key /\ out[a].conns = acc[a].conns /\ acc[a].key # kf
        BY <2>1, <3>1
      <4>2. acc[a].conns = Sums(flows, side, acc[a].key)[i - 1]
        BY <1>7, <1>8, <3>1
      <4>3. Sums(flows, side, acc[a].key)[i] = Sums(flows, side, acc[a].key)[i - 1]
        BY <1>5, <4>1
      <4> QED BY <4>1, <4>2, <4>3
    <3>2. CASE a = n + 1
      <4>1. ASSUME NEW m \in 1..(i - 1) PROVE ~ Counts(flows[m], side, kf)
        <5> SUFFICES ASSUME Counts(flows[m], side, kf) PROVE FALSE
          OBVIOUS
        <5>1. DraftBlocked(flows[m].decision) /\ FindingKey(flows[m], side) = kf
          BY DEF Counts
        <5>2. PICK s \in 1..n : acc[s].key = kf
          BY <1>7, <1>8, <5>1
        <5> QED BY <2>1, <5>2
      <4>2. Sums(flows, side, kf)[i - 1] = 0
        BY <1>7, <4>1
      <4>3. Sums(flows, side, kf)[i] = f.conns
        BY <1>5, <1>10, <4>2
      <4> QED BY <2>1, <3>2, <4>3
    <3> QED BY <2>2, <3>1, <3>2
  <2>7. ASSUME NEW k, \A m \in 1..i : ~ Counts(flows[m], side, k)
        PROVE  Sums(flows, side, k)[i] = 0
    <3>1. k # kf /\ Sums(flows, side, k)[i - 1] = 0
      BY <1>5, <1>7, <1>9, <2>7
    <3> QED BY <1>5, <3>1
  <2> QED
    BY <1>2, <2>1, <2>3, <2>4, <2>5, <2>6, <2>7 DEF Told
<1> QED BY <1>11, <1>12

(* So at every point of the loop. *)
LEMMA AllTold ==
  ASSUME NEW flows \in Seq(TrafficFlow), NEW side
  PROVE  Told(flows, side, Len(flows))
<1> DEFINE n == Len(flows)
           Bad == {i \in 0..n : ~ Told(flows, side, i)}
<1>1. n \in Nat
  BY LenProperties
<1>2. SUFFICES ASSUME Bad # {} PROVE FALSE
  BY <1>1
<1>3. PICK i \in Bad : \A j \in Bad : i <= j
  BY <1>2, Least, Bad \in SUBSET Nat
<1>4. i # 0
  <2>1. Founds(flows, side)[0] = <<>>
    BY FoundsGrow
  <2>2. \A k : Sums(flows, side, k)[0] = 0
    BY SumsGrow
  <2>3. Len(<<>>) = 0 /\ 1..0 = {}
    OBVIOUS
  <2>4. Told(flows, side, 0)
    BY <2>1, <2>2, <2>3 DEF Told
  <2> QED BY <1>3, <2>4
<1>5. i \in 1..n /\ i - 1 \in 0..n /\ ~ (i <= i - 1)
  BY <1>1, <1>3, <1>4
<1>6. Told(flows, side, i - 1)
  BY <1>3, <1>5
<1>7. Told(flows, side, i)
  BY <1>5, <1>6, PassedTold, BlockedTold
<1> QED BY <1>3, <1>7

-----------------------------------------------------------------------------
(* Findings *)

(* The order of the keys can be sorted by. *)
LEMMA BeforeSorts ==
  ASSUME NEW k \in Key, NEW l \in Key, NEW m \in Key
  PROVE  /\ Before(k, l) => ~ Before(l, k)
         /\ ~ Before(k, l) /\ ~ Before(l, m) => ~ Before(k, m)
<1>1. /\ k[1] \in Nat /\ k[2] \in Nat
      /\ l[1] \in Nat /\ l[2] \in Nat
      /\ m[1] \in Nat /\ m[2] \in Nat
  BY DEF Key
<1> QED BY <1>1 DEF Before

(* So can that of the connections with the keys. *)
LEMMA HeavierSorts ==
  ASSUME NEW a \in Finding, NEW b \in Finding, NEW c \in Finding
  PROVE  /\ Heavier(a, b) => ~ Heavier(b, a)
         /\ ~ Heavier(a, b) /\ ~ Heavier(b, c) => ~ Heavier(a, c)
<1>1. /\ a.key \in Key /\ b.key \in Key /\ c.key \in Key
      /\ a.conns \in Nat /\ b.conns \in Nat /\ c.conns \in Nat
  BY DEF Finding
<1>2. /\ Before(a.key, b.key) => ~ Before(b.key, a.key)
      /\ ~ Before(a.key, b.key) /\ ~ Before(b.key, c.key) => ~ Before(a.key, c.key)
  BY <1>1, BeforeSorts
<1> QED BY <1>1, <1>2 DEF Heavier

(* Findings sorted by key are the findings, in some order. *)
LEMMA FindingsSorted ==
  ASSUME NEW s \in Seq(Finding)
  PROVE  \E p : /\ Permutes(p, Len(s))
                /\ Sorted(s, LAMBDA a, b : Before(a.key, b.key)) = [i \in 1..Len(s) |-> s[p[i]]]
<1> DEFINE n == Len(s)
           less == {x \in (1..n) \X (1..n) : Before(s[x[1]].key, s[x[2]].key)}
           p == Arrangement(n, less)
<1>1. n \in Nat /\ \A i \in 1..n : s[i].key \in Key
  <2>1. n \in Nat
    BY LenProperties
  <2>2. \A i \in 1..n : s[i] \in Finding
    BY ElementOfSeq
  <2> QED BY <2>1, <2>2 DEF Finding
<1>2. \A i, j \in 1..n : <<i, j>> \in less <=> Before(s[i].key, s[j].key)
  OBVIOUS
<1>3. Sorted(s, LAMBDA a, b : Before(a.key, b.key)) = [i \in 1..n |-> s[p[i]]]
  BY DEF Sorted
<1> HIDE DEF less, n
<1>4. Sortable(n, less)
  BY <1>1, <1>2, BeforeSorts DEF Sortable
<1>5. Permutes(p, n)
  BY <1>1, <1>4, Arranged
<1> HIDE DEF p
<1> QED
  BY <1>3, <1>5 DEF n

(* Findings sorted by weight are the findings, none before a heavier one. *)
LEMMA HeaviestFirst ==
  ASSUME NEW s \in Seq(Finding)
  PROVE  \E p : /\ Permutes(p, Len(s))
                /\ Sorted(s, Heavier) = [i \in 1..Len(s) |-> s[p[i]]]
                /\ \A i, j \in 1..Len(s) : i < j => ~ Heavier(s[p[j]], s[p[i]])
<1> DEFINE n == Len(s)
           less == {x \in (1..n) \X (1..n) : Heavier(s[x[1]], s[x[2]])}
           p == Arrangement(n, less)
<1>1. n \in Nat /\ \A i \in 1..n : s[i] \in Finding
  BY LenProperties, ElementOfSeq
<1>2. \A i, j \in 1..n : <<i, j>> \in less <=> Heavier(s[i], s[j])
  OBVIOUS
<1>3. Sorted(s, Heavier) = [i \in 1..n |-> s[p[i]]]
  BY DEF Sorted
<1> HIDE DEF less, n
<1>4. Sortable(n, less)
  BY <1>1, <1>2, HeavierSorts DEF Sortable
<1>5. Permutes(p, n) /\ \A i, j \in 1..n : i < j => <<p[j], p[i]>> \notin less
  BY <1>1, <1>4, Arranged
<1> HIDE DEF p
<1>6. \A i, j \in 1..n : i < j => ~ Heavier(s[p[j]], s[p[i]])
  BY <1>2, <1>5 DEF Permutes
<1> QED
  BY <1>3, <1>5, <1>6 DEF n

(* One finding for every blocked peer and port, with all its connections. *)
LEMMA Classified ==
  ASSUME NEW flows \in Seq(TrafficFlow), NEW side
  PROVE  LET found == ClassifyFlows(flows, side) IN
         /\ found \in Seq(Finding)
         /\ \A i, j \in 1..Len(found) : found[i].key = found[j].key => i = j
         /\ {found[i].key : i \in 1..Len(found)} = {FindingKey(flows[i], side) : i \in Blocked(flows)}
         /\ \A i \in 1..Len(found) : found[i].conns = Weight(flows, side, found[i].key)
<1> DEFINE s == Founds(flows, side)[Len(flows)]
           found == ClassifyFlows(flows, side)
<1>1. Len(flows) \in Nat /\ DOMAIN flows = 1..Len(flows)
  BY LenProperties
<1>2. s \in Seq(Finding)
  BY <1>1, FoundsGrow
<1>3. found = Sorted(s, LAMBDA a, b : Before(a.key, b.key))
  BY DEF ClassifyFlows, Founds, Loop
<1>4. Told(flows, side, Len(flows))
  BY AllTold
<1>5. /\ \A a, b \in 1..Len(s) : s[a].key = s[b].key => a = b
      /\ \A a \in 1..Len(s) : \E m \in 1..Len(flows) : Counts(flows[m], side, s[a].key)
      /\ \A m \in 1..Len(flows) : DraftBlocked(flows[m].decision) =>
           \E a \in 1..Len(s) : s[a].key = FindingKey(flows[m], side)
      /\ \A a \in 1..Len(s) : s[a].conns = Weight(flows, side, s[a].key)
  BY <1>4, WeightIs DEF Told
<1> HIDE DEF s, found
<1>6. PICK n \in Nat : n = Len(s)
  BY <1>2, LenProperties
<1>7. PICK p : Permutes(p, n) /\ found = [i \in 1..n |-> s[p[i]]]
  BY <1>2, <1>3, <1>6, FindingsSorted
<1>8. \A i \in 1..n : p[i] \in 1..n /\ found[i] = s[p[i]]
  BY <1>7 DEF Permutes
<1>9. found \in Seq(Finding) /\ Len(found) = n
  <2>1. \A i \in 1..n : s[p[i]] \in Finding
    BY <1>2, <1>6, <1>8, ElementOfSeq
  <2>2. found \in [1..n -> Finding]
    BY <1>7, <2>1
  <2> QED BY <1>6, <2>2, FunctionIsSeq
<1>10. ASSUME NEW i \in 1..n, NEW j \in 1..n, found[i].key = found[j].key PROVE i = j
  <2>1. p[i] = p[j]
    BY <1>5, <1>6, <1>8, <1>10
  <2> QED BY <1>7, <2>1 DEF Permutes
<1>11. ASSUME NEW i \in 1..n
       PROVE  /\ found[i].conns = Weight(flows, side, found[i].key)
              /\ \E m \in Blocked(flows) : FindingKey(flows[m], side) = found[i].key
  <2>1. found[i] = s[p[i]] /\ p[i] \in 1..Len(s)
    BY <1>6, <1>8
  <2>2. PICK m \in 1..Len(flows) : Counts(flows[m], side, s[p[i]].key)
    BY <1>5, <2>1
  <2> QED BY <1>1, <1>5, <2>1, <2>2 DEF Blocked, Counts
<1>12. ASSUME NEW m \in Blocked(flows)
       PROVE  \E i \in 1..n : found[i].key = FindingKey(flows[m], side)
  <2>1. m \in 1..Len(flows) /\ DraftBlocked(flows[m].decision)
    BY <1>1 DEF Blocked
  <2>2. PICK a \in 1..n : s[a].key = FindingKey(flows[m], side)
    BY <1>5, <1>6, <2>1
  <2>3. PICK i \in 1..n : p[i] = a
    BY <1>7, <2>2 DEF Permutes
  <2> QED BY <1>8, <2>2, <2>3
<1>13. {found[i].key : i \in 1..n} = {FindingKey(flows[i], side) : i \in Blocked(flows)}
  BY <1>11, <1>12
<1> QED
  BY <1>9, <1>10, <1>11, <1>13 DEF found

(* A list that is cut keeps the heaviest findings. *)
LEMMA CutIsHeaviest ==
  ASSUME NEW found \in Seq(Finding), NEW n \in Nat
  PROVE  LET c == CapFindings(found, n)
             l == Len(c.list) IN
         /\ c.list \in Seq(Finding) /\ l <= Len(found)
         /\ c.truncated \in BOOLEAN /\ (c.truncated <=> l < Len(found))
         /\ \E q \in [1..l -> 1..Len(found)] :
              /\ \A i, j \in 1..l : q[i] = q[j] => i = j
              /\ \A i \in 1..l : c.list[i] = found[q[i]]
              /\ \A i \in 1..l, j \in 1..Len(found) :
                   (\A h \in 1..l : q[h] # j) => found[q[i]].conns >= found[j].conns
<1> DEFINE c == CapFindings(found, n)
           list == c.list
<1>1. PICK m \in Nat : m = Len(found)
  BY LenProperties
<1>2. \A i \in 1..m : found[i] \in Finding
  BY <1>1, ElementOfSeq
<1>3. CASE m <= n
  <2>1. c = [list |-> found, truncated |-> FALSE]
    BY <1>1, <1>3 DEF CapFindings
  <2> HIDE DEF c
  <2>2. list = found /\ c.truncated = FALSE
    BY <2>1
  <2> DEFINE q == [i \in 1..m |-> i]
  <2>3. q \in [1..m -> 1..m] /\ (\A i \in 1..m : q[i] = i)
    OBVIOUS
  <2> HIDE DEF q
  <2>4. /\ \A i, j \in 1..m : q[i] = q[j] => i = j
        /\ \A i \in 1..m : found[i] = found[q[i]]
        /\ \A i \in 1..m, j \in 1..m :
             (\A h \in 1..m : q[h] # j) => found[q[i]].conns >= found[j].conns
    BY <2>3
  <2>5. \E w \in [1..m -> 1..m] :
          /\ \A i, j \in 1..m : w[i] = w[j] => i = j
          /\ \A i \in 1..m : found[i] = found[w[i]]
          /\ \A i \in 1..m, j \in 1..m :
               (\A h \in 1..m : w[h] # j) => found[w[i]].conns >= found[j].conns
    BY <2>3, <2>4
  <2>6. ~ (m < m) /\ m <= m
    BY <1>1
  <2>7. list \in Seq(Finding) /\ Len(list) = m /\ c.truncated \in BOOLEAN
    BY <1>1, <2>2
  <2>8. \E w \in [1..m -> 1..m] :
          /\ \A i, j \in 1..m : w[i] = w[j] => i = j
          /\ \A i \in 1..m : list[i] = found[w[i]]
          /\ \A i \in 1..m, j \in 1..m :
               (\A h \in 1..m : w[h] # j) => found[w[i]].conns >= found[j].conns
    BY <2>2, <2>5
  <2> HIDE DEF list
  <2> QED
    BY <1>1, <2>2, <2>6, <2>7, <2>8 DEF c, list
<1>4. CASE ~ (m <= n)
  <2> DEFINE all == Sorted(found, Heavier)
  <2>1. c = [list |-> Capped(all, n), truncated |-> TRUE]
    BY <1>1, <1>4 DEF CapFindings
  <2> HIDE DEF c, all
  <2>2. list = Capped(all, n) /\ c.truncated = TRUE
    BY <2>1
  <2>3. PICK p : /\ Permutes(p, m) /\ all = [i \in 1..m |-> found[p[i]]]
                 /\ \A i, j \in 1..m : i < j => ~ Heavier(found[p[j]], found[p[i]])
    BY <1>1, HeaviestFirst DEF all
  <2>4. \A i \in 1..m : p[i] \in 1..m /\ all[i] = found[p[i]]
    BY <2>3 DEF Permutes
  <2>5. all \in Seq(Finding) /\ Len(all) = m
    <3>1. all \in [1..m -> Finding]
      BY <1>2, <2>3, <2>4
    <3> QED BY <1>1, <3>1, FunctionIsSeq
  <2>6. /\ list \in Seq(Finding) /\ Len(list) = n /\ n < m
        /\ \A i \in 1..n : list[i] = all[i]
    BY <1>1, <1>4, <2>2, <2>5, CappedIs
  <2> DEFINE q == [i \in 1..n |-> p[i]]
  <2>7. \A i \in 1..n : i \in 1..m
    BY <1>1, <2>6
  <2>8. q \in [1..n -> 1..m] /\ \A i \in 1..n : q[i] = p[i]
    BY <2>4, <2>7
  <2> HIDE DEF q
  <2>9. \A i, j \in 1..n : q[i] = q[j] => i = j
    BY <2>3, <2>7, <2>8 DEF Permutes
  <2>10. \A i \in 1..n : list[i] = found[q[i]]
    BY <2>4, <2>6, <2>7, <2>8
  <2>11. ASSUME NEW i \in 1..n, NEW j \in 1..m, \A h \in 1..n : q[h] # j
         PROVE  found[q[i]].conns >= found[j].conns
    <3>1. PICK k \in 1..m : p[k] = j
      BY <2>3 DEF Permutes
    <3>2. k \notin 1..n
      BY <2>8, <2>11, <3>1
    <3>3. i < k
      BY <1>1, <3>1, <3>2
    <3>4. ~ Heavier(found[j], found[p[i]])
      BY <2>3, <2>7, <3>1, <3>3
    <3>5. found[j] \in Finding /\ found[p[i]] \in Finding
      BY <1>2, <2>4, <2>7
    <3>6. found[j].conns \in Nat /\ found[p[i]].conns \in Nat
      BY <3>5 DEF Finding
    <3> QED BY <2>8, <3>4, <3>6 DEF Heavier
  <2>12. \E w \in [1..n -> 1..m] :
           /\ \A i, j \in 1..n : w[i] = w[j] => i = j
           /\ \A i \in 1..n : list[i] = found[w[i]]
           /\ \A i \in 1..n, j \in 1..m :
                (\A h \in 1..n : w[h] # j) => found[w[i]].conns >= found[j].conns
    BY <2>8, <2>9, <2>10, <2>11
  <2>13. list \in Seq(Finding) /\ Len(list) = n /\ c.truncated \in BOOLEAN /\ c.truncated
    BY <2>2, <2>6
  <2>14. n <= m /\ n < m
    BY <1>1, <2>6
  <2> HIDE DEF list
  <2> QED
    BY <1>1, <2>12, <2>13, <2>14 DEF c, list
<1> QED BY <1>3, <1>4

(* As many keys as findings. *)
LEMMA DistinctCount ==
  ASSUME NEW s \in Seq(Finding), \A i, j \in 1..Len(s) : s[i].key = s[j].key => i = j
  PROVE  /\ IsFiniteSet({s[i].key : i \in 1..Len(s)})
         /\ Cardinality({s[i].key : i \in 1..Len(s)}) = Len(s)
<1> DEFINE n == Len(s)
           T == {s[i].key : i \in 1..n}
           h == [i \in 1..n |-> s[i].key]
<1>1. n \in Nat
  BY LenProperties
<1> HIDE DEF n
<1>2. IsFiniteSet(1..n) /\ Cardinality(1..n) = n
  BY <1>1, FS_Interval
<1>3. /\ h \in [1..n -> T]
      /\ \A i, j \in 1..n : h[i] = h[j] => i = j
      /\ \A k \in T : \E i \in 1..n : h[i] = k
  BY DEF n
<1> HIDE DEF h, T
<1>4. h \in Bijection(1..n, T)
  BY <1>3, Fun_IsBij
<1>5. ExistsBijection(1..n, T)
  BY <1>4 DEF ExistsBijection
<1>6. IsFiniteSet(T) /\ Cardinality(T) = n
  BY <1>2, <1>5, FS_Bijection
<1> QED
  BY <1>6 DEF T, n

(* Sets that have nothing in common count together. *)
LEMMA ApartCount ==
  ASSUME NEW S, NEW T, IsFiniteSet(S), IsFiniteSet(T), S \cap T = {}
  PROVE  /\ IsFiniteSet(S \cup T)
         /\ Cardinality(S \cup T) = Cardinality(S) + Cardinality(T)
         /\ Cardinality(S) \in Nat /\ Cardinality(T) \in Nat
<1>1. Cardinality(S) \in Nat /\ Cardinality(T) \in Nat
  BY FS_CardinalityType
<1>2. Cardinality(S \cap T) = 0
  BY FS_EmptySet
<1>3. /\ IsFiniteSet(S \cup T)
      /\ Cardinality(S \cup T) = Cardinality(S) + Cardinality(T) - Cardinality(S \cap T)
  BY FS_Union
<1>4. Cardinality(S) + Cardinality(T) - 0 = Cardinality(S) + Cardinality(T)
  BY <1>1
<1> QED
  BY <1>1, <1>2, <1>3, <1>4

(* Every flow counts in one of the four numbers of the summary. *)
LEMMA SummaryAddsUp ==
  ASSUME NEW flows \in Seq(TrafficFlow)
  PROVE  LET s == SummarizeFlows(flows) IN
         s["allowed"] + s["potentially_blocked"] + s["blocked"] + s["unknown"] = Len(flows)
<1> DEFINE Of(d) == {i \in DOMAIN flows : flows[i].decision = d}
           s == SummarizeFlows(flows)
<1>1. Len(flows) \in Nat /\ DOMAIN flows = 1..Len(flows)
  BY LenProperties
<1>2. IsFiniteSet(DOMAIN flows) /\ Cardinality(DOMAIN flows) = Len(flows)
  BY <1>1, FS_Interval
<1>3. \A i \in DOMAIN flows : flows[i].decision \in Decisions
  <2>1. \A i \in DOMAIN flows : flows[i] \in TrafficFlow
    BY <1>1, ElementOfSeq
  <2> QED BY <2>1 DEF TrafficFlow
<1>4. \A d \in Decisions : s[d] = Cardinality(Of(d))
  BY DEF SummarizeFlows
<1>5. \A d : Of(d) \in SUBSET DOMAIN flows
  OBVIOUS
<1>6. \A d, e : d # e => Of(d) \cap Of(e) = {}
  OBVIOUS
<1>7. DOMAIN flows = Of("allowed") \cup Of("potentially_blocked") \cup Of("blocked") \cup Of("unknown")
  BY <1>3 DEF Decisions
<1> HIDE DEF Of, s
<1>8. \A d : IsFiniteSet(Of(d)) /\ Cardinality(Of(d)) \in Nat
  BY <1>2, <1>5, FS_Subset, FS_CardinalityType
<1> DEFINE A == Of("allowed") \cup Of("potentially_blocked")
           B == A \cup Of("blocked")
<1>9. /\ Of("allowed") \cap Of("potentially_blocked") = {}
      /\ A \cap Of("blocked") = {} /\ B \cap Of("unknown") = {}
  BY <1>6
<1>10. /\ IsFiniteSet(A)
       /\ Cardinality(A) = Cardinality(Of("allowed")) + Cardinality(Of("potentially_blocked"))
  BY <1>8, <1>9, ApartCount
<1> HIDE DEF A
<1>11. IsFiniteSet(B) /\ Cardinality(B) = Cardinality(A) + Cardinality(Of("blocked"))
  BY <1>8, <1>9, <1>10, ApartCount
<1>12. DOMAIN flows = B \cup Of("unknown")
  BY <1>7 DEF A
<1> HIDE DEF B
<1>13. Cardinality(DOMAIN flows) = Cardinality(B) + Cardinality(Of("unknown"))
  BY <1>8, <1>9, <1>11, <1>12, ApartCount
<1>14. /\ s["allowed"] = Cardinality(Of("allowed"))
       /\ s["potentially_blocked"] = Cardinality(Of("potentially_blocked"))
       /\ s["blocked"] = Cardinality(Of("blocked")) /\ s["unknown"] = Cardinality(Of("unknown"))
  BY <1>4 DEF Decisions
<1>15. s["allowed"] + s["potentially_blocked"] + s["blocked"] + s["unknown"] = Len(flows)
  BY <1>2, <1>8, <1>10, <1>11, <1>13, <1>14
<1> QED
  BY <1>15 DEF s

(* What the findings of complete flows tell. *)
LEMMA FindingsTell ==
  ASSUME NEW flows \in Seq(TrafficFlow), NEW side, NEW n \in Nat
  PROVE  LET found == ClassifyFlows(flows, side)
             c == CapFindings(found, n)
             keys == {FindingKey(flows[i], side) : i \in Blocked(flows)}
             listed == {c.list[i].key : i \in DOMAIN c.list} IN
         /\ Len(found) = Cardinality(keys)
         /\ listed \subseteq keys /\ Cardinality(listed) = Len(c.list)
         /\ \A i \in DOMAIN c.list : c.list[i].conns = Weight(flows, side, c.list[i].key)
         /\ c.truncated = (listed # keys)
         /\ \A k \in keys \ listed, l \in listed : Weight(flows, side, l) >= Weight(flows, side, k)
<1> DEFINE found == ClassifyFlows(flows, side)
           c == CapFindings(found, n)
           list == c.list
           keys == {FindingKey(flows[i], side) : i \in Blocked(flows)}
           listed == {list[i].key : i \in DOMAIN list}
           truncated == c.truncated
<1>1. /\ found \in Seq(Finding)
      /\ \A i, j \in 1..Len(found) : found[i].key = found[j].key => i = j
      /\ {found[i].key : i \in 1..Len(found)} = keys
      /\ \A i \in 1..Len(found) : found[i].conns = Weight(flows, side, found[i].key)
  BY Classified
<1> HIDE DEF found, keys
<1>2. /\ list \in Seq(Finding) /\ Len(list) <= Len(found)
      /\ truncated \in BOOLEAN /\ (truncated <=> Len(list) < Len(found))
      /\ \E q \in [1..Len(list) -> 1..Len(found)] :
           /\ \A i, j \in 1..Len(list) : q[i] = q[j] => i = j
           /\ \A i \in 1..Len(list) : list[i] = found[q[i]]
           /\ \A i \in 1..Len(list), j \in 1..Len(found) :
                (\A h \in 1..Len(list) : q[h] # j) => found[q[i]].conns >= found[j].conns
  BY <1>1, CutIsHeaviest
<1> HIDE DEF list, truncated
<1>3. /\ Len(found) \in Nat /\ Len(list) \in Nat
      /\ DOMAIN list = 1..Len(list)
  BY <1>1, <1>2, LenProperties
<1>4. PICK q \in [1..Len(list) -> 1..Len(found)] :
        /\ \A i, j \in 1..Len(list) : q[i] = q[j] => i = j
        /\ \A i \in 1..Len(list) : list[i] = found[q[i]]
        /\ \A i \in 1..Len(list), j \in 1..Len(found) :
             (\A h \in 1..Len(list) : q[h] # j) => found[q[i]].conns >= found[j].conns
  BY <1>2
<1>5. IsFiniteSet(keys) /\ Cardinality(keys) = Len(found)
  BY <1>1, DistinctCount
<1>6. \A i \in 1..Len(list) : q[i] \in 1..Len(found) /\ list[i] = found[q[i]]
  BY <1>4
<1>7. \A i, j \in 1..Len(list) : list[i].key = list[j].key => i = j
  BY <1>1, <1>4, <1>6
<1>8. listed = {list[i].key : i \in 1..Len(list)}
  BY <1>3
<1>9. IsFiniteSet(listed) /\ Cardinality(listed) = Len(list)
  BY <1>2, <1>7, <1>8, DistinctCount
<1>10. \A i \in 1..Len(list) : /\ list[i].key \in keys
                               /\ list[i].conns = Weight(flows, side, list[i].key)
  BY <1>1, <1>6
<1>11. listed \subseteq keys
  BY <1>8, <1>10
<1>12. \A k \in listed : \E i \in 1..Len(list) : list[i].key = k
  BY <1>8
<1>13. \A i \in 1..Len(list) : list[i].key \in listed
  BY <1>8
<1>14. \A i \in DOMAIN list : list[i].conns = Weight(flows, side, list[i].key)
  BY <1>3, <1>10
<1> HIDE DEF listed
<1>15. listed # keys <=> Len(list) < Len(found)
  <2>1. Cardinality(keys) = Cardinality(listed) => keys = listed
    BY <1>5, <1>11, FS_Subset, listed \in SUBSET keys
  <2> QED BY <1>2, <1>3, <1>5, <1>9, <2>1
<1>16. truncated = (listed # keys)
  BY <1>2, <1>15
<1>17. ASSUME NEW k \in keys \ listed, NEW l \in listed
       PROVE  Weight(flows, side, l) >= Weight(flows, side, k)
  <2>1. PICK i \in 1..Len(list) : list[i].key = l
    BY <1>12
  <2>2. PICK j \in 1..Len(found) : found[j].key = k
    BY <1>1
  <2>3. \A h \in 1..Len(list) : q[h] # j
    BY <1>6, <1>13, <2>2
  <2>4. found[q[i]].conns >= found[j].conns
    BY <1>4, <2>3
  <2>5. /\ found[q[i]].conns = Weight(flows, side, l)
        /\ found[j].conns = Weight(flows, side, k)
    BY <1>1, <1>6, <2>1, <2>2
  <2> QED BY <2>4, <2>5
<1>18. /\ Len(found) = Cardinality(keys)
       /\ listed \subseteq keys /\ Cardinality(listed) = Len(list)
       /\ \A i \in DOMAIN list : list[i].conns = Weight(flows, side, list[i].key)
       /\ truncated = (listed # keys)
       /\ \A k \in keys \ listed, l \in listed : Weight(flows, side, l) >= Weight(flows, side, k)
  BY <1>5, <1>9, <1>11, <1>14, <1>16, <1>17
<1> QED
  BY <1>18 DEF found, keys, list, listed, truncated

(* A preflight report tells of the traffic what it promises to. *)
LEMMA DirectionTells ==
  ASSUME NEW traffic \in Seq(TrafficFlow), NEW side, NEW max \in Nat, NEW n \in Nat
  PROVE  PreflightTells(traffic, side, max, n)
<1> DEFINE all == Matching(traffic, side)
           flows == Returned(traffic, side, max)
           found == ClassifyFlows(flows, side)
           c == CapFindings(found, n)
           r == Preflight(traffic, side, max, n)
           keys == {FindingKey(all[i], side) : i \in Blocked(all)}
           listed == {r.list[i].key : i \in DOMAIN r.list}
<1>1. all \in Seq(TrafficFlow) /\ Len(all) \in Nat
  <2>1. all \in Seq(TrafficFlow)
    BY MatchingTyped
  <2> QED BY <2>1, LenProperties
<1>2. flows = Capped(all, max)
  BY DEF Returned
<1>3. /\ r.analyzed = Len(flows) /\ r.partial = (Len(flows) >= max)
      /\ r.summary = SummarizeFlows(flows)
      /\ r.count = Len(found) /\ r.list = c.list /\ r.truncated = c.truncated
  BY DEF Preflight, Truncated
<1> HIDE DEF all, r
<1>4. Len(flows) = (IF Len(all) <= max THEN Len(all) ELSE max) /\ (Len(all) <= max => flows = all)
  BY <1>1, <1>2, CappedIs
<1> HIDE DEF flows
<1>5. r.partial <=> Len(flows) >= max
  BY <1>3
<1>6. r.analyzed < max => ~ r.partial
  BY <1>1, <1>3, <1>4, <1>5
<1>7. ASSUME ~ r.partial
      PROVE  /\ r.analyzed = Len(all) /\ r.count = Cardinality(keys)
             /\ r.summary["allowed"] + r.summary["potentially_blocked"] + r.summary["blocked"]
                  + r.summary["unknown"] = r.analyzed
             /\ listed \subseteq keys /\ Cardinality(listed) = Len(r.list)
             /\ \A i \in DOMAIN r.list : r.list[i].conns = Weight(all, side, r.list[i].key)
             /\ r.truncated = (listed # keys)
             /\ \A k \in keys \ listed, l \in listed :
                  Weight(all, side, l) >= Weight(all, side, k)
  <2>1. Len(all) <= max
    BY <1>1, <1>4, <1>5, <1>7
  <2>2. flows = all
    BY <1>4, <2>1
  <2>3. r.summary["allowed"] + r.summary["potentially_blocked"] + r.summary["blocked"]
          + r.summary["unknown"] = r.analyzed
    BY <1>1, <1>3, <2>2, SummaryAddsUp
  <2> DEFINE f == ClassifyFlows(all, side)
             d == CapFindings(f, n)
             ds == {d.list[i].key : i \in DOMAIN d.list}
  <2>4. /\ Len(f) = Cardinality(keys)
        /\ ds \subseteq keys /\ Cardinality(ds) = Len(d.list)
        /\ \A i \in DOMAIN d.list : d.list[i].conns = Weight(all, side, d.list[i].key)
        /\ d.truncated = (ds # keys)
        /\ \A k \in keys \ ds, l \in ds : Weight(all, side, l) >= Weight(all, side, k)
    BY <1>1, FindingsTell
  <2>5. /\ r.analyzed = Len(all) /\ r.count = Len(f)
        /\ r.list = d.list /\ r.truncated = d.truncated
    BY <1>3, <2>2
  <2> HIDE DEF f, d, keys
  <2>6. listed = ds
    BY <2>5
  <2> HIDE DEF ds, listed
  <2> QED BY <2>3, <2>4, <2>5, <2>6
<1> HIDE DEF keys, listed
<1> QED
  BY <1>6, <1>7 DEF PreflightTells, all, r, keys, listed

-----------------------------------------------------------------------------
(* Content *)

(* However much traffic there is, whatever the flows and the limits: a report  *)
(* of a PolicyInsight that is not marked partial counts every blocked peer and *)
(* port once, with all its connections, and a list that is cut keeps the       *)
(* heaviest and says so (classifyFlows, summarizeFlows, capFindings).          *)
THEOREM PreflightWhole == Spec => []PreflightIsWhole
<1>1. \A traffic \in Traffics, side \in Sides, max, n \in Limits :
        PreflightTells(traffic, side, max, n)
  BY ContentAssumption, DirectionTells
<1>2. PreflightIsWhole
  BY <1>1 DEF PreflightIsWhole
<1> QED
  BY <1>2, PTL

(* However many rules are found: the counts of a RuleView are of all of them,  *)
(* and a rule of somebody else is listed only after every rule of the operator *)
(* (mapRules).                                                                 *)
THEOREM RuleListWhole == Spec => []RuleListIsWhole
<1>1. \A found \in RuleLists, eds \in {"none", "ours"}, n \in Limits : RuleViewTells(found, eds, n)
  BY ContentAssumption, RuleListTells
<1>2. RuleListIsWhole
  BY <1>1 DEF RuleListIsWhole
<1> QED
  BY <1>2, PTL
=============================================================================
