---------------------------- MODULE ReportContent ----------------------------
(* What the reports of Reports say: the traffic query and the findings of a    *)
(* PolicyInsight (QueryTraffic, classifyFlows, summarizeFlows, capFindings),   *)
(* the rule list of a RuleView (mapRules).                                     *)
EXTENDS Reports, Sequences, FiniteSets, Functions

CONSTANTS
  Traffics,  \* what the PCE may have observed
  RuleLists, \* what a rule search may find
  Limits,    \* on the flows of one answer and on the entries of one list
  LabelsKey, \* the place among all strings of the string of a label set
  IpKey      \* and of the string of an IP

(* An end of a flow: its label set, by number (0: it has none), and its IP.    *)
(* Own is the label set of the namespace's app.                                *)
Own == 1
End(labs, ip) == [labels |-> labs, ip |-> ip]
Decisions == {"allowed", "potentially_blocked", "blocked", "unknown"}
Flow(src, dst, port, decision, n) ==
  [src |-> src, dst |-> dst, port |-> port, decision |-> decision, conns |-> n]
Sides == {"inbound", "outbound"}
(* name stands for the name of the ruleset followed by the href of the rule.   *)
FoundRule == [name : Nat, eds : {"none", "ours", "theirs"}]

Ends == [labels : {0} \cup DOMAIN LabelsKey, ip : DOMAIN IpKey]
TrafficFlow == [src : Ends, dst : Ends, port : Nat, decision : Decisions, conns : Nat]

ASSUME KeyAssumption ==
  LabelsKey \in [DOMAIN LabelsKey -> Nat] /\ IpKey \in [DOMAIN IpKey -> Nat]
ASSUME ContentAssumption ==
  /\ Traffics \subseteq Seq(TrafficFlow)
  /\ RuleLists \subseteq Seq(FoundRule)
  /\ Limits \subseteq Nat \ {0}

-----------------------------------------------------------------------------
(* Loops and sorts *)

(* A loop over s: the accumulator before, between and after its rounds.        *)
Rounds(s, base, Round(_, _)) ==
  LET acc[i \in 0..Len(s)] == IF i = 0 THEN base ELSE Round(acc[i - 1], s[i]) IN acc
Loop(s, base, Round(_, _)) == Rounds(s, base, Round)[Len(s)]

(* slices.SortFunc promises an order, not which of several.                    *)
Arrangement(n, less) ==
  CHOOSE p \in Bijection(1..n, 1..n) : \A i, j \in 1..n : i < j => <<p[j], p[i]>> \notin less
Sorted(s, Less(_, _)) ==
  LET n == Len(s)
      p == Arrangement(n, {x \in (1..n) \X (1..n) : Less(s[x[1]], s[x[2]])}) IN
  [i \in 1..n |-> s[p[i]]]
Capped(s, n) == IF Len(s) <= n THEN s ELSE SubSeq(s, 1, n)

-----------------------------------------------------------------------------
(* The traffic query *)

Near(f, side) == IF side = "inbound" THEN f.dst ELSE f.src
Peer(f, side) == IF side = "inbound" THEN f.src ELSE f.dst

(* The PCE returns no more than max of the flows that match. *)
Matching(traffic, side) ==
  Loop(traffic, <<>>,
       LAMBDA acc, f : IF Near(f, side).labels = Own THEN Append(acc, f) ELSE acc)
Returned(traffic, side, max) == Capped(Matching(traffic, side), max)

(* Mutant: more flows than the PCE may return. *)
Truncated_Beyond(flows, max) == Len(flows) > max
Truncated(flows, max) == Len(flows) >= max

-----------------------------------------------------------------------------
(* Findings *)

DraftBlocked(decision) == decision \in {"blocked", "potentially_blocked"}

SummarizeFlows(flows) ==
  [d \in Decisions |-> Cardinality({i \in DOMAIN flows : flows[i].decision = d})]

(* peerKey makes a string of the labels of a peer that has some, else of its   *)
(* IP.  Strings are told apart and sorted by their place among all strings: the *)
(* two sorts may interleave, and peers of one string are one peer.             *)
PeerKey(e) == IF e.labels = 0 THEN IpKey[e.ip] ELSE LabelsKey[e.labels]
Before(k, l) == k[1] < l[1] \/ (k[1] = l[1] /\ k[2] < l[2])
FindingKey(f, side) == <<PeerKey(Peer(f, side)), f.port>>

NewFinding(f, side) ==
  [key |-> FindingKey(f, side), ip |-> Peer(f, side).ip, conns |-> f.conns,
   decision |-> f.decision]

(* Mutant: a flow of a peer already seen is dropped. *)
Noted_First(acc, f, side) ==
  IF \E i \in DOMAIN acc : acc[i].key = FindingKey(f, side)
  THEN acc ELSE Append(acc, NewFinding(f, side))
(* One more flow: a finding of its key takes its connections. *)
Noted(acc, f, side) ==
  IF \E i \in DOMAIN acc : acc[i].key = FindingKey(f, side)
  THEN [i \in DOMAIN acc |->
         IF acc[i].key = FindingKey(f, side) THEN [acc[i] EXCEPT !.conns = @ + f.conns]
                                             ELSE acc[i]]
  ELSE Append(acc, NewFinding(f, side))

ClassifyFlows(flows, side) ==
  Sorted(Loop(flows, <<>>, LAMBDA acc, f : IF DraftBlocked(f.decision) THEN Noted(acc, f, side)
                                                                       ELSE acc),
         LAMBDA a, b : Before(a.key, b.key))

(* A list longer than n keeps the findings of the most connections. *)
Heavier(a, b) == a.conns > b.conns \/ (a.conns = b.conns /\ Before(a.key, b.key))
(* Mutant: the list is cut where it stands. *)
CapFindings_Cut(found, n) == [list |-> Capped(found, n), truncated |-> Len(found) > n]
CapFindings(found, n) ==
  IF Len(found) <= n THEN [list |-> found, truncated |-> FALSE]
                     ELSE [list |-> Capped(Sorted(found, Heavier), n), truncated |-> TRUE]

(* One direction of a PolicyInsight's status. *)
Preflight(traffic, side, max, n) ==
  LET flows == Returned(traffic, side, max)
      found == ClassifyFlows(flows, side)
      cut == CapFindings(found, n) IN
  [analyzed |-> Len(flows), partial |-> Truncated(flows, max), summary |-> SummarizeFlows(flows),
   count |-> Len(found), list |-> cut.list, truncated |-> cut.truncated]

-----------------------------------------------------------------------------
(* The rule list *)

(* eds: the data set of the operator, "none" where no profile has one.        *)
Owned(r, eds) == eds # "none" /\ r.eds = eds
OwnedOf(list, eds) == {i \in DOMAIN list : Owned(list[i], eds)}

Order(a, b, eds) ==
  IF Owned(a, eds) # Owned(b, eds) THEN Owned(a, eds) ELSE a.name < b.name
(* Mutant: the counts are taken of the capped list. *)
MapRules_Late(found, eds, n) ==
  LET list == Capped(Sorted(found, LAMBDA a, b : Order(a, b, eds)), n) IN
  [list |-> list, owned |-> Cardinality(OwnedOf(list, eds)),
   external |-> Cardinality(DOMAIN list \ OwnedOf(list, eds)), truncated |-> Len(found) > n]
MapRules(found, eds, n) ==
  [list |-> Capped(Sorted(found, LAMBDA a, b : Order(a, b, eds)), n),
   owned |-> Cardinality(OwnedOf(found, eds)),
   external |-> Cardinality(DOMAIN found \ OwnedOf(found, eds)),
   truncated |-> Len(found) > n]

-----------------------------------------------------------------------------
(* Properties: of the inputs alone, so checked in the initial states *)

Blocked(flows) == {i \in DOMAIN flows : DraftBlocked(flows[i].decision)}

(* The connections of the blocked flows of a peer and port. *)
Weight(flows, side, k) ==
  Loop(flows, 0, LAMBDA sum, f : IF DraftBlocked(f.decision) /\ FindingKey(f, side) = k
                                 THEN sum + f.conns ELSE sum)

PreflightTells(traffic, side, max, n) ==
  LET r == Preflight(traffic, side, max, n)
      flows == Matching(traffic, side)
      keys == {FindingKey(flows[i], side) : i \in Blocked(flows)}
      listed == {r.list[i].key : i \in DOMAIN r.list} IN
  /\ r.analyzed < max => ~ r.partial
  /\ ~ r.partial =>
       /\ r.analyzed = Len(flows) /\ r.count = Cardinality(keys)
       /\ r.summary["allowed"] + r.summary["potentially_blocked"] + r.summary["blocked"]
            + r.summary["unknown"] = r.analyzed
       /\ listed \subseteq keys /\ Cardinality(listed) = Len(r.list)
       /\ \A i \in DOMAIN r.list : r.list[i].conns = Weight(flows, side, r.list[i].key)
       /\ r.truncated = (listed # keys)
       /\ \A k \in keys \ listed, l \in listed : Weight(flows, side, l) >= Weight(flows, side, k)

(* A preflight report that is not marked partial tells the whole truth of the  *)
(* direction it is about: every peer and port the draft would block counts     *)
(* once, with all its connections, and a list too long for the object keeps    *)
(* the heaviest and says so (QueryTraffic's len(out) >= max, classifyFlows,    *)
(* capFindings; docs/guides/preflight.md, "the true totals stay accurate").    *)
PreflightIsWhole ==
  Init /\ kind = "insight" =>
    \A traffic \in Traffics, side \in Sides, max, n \in Limits :
      PreflightTells(traffic, side, max, n)

RuleViewTells(found, eds, n) ==
  LET r == MapRules(found, eds, n)
      ours == OwnedOf(r.list, eds) IN
  /\ r.owned = Cardinality({i \in DOMAIN found : eds = "ours" /\ found[i].eds = "ours"})
  /\ r.owned + r.external = Len(found)
  /\ r.truncated = (Len(r.list) < Len(found))
  /\ \A i \in DOMAIN r.list \ ours :
       (\A j \in ours : j < i) /\ Cardinality(ours) = r.owned

(* However long the list of rules, its counts are of all of them, and a rule   *)
(* of somebody else is listed only when every rule of the operator is          *)
(* (mapRules; docs/reference/ruleview.md:43, "the counts stay exact").         *)
RuleListIsWhole ==
  Init /\ kind = "ruleview" =>
    \A found \in RuleLists, eds \in {"none", "ours"}, n \in Limits : RuleViewTells(found, eds, n)
=============================================================================
