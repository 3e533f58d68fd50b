------------------------------- MODULE MCReports -------------------------------
(* Reports with the content of the two kinds of report, over bounded inputs.   *)
EXTENDS ReportContent, SequencesExt

(* A peer with labels and two addresses, one without labels, and the app       *)
(* itself, as source and as destination.                                       *)
App == End(Own, 1)
Pairs == {<<End(2, 1), App>>, <<End(2, 2), App>>, <<End(0, 1), App>>, <<App, End(2, 1)>>}
Flows(ports, decisions) ==
  {Flow(x[1], x[2], port, d, n) : x \in Pairs, port \in ports, d \in decisions, n \in {1, 2}}
(* The strings of labels and of addresses alternate. *)
MCLabelsKey == [l \in 1..2 |-> 2 * l - 1]
MCIpKey == [ip \in 1..2 |-> 2 * ip]
(* Up to two flows of all sorts, or three that are blocked.                    *)
MCTraffics == BoundedSeq(Flows({1, 2}, {"allowed", "blocked", "unknown"}), 2)
              \cup SeqOf(Flows({1}, {"blocked", "potentially_blocked"}), 3)

MCRuleLists == SeqOf([name : {1, 2}, eds : {"none", "ours", "theirs"}], 3)
=============================================================================
