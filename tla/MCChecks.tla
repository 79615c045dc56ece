------------------------------ MODULE MCChecks ------------------------------
(***************************************************************************)
(* Two addresses that may answer with one or two metrics.  A histogram has *)
(* series with different bucket counts, its cardinality differs from one   *)
(* response to the next, and its label is long enough to violate; the      *)
(* counter beside it stays within some limits and breaks others.           *)
(***************************************************************************)
EXTENDS Checks, TLC

CONSTANTS hist, counter, label, value, group, other, env

MCLength == (hist :> 2) @@ (counter :> 3) @@ (label :> 1) @@ (value :> 2)

Series(labels, buckets) == [labels |-> labels, buckets |-> buckets]

MCResponses ==
  LET small == [name |-> hist, series |-> <<Series({<<label, value>>}, {1})>>]
      large == [name |-> hist, series |-> <<Series({}, {2}), Series({}, {3})>>]
      plain == [name |-> counter, series |-> <<Series({}, {}), Series({}, {})>>]
  IN {[families |-> {small, plain}, weight |-> 1],
      [families |-> {large}, weight |-> 3]}

Uniform(n) == [k \in CheckTypes |-> n]
MCDefaultLimits == Uniform(2)
MCStoredLimits == {[Uniform(1) EXCEPT !["metric_name_length"] = 2]}

(* A custom limit below, one at and one above the limits in use; one is not positive. *)
MCMetricRequests ==
  {[k \in MetricCheckTypes |->
      CASE k = "cardinality" -> 1 [] k = "metric_name_length" -> 2
        [] k = "label_value_length" -> 3 [] OTHER -> -1]}

(* Two groups of one environment; tasks of one of them, with and without its label. *)
MCScopes == <<<<group, env>>, <<other, env>>>>
MCTaskLabels == {<<group, env>>, <<Empty, env>>}

MCTargetRequests == {{"response_weight", "histogram_buckets"}, {}}
=============================================================================
