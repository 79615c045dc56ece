------------------------------- MODULE Checks -------------------------------
(***************************************************************************)
(* One scrape of a target group (scraper/processor.go): the limits and the *)
(* whitelists are loaded, every address is fetched, every metric family is *)
(* measured and compared with its limits, and the report turns into check  *)
(* results and violation events.  Meanwhile operators edit the whitelists  *)
(* (storage/postgres/whitelist.go); loading them takes two queries.        *)
(*                                                                         *)
(* A string is an opaque value with a length.  A row of the whitelists     *)
(* belongs to a pair (target_group, env), by its place in ORDER BY.        *)
(***************************************************************************)
EXTENDS Integers, FiniteSets, Sequences

CONSTANTS
  MetricNames, Strings,  \* metric names; label names and values
  length,          \* the length of each of them
  Responses,       \* what an address may answer: its metric families and its bytes
  NumAddresses,    \* Len(task.Addresses)
  Scopes,          \* the pairs (target_group, env) that have rows, in the order of ORDER BY
  TaskLabels,      \* the pairs of the scrape tasks
  Empty,           \* the label a scrape config does not set
  DefaultLimits,   \* Processor.defaultLimits
  StoredLimits,    \* the limits GetMetricLimits may return
  MetricRequests,  \* the checks of an UpsertMetricWhitelist request
  TargetRequests,  \* the checks of an UpsertTargetWhitelist request
  None,            \* no violation
  MaxEdits         \* bound: requests that edit the whitelists

MetricCheckTypes == {"metric_name_length", "label_name_length", "label_value_length",
                     "cardinality", "histogram_buckets"}
CheckTypes == MetricCheckTypes \union {"response_weight"}

isMetricWhitelistCheckType(k) == k \in MetricCheckTypes
isTargetWhitelistCheckType(k) == k \in CheckTypes

(***************************************************************************)
(* What handleMetricFamily measures of a family.  The subject tells apart  *)
(* the violations of one metric: its label, or its label and value.        *)
(***************************************************************************)
Measurements(f) ==
  LET Of(k, subject, n) ==
        [check |-> k, metric |-> f.name, subject |-> subject, value |-> n]
      labels == UNION {f.series[i].labels : i \in DOMAIN f.series}
      buckets == UNION {f.series[i].buckets : i \in DOMAIN f.series}
  IN {Of("metric_name_length", <<>>, length[f.name]), Of("cardinality", <<>>, Len(f.series))}
     \union {Of("label_name_length", <<l[1]>>, length[l[1]]) : l \in labels}
     \union {Of("label_value_length", l, length[l[2]]) : l \in labels}
     \union {Of("histogram_buckets", <<>>, n) : n \in buckets}

Measurement ==
  [check : MetricCheckTypes, metric : MetricNames, subject : Seq(Strings), value : Nat]
Violation ==
  [metric : MetricNames, subject : Seq(Strings), value : Nat, whitelisted : BOOLEAN]
Limits == [CheckTypes -> Nat]
CheckResult == [limit : Nat, current : Nat, violated : BOOLEAN, whitelisted : BOOLEAN]

ASSUME ChecksAssumption ==
  /\ \A r \in Responses :
       r.weight \in Nat /\ \A f \in r.families : Measurements(f) \subseteq Measurement
  /\ NumAddresses \in Nat /\ MaxEdits \in Nat
  /\ Len(Scopes) \in Nat /\ DOMAIN Scopes = 1..Len(Scopes)
  /\ \A i, j \in DOMAIN Scopes : Scopes[i] = Scopes[j] => i = j
  /\ \A i \in DOMAIN Scopes : /\ Scopes[i] = <<Scopes[i][1], Scopes[i][2]>>
                              /\ Scopes[i][1] # Empty /\ Scopes[i][2] # Empty
  /\ \A t \in TaskLabels : t = <<t[1], t[2]>>
  /\ DefaultLimits \in Limits /\ StoredLimits \subseteq Limits
  /\ MetricRequests \subseteq [MetricCheckTypes -> Int]
  /\ TargetRequests \subseteq SUBSET CheckTypes
  /\ None \notin Violation

VARIABLES
  metricsWhitelist, targetsWhitelist,  \* the tables
  pc, task,                      \* how far Process has come, and the labels of its task
  limits,                        \* the limits of this scrape
  metricChecks, disabledChecks,  \* EffectiveWhitelists
  addresses,                     \* addresses still to fetch
  families, weight,              \* the response in hand: families left, bytes read
  todo,                          \* measurements left of the family in hand
  totalProcessed,
  max,                           \* Report.max*, per check
  details,                       \* Report.Details: the violations, per check
  top,                           \* Report.Details.Max, per check
  responseWeight,                \* Report.Details.ResponseWeight
  checks,                        \* Report.Checks
  events,                        \* what SaveReports puts in the outbox
  edits,
  answered,  \* history: the responses of this scrape
  seen,      \* history: the measurements made in this scrape
  versions,  \* history: the rules in force for the task between the two queries
  faulty     \* history: a whitelist query of this scrape failed

tables == <<metricsWhitelist, targetsWhitelist>>
rules == <<metricChecks, disabledChecks>>
report == <<max, details, top, responseWeight>>
scan == <<addresses, families, weight, todo, totalProcessed, answered, seen>>
history == <<versions, faulty>>
vars == <<tables, pc, task, limits, rules, scan, report, checks, events, edits, history>>

NoChecks == [k \in {} |-> 0]
NoRules == [m \in MetricNames |-> NoChecks]
Stages == {"start", "limits", "metricRules", "targetRules", "fetch", "scan",
           "report", "saved", "failed"}

(* Custom limits of some checks, for every metric. *)
IsMetricChecks(c) ==
  /\ c = [m \in MetricNames |-> c[m]]
  /\ \A m \in MetricNames : /\ DOMAIN c[m] \subseteq MetricCheckTypes
                            /\ \A k \in DOMAIN c[m] : c[m][k] \in Nat

TablesTypeOK ==
  /\ metricsWhitelist = [i \in DOMAIN Scopes |-> metricsWhitelist[i]]
  /\ \A i \in DOMAIN Scopes : IsMetricChecks(metricsWhitelist[i])
  /\ targetsWhitelist \in [DOMAIN Scopes -> SUBSET CheckTypes]

TypeOK ==
  /\ TablesTypeOK
  /\ pc \in Stages /\ task \in TaskLabels
  /\ limits \in Limits
  /\ IsMetricChecks(metricChecks)
  /\ disabledChecks \subseteq CheckTypes
  /\ addresses \in 0..NumAddresses /\ totalProcessed \in 0..NumAddresses
  /\ weight \in Nat
  /\ todo \subseteq Measurement /\ seen \subseteq Measurement
  /\ max \in [CheckTypes -> Nat]
  /\ details \in [MetricCheckTypes -> SUBSET Violation]
  /\ top \in [MetricCheckTypes -> Violation \union {None}]
  /\ responseWeight \in Nat
  /\ DOMAIN checks \subseteq CheckTypes /\ \A k \in DOMAIN checks : checks[k] \in CheckResult
  /\ \A e \in events : e.type \in CheckTypes /\ e.limit \in Nat /\ e.current \in Nat
  /\ answered \subseteq Responses
  /\ \A f \in families : \E r \in answered : f \in r.families
  /\ edits \in 0..MaxEdits /\ faulty \in BOOLEAN

----------------------------------------------------------------------------
(* The whitelist API and its storage. *)

(* A limit that is not positive counts as not given. *)
fromMetricWhitelistChecks(r) == [k \in {j \in MetricCheckTypes : r[j] > 0} |-> r[k]]

marshalMetricChecks(c) ==
  c # NoChecks /\ \A k \in DOMAIN c : isMetricWhitelistCheckType(k) /\ c[k] > 0
marshalTargetChecks(c) == c # {} /\ \A k \in c : isTargetWhitelistCheckType(k)

(* Whether a stored row can be read back. *)
parseMetricChecksJSON(c) == \A k \in DOMAIN c : isMetricWhitelistCheckType(k) /\ c[k] > 0

parseTargetChecksJSON(c) == \A k \in c : isTargetWhitelistCheckType(k)

(***************************************************************************)
(* The rules of the rows of the scopes S: of two rows for a metric the     *)
(* later one replaces the other, and a check is disabled if any row says   *)
(* so (GetEffectiveWhitelists).                                            *)
(***************************************************************************)
RowsOf(m, S) == {i \in S : metricsWhitelist[i][m] # NoChecks}
LastRow(R) == CHOOSE i \in R : \A j \in R : j <= i
MetricRules(S) ==
  [m \in MetricNames |->
     IF RowsOf(m, S) = {} THEN NoChecks ELSE metricsWhitelist[LastRow(RowsOf(m, S))][m]]
TargetRules(S) == UNION {targetsWhitelist[i] : i \in S}

(* Mutant: a row is selected when one of its labels is. *)
SelectedByEither == {i \in DOMAIN Scopes : \E j \in 1..2 : task[j] \in {Empty, Scopes[i][j]}}

(* WHERE ($1 = '' OR target_group = $1) AND ($2 = '' OR env = $2) *)
Selected == {i \in DOMAIN Scopes : \A j \in 1..2 : task[j] \in {Empty, Scopes[i][j]}}

(* The rows meant for the task: its own, if both labels are set. *)
Addressed ==
  IF task[1] = Empty \/ task[2] = Empty THEN Selected ELSE {i \in DOMAIN Scopes : Scopes[i] = task}
InForce == <<MetricRules(Addressed), TargetRules(Addressed)>>

(* An edit, noted if a scrape is between its two queries. *)
Edit ==
  /\ edits < MaxEdits /\ edits' = edits + 1
  /\ UNCHANGED <<pc, task, limits, rules, scan, report, checks, events, faulty>>
  /\ versions' = IF pc = "targetRules"
                 THEN versions \union {InForce'}
                 ELSE versions

UpsertMetricWhitelist(i, m, r) ==
  /\ marshalMetricChecks(fromMetricWhitelistChecks(r))
  /\ metricsWhitelist' = [metricsWhitelist EXCEPT ![i][m] = fromMetricWhitelistChecks(r)]
  /\ UNCHANGED targetsWhitelist
  /\ Edit

DeleteMetricWhitelist(i, m) ==
  /\ metricsWhitelist' = [metricsWhitelist EXCEPT ![i][m] = NoChecks]
  /\ UNCHANGED targetsWhitelist
  /\ Edit

UpsertTargetWhitelist(i, c) ==
  /\ marshalTargetChecks(c)
  /\ targetsWhitelist' = [targetsWhitelist EXCEPT ![i] = c]
  /\ UNCHANGED metricsWhitelist
  /\ Edit

DeleteTargetWhitelist(i) ==
  /\ targetsWhitelist' = [targetsWhitelist EXCEPT ![i] = {}]
  /\ UNCHANGED metricsWhitelist
  /\ Edit

----------------------------------------------------------------------------
(* Process: the limits and the whitelists. *)

NewReport ==
  /\ max' = [k \in CheckTypes |-> 0]
  /\ details' = [k \in MetricCheckTypes |-> {}]
  /\ top' = [k \in MetricCheckTypes |-> None]
  /\ responseWeight' = 0

(* A worker takes the next task. *)
Process ==
  /\ pc \in {"start", "saved", "failed"}
  /\ pc' = "limits" /\ task' \in TaskLabels
  /\ NewReport
  /\ metricChecks' = NoRules /\ disabledChecks' = {}
  /\ limits' = DefaultLimits
  /\ addresses' = NumAddresses /\ totalProcessed' = 0
  /\ families' = {} /\ weight' = 0 /\ todo' = {}
  /\ checks' = NoChecks /\ events' = {}
  /\ answered' = {} /\ seen' = {} /\ versions' = {} /\ faulty' = FALSE
  /\ UNCHANGED <<tables, edits>>

(* What the operators stored, or the defaults if that cannot be read. *)
GetMetricLimits ==
  /\ pc = "limits" /\ pc' = "metricRules"
  /\ limits' \in StoredLimits \union {limits}
  /\ UNCHANGED <<tables, task, rules, scan, report, checks, events, edits, history>>

(* GetEffectiveWhitelists: the first query ... *)
ListMetricWhitelist ==
  /\ pc = "metricRules" /\ pc' = "targetRules"
  /\ \A i \in Selected, m \in MetricNames : parseMetricChecksJSON(metricsWhitelist[i][m])
  /\ metricChecks' = MetricRules(Selected)
  /\ versions' = {InForce}
  /\ UNCHANGED <<tables, task, limits, disabledChecks, scan, report, checks, events, edits, faulty>>

(* ... and the second. *)
ListTargetWhitelist ==
  /\ pc = "targetRules" /\ pc' = "fetch"
  /\ \A i \in Selected : parseTargetChecksJSON(targetsWhitelist[i])
  /\ disabledChecks' = TargetRules(Selected)
  /\ UNCHANGED <<tables, task, limits, metricChecks, scan, report, checks, events, edits, history>>

(* The rows the next query returns cannot all be read. *)
Unreadable ==
  \E i \in Selected :
    IF pc = "metricRules"
    THEN \E m \in MetricNames : ~parseMetricChecksJSON(metricsWhitelist[i][m])
    ELSE ~parseTargetChecksJSON(targetsWhitelist[i])

(* A query fails, or a row cannot be read: the scrape goes on without whitelists. *)
LoadFails ==
  /\ pc \in {"metricRules", "targetRules"} /\ pc' = "fetch"
  /\ faulty' \in IF Unreadable THEN BOOLEAN ELSE {TRUE}
  /\ metricChecks' = NoRules /\ disabledChecks' = {}
  /\ UNCHANGED <<tables, task, limits, scan, report, checks, events, edits, versions>>

----------------------------------------------------------------------------
(* Process: the addresses, one after the other. *)

IsCheckDisabled(k) == k \in disabledChecks
MetricCustomLimit(m, k) == k \in DOMAIN metricChecks[m]

metricCheckLimit(m, k) == IF MetricCustomLimit(m, k) THEN metricChecks[m][k] ELSE limits[k]

GetTargetMetrics(r) ==
  /\ pc = "fetch" /\ addresses > 0 /\ pc' = "scan"
  /\ families' = r.families /\ weight' = r.weight
  /\ answered' = answered \union {r}
  /\ UNCHANGED <<tables, task, limits, rules, addresses, todo, totalProcessed, seen, report,
                 checks, events, edits, history>>

(* The address cannot be fetched or parsed. *)
FetchFails ==
  /\ pc = "fetch" /\ addresses > 0
  /\ addresses' = addresses - 1
  /\ UNCHANGED <<tables, pc, task, limits, rules, families, weight, todo, totalProcessed, answered,
                 seen, report, checks, events, edits, history>>

(* The families come out of a map: in any order. *)
handleMetricFamily(f) ==
  /\ pc = "scan" /\ todo = {}
  /\ families' = families \ {f}
  /\ todo' = Measurements(f)
  /\ UNCHANGED <<tables, pc, task, limits, rules, addresses, weight, totalProcessed, answered, seen,
                 report, checks, events, edits, history>>

SameSubject(v, w) == v.metric = w.metric /\ v.subject = w.subject

(* Mutant: the violation met last replaces the one before. *)
addViolationLast(violations, v) == {w \in violations : ~SameSubject(w, v)} \union {v}

(* add*Violation: one violation per subject, the largest. *)
addViolation(violations, v) ==
  IF \E w \in violations : SameSubject(w, v) /\ v.value <= w.value
  THEN violations
  ELSE {w \in violations : ~SameSubject(w, v)} \union {v}

updateMax(t, v) == IF t = None \/ v.value > t.value THEN v ELSE t

(***************************************************************************)
(* One measurement against its limit.  The model takes the measurements of *)
(* a family in any order, the code's among them.                           *)
(***************************************************************************)
checkMetric(o) ==
  LET k == o.check
      v == [metric |-> o.metric, subject |-> o.subject, value |-> o.value,
            whitelisted |-> MetricCustomLimit(o.metric, k)]
  IN /\ todo' = todo \ {o} /\ seen' = seen \union {o}
     /\ max' = IF ~IsCheckDisabled(k) /\ o.value > max[k]
               THEN [max EXCEPT ![k] = o.value] ELSE max
     /\ IF ~IsCheckDisabled(k) /\ o.value > metricCheckLimit(o.metric, k)
        THEN /\ details' = [details EXCEPT ![k] = addViolation(details[k], v)]
             /\ top' = [top EXCEPT ![k] = updateMax(top[k], v)]
        ELSE UNCHANGED <<details, top>>
     /\ UNCHANGED <<tables, pc, task, limits, rules, addresses, families, weight, totalProcessed,
                    answered, responseWeight, checks, events, edits, history>>

(* Mutant: a response at the limit is shown as too heavy. *)
checkResponseWeightAtLimit ==
  LET on == ~IsCheckDisabled("response_weight")
  IN /\ pc = "scan" /\ todo = {} /\ families = {} /\ pc' = "fetch"
     /\ addresses' = addresses - 1 /\ totalProcessed' = totalProcessed + 1
     /\ max' = IF on /\ weight > max["response_weight"]
               THEN [max EXCEPT !["response_weight"] = weight] ELSE max
     /\ responseWeight' = IF on /\ limits["response_weight"] <= weight /\ responseWeight < weight
                          THEN weight ELSE responseWeight
     /\ UNCHANGED <<tables, task, limits, rules, families, weight, todo, answered, seen, details, top,
                    checks, events, edits, history>>

(* All families of the response are done: its bytes, and on to the next address. *)
checkResponseWeight ==
  LET on == ~IsCheckDisabled("response_weight")
  IN /\ pc = "scan" /\ todo = {} /\ families = {} /\ pc' = "fetch"
     /\ addresses' = addresses - 1 /\ totalProcessed' = totalProcessed + 1
     /\ max' = IF on /\ weight > max["response_weight"]
               THEN [max EXCEPT !["response_weight"] = weight] ELSE max
     /\ responseWeight' = IF on /\ limits["response_weight"] < weight /\ responseWeight < weight
                          THEN weight ELSE responseWeight
     /\ UNCHANGED <<tables, task, limits, rules, families, weight, todo, answered, seen, details, top,
                    checks, events, edits, history>>

----------------------------------------------------------------------------
(* Process: the results. *)

(* Mutant: one whitelisted violation makes the whole check whitelisted. *)
anyWhitelisted(k) == \E v \in details[k] : v.whitelisted

allWhitelisted(k) == \A v \in details[k] : v.whitelisted

(* The result of a check that is not disabled. *)
checkResult(k) ==
  IF k = "response_weight"
  THEN [limit |-> limits[k], current |-> max[k], violated |-> max[k] > limits[k],
        whitelisted |-> FALSE]
  ELSE [limit |-> limits[k], current |-> max[k], violated |-> details[k] # {},
        whitelisted |-> details[k] # {} /\ allWhitelisted(k)]

buildCheckResults ==
  /\ pc = "fetch" /\ addresses = 0 /\ totalProcessed # 0
  /\ pc' = "report"
  /\ checks' = [k \in {j \in CheckTypes : ~IsCheckDisabled(j)} |-> checkResult(k)]
  /\ UNCHANGED <<tables, task, limits, rules, scan, report, events, edits, history>>

(* No address answered: the scrape is an error and there is no report. *)
ProcessFails ==
  /\ pc = "fetch" /\ addresses = 0 /\ totalProcessed = 0
  /\ pc' = "failed"
  /\ UNCHANGED <<tables, task, limits, rules, scan, report, checks, events, edits, history>>

(* SaveReports: one event for every check violated and not whitelisted. *)
buildViolationOutboxEvents ==
  /\ pc = "report" /\ pc' = "saved"
  /\ events' = {[type |-> k, limit |-> checks[k].limit, current |-> checks[k].current] :
                  k \in {j \in DOMAIN checks : checks[j].violated /\ ~checks[j].whitelisted}}
  /\ UNCHANGED <<tables, task, limits, rules, scan, report, checks, edits, history>>

----------------------------------------------------------------------------
(***************************************************************************)
(* What the API shows of the saved report (GetTargetGroup).  The violation *)
(* goes out without its whitelist flag.  The stored limits and values,     *)
(* which stand in for missing check results, are missing with them.        *)
(***************************************************************************)
Shown(v) == [metric |-> v.metric, subject |-> v.subject, value |-> v.value]

toViolationStats == [k \in MetricCheckTypes |-> Cardinality(details[k])]
toCheckMetrics ==
  [k \in DOMAIN checks |-> [limit |-> checks[k].limit, current |-> checks[k].current]]
toViolationDetails ==
  [violations |-> [k \in MetricCheckTypes |-> {Shown(v) : v \in details[k]}],
   max |-> [k \in {j \in MetricCheckTypes : top[j] # None} |-> Shown(top[k])],
   responseWeight |-> responseWeight,
   checks |-> toCheckMetrics]

----------------------------------------------------------------------------
(* Nothing is whitelisted, and no scrape yet. *)
Init ==
  /\ metricsWhitelist = [i \in DOMAIN Scopes |-> NoRules]
  /\ targetsWhitelist = [i \in DOMAIN Scopes |-> {}]
  /\ task \in TaskLabels
  /\ pc = "start"
  /\ limits = DefaultLimits
  /\ metricChecks = NoRules /\ disabledChecks = {}
  /\ addresses = 0 /\ totalProcessed = 0
  /\ families = {} /\ weight = 0 /\ todo = {}
  /\ max = [k \in CheckTypes |-> 0]
  /\ details = [k \in MetricCheckTypes |-> {}]
  /\ top = [k \in MetricCheckTypes |-> None]
  /\ responseWeight = 0
  /\ checks = NoChecks /\ events = {} /\ edits = 0
  /\ answered = {} /\ seen = {} /\ versions = {} /\ faulty = FALSE

EditWhitelists ==
  \E i \in DOMAIN Scopes :
    \/ \E m \in MetricNames : \/ \E r \in MetricRequests : UpsertMetricWhitelist(i, m, r)
                              \/ DeleteMetricWhitelist(i, m)
    \/ \E c \in TargetRequests : UpsertTargetWhitelist(i, c)
    \/ DeleteTargetWhitelist(i)

ScrapeAddress ==
  \/ \E r \in Responses : GetTargetMetrics(r)
  \/ FetchFails
  \/ \E f \in families : handleMetricFamily(f)
  \/ \E o \in todo : checkMetric(o)
  \/ checkResponseWeight

Next ==
  \/ EditWhitelists
  \/ Process \/ GetMetricLimits
  \/ ListMetricWhitelist \/ ListTargetWhitelist \/ LoadFails
  \/ ScrapeAddress
  \/ buildCheckResults \/ ProcessFails \/ buildViolationOutboxEvents

Spec == Init /\ [][Next]_vars

----------------------------------------------------------------------------
(* Everything the answering addresses of this scrape exposed. *)
Measured == UNION {UNION {Measurements(f) : f \in r.families} : r \in answered}

(* The measurements among S that a check looks at, and those over their limit. *)
Checked(S, k) == {o \in S : o.check = k /\ ~IsCheckDisabled(k)}
Violating(S, k) == {o \in Checked(S, k) : o.value > metricCheckLimit(o.metric, k)}

MaxIsExact(S, k) ==
  /\ \A o \in Checked(S, k) : o.value <= max[k]
  /\ max[k] = 0 \/ \E o \in Checked(S, k) : o.value = max[k]

DetailsAreExact(S, k) ==
  /\ \A v \in details[k] :
       /\ \E o \in Violating(S, k) : SameSubject(o, v) /\ o.value = v.value
       /\ v.whitelisted = MetricCustomLimit(v.metric, k)
       /\ \A w \in details[k] : SameSubject(v, w) => v = w
  /\ \A o \in Violating(S, k) : \E v \in details[k] : SameSubject(o, v) /\ o.value <= v.value

TopIsExact(k) ==
  IF details[k] = {} THEN top[k] = None
  ELSE top[k] \in details[k] /\ \A v \in details[k] : v.value <= top[k].value

(***************************************************************************)
(* Whatever the order of families, series and addresses, and however often *)
(* a metric comes back from another address: the report holds, for every   *)
(* check, the largest value, each violating subject once with its largest  *)
(* value, and a largest violation as the maximum (Process, addViolation,   *)
(* updateMax).                                                             *)
(***************************************************************************)
ReportIsExact ==
  pc \in {"report", "saved"} =>
    \A k \in MetricCheckTypes :
      MaxIsExact(Measured, k) /\ DetailsAreExact(Measured, k) /\ TopIsExact(k)

(***************************************************************************)
(* An event leaves for a check exactly if the check is not disabled and    *)
(* some answering address exposed a metric over the limit that has no      *)
(* custom limit, or was too heavy; a whitelisted metric neither raises nor *)
(* hides an alarm.  The event's value is over the limit it names           *)
(* (buildCheckResults, buildViolationOutboxEvents).                        *)
(***************************************************************************)
Alarming(k) ==
  /\ ~IsCheckDisabled(k)
  /\ IF k = "response_weight"
     THEN \E r \in answered : r.weight > limits[k]
     ELSE \E o \in Measured : /\ o.check = k /\ o.value > limits[k]
                              /\ ~MetricCustomLimit(o.metric, k)

AlarmsAreExact ==
  pc = "saved" =>
    /\ \A k \in CheckTypes : (\E e \in events : e.type = k) <=> Alarming(k)
    /\ \A e \in events : e.limit = limits[e.type] /\ e.current > e.limit

(***************************************************************************)
(* Whoever follows an event to the API finds its cause there: the check    *)
(* with the limit and value of the event, and a listed violation over that *)
(* limit, or the weight that was too large.  Of a check that is disabled   *)
(* the API shows nothing.  The event comes from the maxima and the API     *)
(* from Report.Details, which are kept apart (Process, toViolationDetails, *)
(* toViolationStats, toCheckMetrics).                                      *)
(***************************************************************************)
AlarmsAreShown ==
  pc = "saved" =>
    LET view == toViolationDetails
    IN /\ \A e \in events :
            /\ e.type \in DOMAIN view.checks
            /\ view.checks[e.type] = [limit |-> e.limit, current |-> e.current]
            /\ e.type # "response_weight" =>
                 /\ toViolationStats[e.type] > 0
                 /\ view.max[e.type] \in view.violations[e.type]
                 /\ view.max[e.type].value > e.limit
       /\ IF \E e \in events : e.type = "response_weight"
          THEN view.responseWeight = max["response_weight"]
          ELSE view.responseWeight = 0
       /\ \A k \in disabledChecks :
            k \notin DOMAIN view.checks /\ (k # "response_weight" => toViolationStats[k] = 0)

(***************************************************************************)
(* A scrape runs under the whitelists of its own target group and env that *)
(* were in force together: what it loaded is one state they had between    *)
(* the two queries, as long as they were in no more than two.  Without one *)
(* of the labels the rows of every value of that label count.  It runs     *)
(* without whitelists only if a query failed; what the API stored can      *)
(* always be read (GetEffectiveWhitelists, Process).                       *)
(***************************************************************************)
RulesWereInForce ==
  pc \in {"fetch", "scan", "report", "saved", "failed"} =>
    \/ faulty /\ rules = <<NoRules, {}>>
    \/ ~faulty /\ (rules \in versions \/ Cardinality(versions) > 2)
=============================================================================
