---------------------------- MODULE ChecksProofs ----------------------------
(* Proofs about Checks, for any metrics, responses, limits and whitelists. *)
EXTENDS Checks, FiniteSetTheorems, WellFoundedInduction, TLAPS

(* An address in hand still counts as one to fetch. *)
Progress == /\ totalProcessed + addresses <= NumAddresses
            /\ pc = "scan" => addresses > 0

(* A scrape starts with empty whitelists, which have their type. *)
LEMMA NoRulesType == IsMetricChecks(NoRules)
  BY DEF IsMetricChecks, NoRules, NoChecks

(* What the API stores has its type. *)
LEMMA StorableType ==
  ASSUME NEW r \in MetricRequests
  PROVE  LET c == fromMetricWhitelistChecks(r)
         IN DOMAIN c \subseteq MetricCheckTypes /\ \A k \in DOMAIN c : c[k] \in Nat
  BY ChecksAssumption DEF fromMetricWhitelistChecks

(* Replacing the row of one metric keeps the type of the table. *)
LEMMA RowType ==
  ASSUME NEW t, IsMetricChecks(t), NEW m \in MetricNames, NEW c,
         DOMAIN c \subseteq MetricCheckTypes, \A k \in DOMAIN c : c[k] \in Nat
  PROVE  IsMetricChecks([t EXCEPT ![m] = c])
  BY DEF IsMetricChecks

(* The report keeps its type when a violation is added. *)
LEMMA AddedType ==
  ASSUME NEW S \in SUBSET Violation, NEW v \in Violation
  PROVE  addViolation(S, v) \in SUBSET Violation
  BY DEF addViolation

----------------------------------------------------------------------------
(* Of finitely many rows one is the last, so that LastRow is one of them. *)
LEMMA LastRowIn ==
  ASSUME NEW R, R \subseteq DOMAIN Scopes, R # {}
  PROVE  LastRow(R) \in R
<1> DEFINE n == Len(Scopes)
           T == {n - i : i \in R}
           less == {ss \in Nat \X Nat : ss[1] < ss[2]}
<1>0. n \in Nat /\ \A i \in R : i \in Nat /\ n - i \in Nat BY ChecksAssumption
<1> HIDE DEF n
<1>1. T \subseteq Nat /\ T # {} BY <1>0
<1>2. IsWellFoundedOn(less, Nat) BY NatLessThanWellFounded DEF OpToRel
<1>3. PICK x \in T : \A y \in T : ~(<<y, x>> \in less)
  <2> HIDE DEF T, less
  <2> QED BY <1>1, <1>2, WFMin
<1>4. PICK i \in R : x = n - i OBVIOUS
<1>5. ASSUME NEW j \in R PROVE j <= i
  <2>1. n - j \in T OBVIOUS
  <2>2. ~(n - j < n - i) BY <1>0, <1>3, <1>4, <2>1
  <2> QED BY <1>0, <2>2
<1> QED BY <1>5 DEF LastRow

(* What the two queries return has its type. *)
LEMMA RulesType ==
  ASSUME TablesTypeOK, NEW S, S \subseteq DOMAIN Scopes
  PROVE  IsMetricChecks(MetricRules(S)) /\ TargetRules(S) \subseteq CheckTypes
<1>1. ASSUME NEW m \in MetricNames
      PROVE  LET c == MetricRules(S)[m]
             IN DOMAIN c \subseteq MetricCheckTypes /\ \A k \in DOMAIN c : c[k] \in Nat
  <2>1. CASE RowsOf(m, S) = {}
    <3>1. MetricRules(S)[m] = NoChecks BY <2>1 DEF MetricRules
    <3> QED BY <3>1 DEF NoChecks
  <2>2. CASE RowsOf(m, S) # {}
    <3> DEFINE i == LastRow(RowsOf(m, S))
    <3>1. i \in DOMAIN Scopes BY <2>2, LastRowIn DEF RowsOf
    <3>2. MetricRules(S)[m] = metricsWhitelist[i][m] BY <2>2 DEF MetricRules
    <3> HIDE DEF i
    <3> QED BY <3>1, <3>2 DEF TablesTypeOK, IsMetricChecks
  <2> QED BY <2>1, <2>2
<1>2. MetricRules(S) = [m \in MetricNames |-> MetricRules(S)[m]] BY DEF MetricRules
<1>3. TargetRules(S) \subseteq CheckTypes
  <2>1. ASSUME NEW i \in S PROVE targetsWhitelist[i] \subseteq CheckTypes BY DEF TablesTypeOK
  <2> QED BY <2>1 DEF TargetRules
<1> QED BY <1>1, <1>2, <1>3 DEF IsMetricChecks

LEMMA TablesSame ==
  ASSUME TablesTypeOK, UNCHANGED tables
  PROVE  TablesTypeOK'
  BY DEF TablesTypeOK, IsMetricChecks, tables

LEMMA TypeInit == Init => TypeOK
<1> SUFFICES ASSUME Init PROVE TypeOK OBVIOUS
<1>1. TablesTypeOK BY NoRulesType DEF Init, TablesTypeOK
<1>3. limits \in Limits /\ task \in TaskLabels BY ChecksAssumption DEF Init
<1>4. IsMetricChecks(metricChecks) BY NoRulesType DEF Init
<1>5. max \in [CheckTypes -> Nat] BY DEF Init
<1>6. details \in [MetricCheckTypes -> SUBSET Violation] BY DEF Init
<1>7. top \in [MetricCheckTypes -> Violation \union {None}] BY DEF Init
<1>8. DOMAIN checks = {} BY DEF Init, NoChecks
<1>9. /\ pc \in Stages /\ disabledChecks = {} /\ addresses = 0 /\ totalProcessed = 0
      /\ weight = 0 /\ todo = {} /\ seen = {} /\ responseWeight = 0 /\ events = {}
      /\ answered = {} /\ families = {} /\ edits = 0 /\ faulty = FALSE
  BY DEF Init, Stages
<1>10. /\ addresses \in 0..NumAddresses /\ totalProcessed \in 0..NumAddresses
       /\ edits \in 0..MaxEdits /\ weight \in Nat /\ responseWeight \in Nat
  BY <1>9, ChecksAssumption
<1>11. /\ DOMAIN checks \subseteq CheckTypes /\ \A k \in DOMAIN checks : checks[k] \in CheckResult
       /\ \A e \in events : e.type \in CheckTypes /\ e.limit \in Nat /\ e.current \in Nat
       /\ \A f \in families : \E r \in answered : f \in r.families
  BY <1>8, <1>9
<1>12. faulty \in BOOLEAN BY <1>9
<1>13. /\ todo \subseteq Measurement /\ seen \subseteq Measurement /\ answered \subseteq Responses
       /\ disabledChecks \subseteq CheckTypes
  BY <1>9
<1> QED BY <1>1, <1>3, <1>4, <1>5, <1>6, <1>7, <1>9, <1>10, <1>11, <1>12, <1>13, Zenon DEF TypeOK

(* An edit touches the tables only. *)
LEMMA TypeEdit ==
  ASSUME TypeOK, Edit, TablesTypeOK'
  PROVE  TypeOK'
  BY ChecksAssumption DEF TypeOK, Edit, rules, scan, report, IsMetricChecks

(* Replacing the checks of one metric in one row keeps the type of the table. *)
LEMMA MetricTableType ==
  ASSUME TablesTypeOK, NEW i \in DOMAIN Scopes, NEW m \in MetricNames, NEW c,
         DOMAIN c \subseteq MetricCheckTypes, \A k \in DOMAIN c : c[k] \in Nat,
         metricsWhitelist' = [metricsWhitelist EXCEPT ![i][m] = c],
         UNCHANGED targetsWhitelist
  PROVE  TablesTypeOK'
<1> DEFINE row == [metricsWhitelist[i] EXCEPT ![m] = c]
<1>1. IsMetricChecks(row) BY RowType DEF TablesTypeOK
<1> HIDE DEF row
<1>2. metricsWhitelist' = [metricsWhitelist EXCEPT ![i] = row] BY DEF row
<1>3. ASSUME NEW j \in DOMAIN Scopes PROVE IsMetricChecks(metricsWhitelist[j])'
  <2>1. metricsWhitelist'[j] = IF j = i THEN row ELSE metricsWhitelist[j]
    BY <1>2 DEF TablesTypeOK
  <2> QED BY <1>1, <2>1 DEF TablesTypeOK, IsMetricChecks
<1>4. metricsWhitelist' = [j \in DOMAIN Scopes |-> metricsWhitelist'[j]]
  BY <1>2 DEF TablesTypeOK
<1> QED BY <1>3, <1>4 DEF TablesTypeOK

LEMMA TargetTableType ==
  ASSUME TablesTypeOK, NEW i \in DOMAIN Scopes, NEW c, c \subseteq CheckTypes,
         targetsWhitelist' = [targetsWhitelist EXCEPT ![i] = c],
         UNCHANGED metricsWhitelist
  PROVE  TablesTypeOK'
<1>1. (targetsWhitelist \in [DOMAIN Scopes -> SUBSET CheckTypes])' BY DEF TablesTypeOK
<1> QED BY <1>1 DEF TablesTypeOK, IsMetricChecks

LEMMA TypeEditWhitelists == TypeOK /\ EditWhitelists => TypeOK'
<1> SUFFICES ASSUME TypeOK, NEW i \in DOMAIN Scopes,
                    \/ \E m \in MetricNames : \/ \E r \in MetricRequests :
                                                   UpsertMetricWhitelist(i, m, r)
                                              \/ DeleteMetricWhitelist(i, m)
                    \/ \E c \in TargetRequests : UpsertTargetWhitelist(i, c)
                    \/ DeleteTargetWhitelist(i)
             PROVE TypeOK'
  BY DEF EditWhitelists
<1>0. TablesTypeOK BY DEF TypeOK
<1>1. ASSUME NEW m \in MetricNames, NEW r \in MetricRequests, UpsertMetricWhitelist(i, m, r)
      PROVE TypeOK'
  <2>1. TablesTypeOK'
    BY <1>0, <1>1, StorableType, MetricTableType DEF UpsertMetricWhitelist
  <2> QED BY <1>1, <2>1, TypeEdit DEF UpsertMetricWhitelist
<1>2. ASSUME NEW m \in MetricNames, DeleteMetricWhitelist(i, m) PROVE TypeOK'
  <2>1. TablesTypeOK'
    BY <1>0, <1>2, MetricTableType DEF DeleteMetricWhitelist, NoChecks
  <2> QED BY <1>2, <2>1, TypeEdit DEF DeleteMetricWhitelist
<1>3. ASSUME NEW c \in TargetRequests, UpsertTargetWhitelist(i, c) PROVE TypeOK'
  <2>1. c \subseteq CheckTypes BY ChecksAssumption
  <2>2. TablesTypeOK' BY <1>0, <1>3, <2>1, TargetTableType DEF UpsertTargetWhitelist
  <2> QED BY <1>3, <2>2, TypeEdit DEF UpsertTargetWhitelist
<1>4. CASE DeleteTargetWhitelist(i)
  <2>1. {} \subseteq CheckTypes OBVIOUS
  <2>2. /\ targetsWhitelist' = [targetsWhitelist EXCEPT ![i] = {}]
        /\ UNCHANGED metricsWhitelist /\ Edit
    BY <1>4 DEF DeleteTargetWhitelist
  <2>3. TablesTypeOK' BY <1>0, <2>1, <2>2, TargetTableType
  <2> QED BY <2>2, <2>3, TypeEdit
<1> QED BY <1>1, <1>2, <1>3, <1>4

(* The families in hand are those of a response, so that what they measure is typed. *)
LEMMA MeasurementsType ==
  ASSUME TypeOK, NEW f \in families
  PROVE  Measurements(f) \subseteq Measurement
  BY ChecksAssumption DEF TypeOK

LEMMA ViolationType ==
  ASSUME NEW o \in Measurement
  PROVE  [metric |-> o.metric, subject |-> o.subject, value |-> o.value,
          whitelisted |-> MetricCustomLimit(o.metric, o.check)] \in Violation
  BY DEF Measurement, Violation, MetricCustomLimit

LEMMA TypeCheckMetric == ASSUME TypeOK, NEW o \in todo, checkMetric(o) PROVE TypeOK'
<1> DEFINE k == o.check
           v == [metric |-> o.metric, subject |-> o.subject, value |-> o.value,
                 whitelisted |-> MetricCustomLimit(o.metric, k)]
<1>1. o \in Measurement /\ k \in MetricCheckTypes /\ k \in CheckTypes /\ o.value \in Nat
  BY DEF TypeOK, Measurement, CheckTypes
<1>2. v \in Violation BY <1>1, ViolationType
<1>3. max' \in [CheckTypes -> Nat] BY <1>1 DEF TypeOK, checkMetric
<1>4. details' \in [MetricCheckTypes -> SUBSET Violation]
  <2>1. addViolation(details[k], v) \in SUBSET Violation
    BY <1>1, <1>2, AddedType DEF TypeOK
  <2> HIDE DEF v
  <2> QED BY <1>1, <2>1 DEF TypeOK, checkMetric, v
<1>5. top' \in [MetricCheckTypes -> Violation \union {None}]
  <2>1. updateMax(top[k], v) \in Violation \union {None}
    BY <1>1, <1>2 DEF TypeOK, updateMax
  <2> HIDE DEF v
  <2> QED BY <1>1, <2>1 DEF TypeOK, checkMetric, v
<1>6. todo' \subseteq Measurement /\ seen' \subseteq Measurement
  BY <1>1 DEF TypeOK, checkMetric
<1> HIDE DEF k, v
<1>7. UNCHANGED <<tables, pc, task, limits, rules, addresses, families, weight, totalProcessed,
                  answered, responseWeight, checks, events, edits, history>>
  BY DEF checkMetric
<1>8. TablesTypeOK' BY <1>7, TablesSame DEF TypeOK
<1> QED
  BY <1>3, <1>4, <1>5, <1>6, <1>7, <1>8 DEF TypeOK, rules, history, IsMetricChecks

LEMMA TypeScrapeAddress == TypeOK /\ Progress /\ ScrapeAddress => TypeOK'
<1> SUFFICES ASSUME TypeOK, Progress, ScrapeAddress PROVE TypeOK' OBVIOUS
<1>0. TablesTypeOK BY DEF TypeOK
<1> USE DEF rules, report, scan, history
<1>1. ASSUME NEW r \in Responses, GetTargetMetrics(r) PROVE TypeOK'
  BY <1>0, <1>1, TablesSame, ChecksAssumption DEF TypeOK, GetTargetMetrics, IsMetricChecks, Stages
<1>2. CASE FetchFails
  BY <1>0, <1>2, TablesSame, ChecksAssumption DEF TypeOK, FetchFails, IsMetricChecks
<1>3. ASSUME NEW f \in families, handleMetricFamily(f) PROVE TypeOK'
  BY <1>0, <1>3, TablesSame, MeasurementsType DEF TypeOK, handleMetricFamily, IsMetricChecks
<1>4. ASSUME NEW o \in todo, checkMetric(o) PROVE TypeOK'
  BY <1>4, TypeCheckMetric
<1>5. CASE checkResponseWeight
  <2>1. addresses' \in 0..NumAddresses /\ totalProcessed' \in 0..NumAddresses
    BY <1>5, ChecksAssumption DEF TypeOK, Progress, checkResponseWeight
  <2>2. max' \in [CheckTypes -> Nat] /\ responseWeight' \in Nat
    BY <1>5 DEF TypeOK, checkResponseWeight
  <2> QED BY <1>0, <1>5, <2>1, <2>2, TablesSame DEF TypeOK, checkResponseWeight, IsMetricChecks, Stages
<1> QED BY <1>0, <1>1, TablesSame, <1>2, <1>3, <1>4, <1>5 DEF ScrapeAddress

LEMMA CheckResultType ==
  ASSUME TypeOK, NEW k \in CheckTypes
  PROVE  checkResult(k) \in CheckResult
  BY DEF TypeOK, checkResult, CheckResult, CheckTypes, Limits

LEMMA TypeStep == TypeOK /\ Progress /\ [Next]_vars => TypeOK'
<1> SUFFICES ASSUME TypeOK, Progress, [Next]_vars PROVE TypeOK' OBVIOUS
<1>0. TablesTypeOK BY DEF TypeOK
<1> USE DEF rules, report, scan, history
<1>1. CASE EditWhitelists BY <1>1, TypeEditWhitelists
<1>2. CASE Process
  <2>1. IsMetricChecks(metricChecks') /\ TablesTypeOK'
    BY <1>0, <1>2, NoRulesType, TablesSame DEF Process
  <2>2. /\ max' \in [CheckTypes -> Nat]
        /\ details' \in [MetricCheckTypes -> SUBSET Violation]
        /\ top' \in [MetricCheckTypes -> Violation \union {None}]
        /\ responseWeight' \in Nat
    BY <1>2 DEF Process, NewReport
  <2>3. limits' \in Limits /\ addresses' \in 0..NumAddresses /\ totalProcessed' \in 0..NumAddresses
    BY <1>2, ChecksAssumption DEF Process
  <2>4. DOMAIN checks' = {} BY <1>2 DEF Process, NoChecks
  <2>5. /\ pc' \in Stages /\ disabledChecks' = {} /\ weight' = 0 /\ todo' = {} /\ seen' = {}
        /\ events' = {} /\ answered' = {} /\ families' = {} /\ faulty' \in BOOLEAN
        /\ UNCHANGED edits /\ task' \in TaskLabels
    BY <1>2 DEF Process, Stages
  <2> QED BY <2>1, <2>2, <2>3, <2>4, <2>5 DEF TypeOK
<1>3. CASE GetMetricLimits
  BY <1>0, <1>3, TablesSame, ChecksAssumption DEF TypeOK, GetMetricLimits, IsMetricChecks, Stages
<1>4. CASE ListMetricWhitelist
  <2>1. IsMetricChecks(metricChecks')
    BY <1>0, <1>4, RulesType DEF ListMetricWhitelist, Selected
  <2>2. TablesTypeOK' BY <1>0, <1>4, TablesSame DEF ListMetricWhitelist
  <2> QED BY <1>4, <2>1, <2>2 DEF TypeOK, ListMetricWhitelist, Stages
<1>5. CASE ListTargetWhitelist
  <2>1. disabledChecks' \subseteq CheckTypes
    BY <1>0, <1>5, RulesType DEF ListTargetWhitelist, Selected
  <2>2. TablesTypeOK' BY <1>0, <1>5, TablesSame DEF ListTargetWhitelist
  <2> QED BY <1>5, <2>1, <2>2 DEF TypeOK, ListTargetWhitelist, IsMetricChecks, Stages
<1>6. CASE LoadFails
  BY <1>0, <1>6, TablesSame, NoRulesType DEF TypeOK, LoadFails, IsMetricChecks, Stages
<1>7. CASE ScrapeAddress BY <1>7, TypeScrapeAddress
<1>8. CASE buildCheckResults
  BY <1>0, <1>8, TablesSame, CheckResultType DEF TypeOK, buildCheckResults, IsMetricChecks, Stages
<1>9. CASE ProcessFails
  BY <1>0, <1>9, TablesSame DEF TypeOK, ProcessFails, IsMetricChecks, Stages
<1>10. CASE buildViolationOutboxEvents
  BY <1>0, <1>10, TablesSame DEF TypeOK, buildViolationOutboxEvents, IsMetricChecks, Stages, CheckResult
<1>11. CASE UNCHANGED vars
  BY <1>0, <1>11, TablesSame DEF TypeOK, vars, IsMetricChecks
<1> QED
  BY <1>1, <1>2, <1>3, <1>4, <1>5, <1>6, <1>7, <1>8, <1>9, <1>10, <1>11 DEF Next

LEMMA ProgressStep == TypeOK /\ Progress /\ [Next]_vars => Progress'
<1> SUFFICES ASSUME TypeOK, Progress, [Next]_vars PROVE Progress' OBVIOUS
<1> USE ChecksAssumption DEF TypeOK, Progress, scan
<1>1. CASE EditWhitelists
  BY <1>1 DEF EditWhitelists, UpsertMetricWhitelist, DeleteMetricWhitelist, UpsertTargetWhitelist,
              DeleteTargetWhitelist, Edit
<1>2. CASE Process BY <1>2 DEF Process
<1>3. CASE GetMetricLimits BY <1>3 DEF GetMetricLimits
<1>4. CASE ListMetricWhitelist BY <1>4 DEF ListMetricWhitelist
<1>5. CASE ListTargetWhitelist BY <1>5 DEF ListTargetWhitelist
<1>6. CASE LoadFails BY <1>6 DEF LoadFails
<1>7. CASE ScrapeAddress
  <2>1. ASSUME NEW r \in Responses, GetTargetMetrics(r) PROVE Progress' BY <2>1 DEF GetTargetMetrics
  <2>2. CASE FetchFails BY <2>2 DEF FetchFails
  <2>3. ASSUME NEW f \in families, handleMetricFamily(f) PROVE Progress'
    BY <2>3 DEF handleMetricFamily
  <2>4. ASSUME NEW o \in todo, checkMetric(o) PROVE Progress' BY <2>4 DEF checkMetric
  <2>5. CASE checkResponseWeight BY <2>5 DEF checkResponseWeight
  <2> QED BY <1>7, <2>1, <2>2, <2>3, <2>4, <2>5 DEF ScrapeAddress
<1>8. CASE buildCheckResults BY <1>8 DEF buildCheckResults
<1>9. CASE ProcessFails BY <1>9 DEF ProcessFails
<1>10. CASE buildViolationOutboxEvents BY <1>10 DEF buildViolationOutboxEvents
<1>11. CASE UNCHANGED vars BY <1>11 DEF vars
<1> QED
  BY <1>1, <1>2, <1>3, <1>4, <1>5, <1>6, <1>7, <1>8, <1>9, <1>10, <1>11 DEF Next

LEMMA TypeInvariant == Spec => [](TypeOK /\ Progress)
<1>1. Init => Progress BY ChecksAssumption DEF Init, Progress
<1> QED BY <1>1, TypeInit, TypeStep, ProgressStep, PTL DEF Spec

(* The state of a scrape and of the whitelists is well typed. *)
THEOREM TypeCorrect == Spec => []TypeOK
  BY TypeInvariant, PTL

----------------------------------------------------------------------------
(***************************************************************************)
(* The report is exact for what has been measured so far; what the         *)
(* responses hold is measured or still in hand, and nothing is in hand     *)
(* before the whitelists are loaded.                                       *)
(***************************************************************************)
ExactFor(k) == MaxIsExact(seen, k) /\ DetailsAreExact(seen, k) /\ TopIsExact(k)

ReportInv == \A k \in MetricCheckTypes : ExactFor(k)

Loading == {"start", "limits", "metricRules", "targetRules"}

InHand == todo \union UNION {Measurements(f) : f \in families}

Coverage ==
  /\ Measured = seen \union InHand
  /\ pc # "scan" => families = {} /\ todo = {}
  /\ pc \in Loading => seen = {} /\ answered = {}

(* Nothing that the report of check k depends on has changed. *)
LEMMA ExactUnchanged ==
  ASSUME NEW k \in MetricCheckTypes, ExactFor(k),
         max'[k] = max[k], details'[k] = details[k], top'[k] = top[k],
         limits' = limits, metricChecks' = metricChecks, disabledChecks' = disabledChecks,
         {o \in seen' : o.check = k} = {o \in seen : o.check = k}
  PROVE  ExactFor(k)'
<1>1. Checked(seen, k)' = Checked(seen, k)
  BY DEF Checked, IsCheckDisabled
<1>2. Violating(seen, k)' = Violating(seen, k)
  BY <1>1 DEF Violating, metricCheckLimit, MetricCustomLimit
<1>3. MaxIsExact(seen, k)' BY <1>1 DEF ExactFor, MaxIsExact
<1>4. DetailsAreExact(seen, k)'
  BY <1>2 DEF ExactFor, DetailsAreExact, MetricCustomLimit, SameSubject
<1>5. TopIsExact(k)' BY DEF ExactFor, TopIsExact
<1> QED BY <1>3, <1>4, <1>5 DEF ExactFor

(* An empty report is exact as long as nothing is measured, whatever the rules. *)
LEMMA ExactEmpty ==
  ASSUME NEW k \in MetricCheckTypes, seen' = {}, max'[k] = 0, details'[k] = {}, top'[k] = None
  PROVE  ExactFor(k)'
  BY DEF ExactFor, MaxIsExact, DetailsAreExact, TopIsExact, Checked, Violating

(* Conversely, nothing measured means that the report is empty. *)
LEMMA EmptyExact ==
  ASSUME NEW k \in MetricCheckTypes, ExactFor(k), seen = {}
  PROVE  max[k] = 0 /\ details[k] = {} /\ top[k] = None
<1>1. Checked(seen, k) = {} /\ Violating(seen, k) = {} BY DEF Checked, Violating
<1>2. max[k] = 0 BY <1>1 DEF ExactFor, MaxIsExact
<1>3. details[k] = {} BY <1>1 DEF ExactFor, DetailsAreExact
<1> QED BY <1>2, <1>3 DEF ExactFor, TopIsExact

(* The report D of check k lists exactly the violating measurements V. *)
Lists(D, V, k) ==
  /\ \A w \in D : /\ \E p \in V : SameSubject(p, w) /\ p.value = w.value
                  /\ w.whitelisted = MetricCustomLimit(w.metric, k)
                  /\ \A x \in D : SameSubject(w, x) => w = x
  /\ \A p \in V : \E w \in D : SameSubject(p, w) /\ p.value <= w.value

LEMMA ListsDetails ==
  ASSUME NEW k
  PROVE  DetailsAreExact(seen, k) <=> Lists(details[k], Violating(seen, k), k)
  BY DEF DetailsAreExact, Lists

(* What a report lists does not depend on anything else. *)
LEMMA ListsNext ==
  ASSUME NEW k, NEW D, NEW V, Lists(D, V, k), metricChecks' = metricChecks,
         details'[k] = D, Violating(seen, k)' = V
  PROVE  DetailsAreExact(seen, k)'
  BY DEF DetailsAreExact, Lists, MetricCustomLimit

(***************************************************************************)
(* One more violation o: added to a report that is exact for V, it gives   *)
(* one that is exact for V and o.                                          *)
(***************************************************************************)
LEMMA AddExact ==
  ASSUME NEW D \in SUBSET Violation, NEW V \in SUBSET Measurement, NEW o \in Measurement,
         NEW k, k = o.check, Lists(D, V, k),
         NEW v, v = [metric |-> o.metric, subject |-> o.subject, value |-> o.value,
                     whitelisted |-> MetricCustomLimit(o.metric, k)]
  PROVE  Lists(addViolation(D, v), V \union {o}, k)
<1> USE DEF Lists
<1> DEFINE E == addViolation(D, v)
           W == V \union {o}
<1>0. v \in Violation /\ SameSubject(o, v) /\ o.value = v.value /\ o.value \in Nat
      /\ v.whitelisted = MetricCustomLimit(v.metric, k)
  BY ViolationType DEF Measurement, SameSubject
<1>1. CASE \E w \in D : SameSubject(w, v) /\ v.value <= w.value
  <2>1. E = D BY <1>1 DEF addViolation
  <2>2. \E w \in D : SameSubject(o, w) /\ o.value <= w.value
    BY <1>0, <1>1 DEF SameSubject
  <2> QED BY <2>1, <2>2
<1>2. CASE ~ \E w \in D : SameSubject(w, v) /\ v.value <= w.value
  <2>1. E = {w \in D : ~SameSubject(w, v)} \union {v} BY <1>2 DEF addViolation
  <2> HIDE DEF E
  <2>2. ASSUME NEW w \in E
        PROVE /\ \E p \in W : SameSubject(p, w) /\ p.value = w.value
              /\ w.whitelisted = MetricCustomLimit(w.metric, k)
              /\ \A x \in E : SameSubject(w, x) => w = x
    BY <1>0, <2>1 DEF SameSubject
  <2>3. ASSUME NEW p \in W PROVE \E w \in E : SameSubject(p, w) /\ p.value <= w.value
    <3>1. CASE p = o BY <1>0, <2>1, <3>1
    <3>2. CASE p \in V
      <4>1. PICK w \in D : SameSubject(p, w) /\ p.value <= w.value BY <3>2
      <4>2. CASE SameSubject(w, v)
        <5>1. w.value \in Nat /\ p.value \in Nat /\ v.value \in Nat
          BY <3>2, <1>0 DEF Violation, Measurement
        <5>2. w.value < v.value BY <1>2, <4>2, <5>1
        <5> QED BY <4>1, <4>2, <5>1, <5>2, <2>1 DEF SameSubject
      <4>3. CASE ~SameSubject(w, v) BY <4>1, <4>3, <2>1
      <4> QED BY <4>2, <4>3
    <3> QED BY <3>1, <3>2
  <2> QED BY <2>2, <2>3 DEF E
<1> QED BY <1>1, <1>2

(* The largest violation stays the largest one. *)
LEMMA TopExact ==
  ASSUME NEW D \in SUBSET Violation, NEW v \in Violation, NEW t \in Violation \union {None},
         IF D = {} THEN t = None ELSE t \in D /\ \A w \in D : w.value <= t.value
  PROVE  LET E == addViolation(D, v)
         IN E # {} /\ updateMax(t, v) \in E /\ \A w \in E : w.value <= updateMax(t, v).value
<1> DEFINE E == addViolation(D, v)
           u == updateMax(t, v)
<1>0. \A w \in Violation : w.value \in Nat BY DEF Violation
<1>1. \A w \in E : w \in D \/ w = v BY DEF addViolation
<1>2. CASE D = {}
  <2>1. E = {v} /\ u = v BY <1>2 DEF addViolation, updateMax
  <2> QED BY <2>1, <1>0
<1>3. CASE D # {} /\ v.value > t.value
  <2>1. u = v BY <1>3 DEF updateMax
  <2>2. ~ \E w \in D : SameSubject(w, v) /\ v.value <= w.value
    BY <1>0, <1>3
  <2>3. v \in E BY <2>2 DEF addViolation
  <2> HIDE DEF E, u
  <2> QED BY <1>0, <1>1, <1>3, <2>1, <2>3 DEF E, u
<1>4. CASE D # {} /\ ~(v.value > t.value)
  <2>1. u = t /\ t # None BY <1>4, ChecksAssumption DEF updateMax
  <2>2. t \in E
    BY <1>0, <1>4 DEF addViolation
  <2> HIDE DEF E, u
  <2> QED BY <1>0, <1>1, <1>4, <2>1, <2>2 DEF E, u
<1> QED BY <1>2, <1>3, <1>4

(* A step of the measurement loop keeps the report exact. *)
LEMMA ReportCheckMetric ==
  ASSUME TypeOK, ReportInv, NEW o \in todo, checkMetric(o)
  PROVE  ReportInv'
<1> DEFINE k == o.check
           v == [metric |-> o.metric, subject |-> o.subject, value |-> o.value,
                 whitelisted |-> MetricCustomLimit(o.metric, k)]
<1>0. /\ o \in Measurement /\ k \in MetricCheckTypes /\ k \in CheckTypes /\ o.value \in Nat
      /\ v \in Violation /\ max[k] \in Nat /\ details[k] \in SUBSET Violation
      /\ top[k] \in Violation \union {None} /\ seen \subseteq Measurement
  BY ViolationType DEF TypeOK, Measurement, CheckTypes
<1>1. /\ limits' = limits /\ metricChecks' = metricChecks /\ disabledChecks' = disabledChecks
      /\ seen' = seen \union {o}
  BY DEF checkMetric, rules
<1>2. ASSUME NEW j \in MetricCheckTypes, j # k PROVE ExactFor(j)'
  <2>1. max'[j] = max[j] /\ details'[j] = details[j] /\ top'[j] = top[j]
    BY <1>0, <1>2 DEF checkMetric, TypeOK, CheckTypes
  <2>2. {p \in seen' : p.check = j} = {p \in seen : p.check = j} BY <1>1, <1>2
  <2> HIDE DEF k, v
  <2> QED BY <1>1, <2>1, <2>2, ExactUnchanged DEF ReportInv
<1>3. ExactFor(k) BY <1>0 DEF ReportInv
<1>4. ASSUME IsCheckDisabled(k) PROVE ExactFor(k)'
  <2>1. max' = max /\ details' = details /\ top' = top BY <1>4 DEF checkMetric
  <2>2. /\ Checked(seen, k) = {} /\ Checked(seen, k)' = {}
        /\ Violating(seen, k) = {} /\ Violating(seen, k)' = {}
    BY <1>1, <1>4 DEF Checked, Violating, IsCheckDisabled
  <2>3. MaxIsExact(seen, k)' BY <1>3, <2>1, <2>2 DEF ExactFor, MaxIsExact
  <2>4. DetailsAreExact(seen, k)'
    BY <1>3, <2>1, <2>2 DEF ExactFor, DetailsAreExact
  <2>5. TopIsExact(k)' BY <1>3, <2>1 DEF ExactFor, TopIsExact
  <2> QED BY <2>3, <2>4, <2>5 DEF ExactFor
<1>5. ASSUME ~IsCheckDisabled(k) PROVE ExactFor(k)'
  <2>1. Checked(seen, k)' = Checked(seen, k) \union {o}
    BY <1>1, <1>5 DEF Checked, IsCheckDisabled
  <2>2. MaxIsExact(seen, k)'
    <3>1. max'[k] = IF o.value > max[k] THEN o.value ELSE max[k]
      BY <1>0, <1>5 DEF checkMetric, TypeOK
    <3>2. \A p \in Checked(seen, k) : p.value \in Nat
      BY <1>0 DEF Checked, Measurement
    <3> HIDE DEF k, v
    <3> QED BY <1>0, <1>3, <2>1, <3>1, <3>2 DEF ExactFor, MaxIsExact
  <2>3. CASE o.value > metricCheckLimit(o.metric, k)
    <3>1. /\ details'[k] = addViolation(details[k], v)
          /\ top'[k] = updateMax(top[k], v)
      BY <1>0, <1>5, <2>3 DEF checkMetric, TypeOK
    <3>2. Violating(seen, k)' = Violating(seen, k) \union {o}
      BY <1>1, <2>1, <2>3 DEF Violating, metricCheckLimit, MetricCustomLimit
    <3>3. Violating(seen, k) \in SUBSET Measurement
      BY <1>0 DEF Violating, Checked
    <3>4. DetailsAreExact(seen, k)'
      <4> HIDE DEF k, v
      <4>1. Lists(details[k], Violating(seen, k), k) BY <1>3, ListsDetails DEF ExactFor
      <4>2. Lists(addViolation(details[k], v), Violating(seen, k) \union {o}, k)
        BY <4>1, <1>0, <3>3, AddExact DEF k, v
      <4> QED BY <1>1, <3>1, <3>2, <4>2, ListsNext
    <3>5. TopIsExact(k)'
      <4> HIDE DEF k, v
      <4> QED BY <1>0, <1>3, <3>1, TopExact DEF ExactFor, TopIsExact
    <3> QED BY <2>2, <3>4, <3>5 DEF ExactFor
  <2>4. CASE ~(o.value > metricCheckLimit(o.metric, k))
    <3>1. details' = details /\ top' = top BY <2>4 DEF checkMetric
    <3>2. Violating(seen, k)' = Violating(seen, k)
      BY <1>1, <2>1, <2>4 DEF Violating, metricCheckLimit, MetricCustomLimit
    <3> HIDE DEF k, v
    <3>3. DetailsAreExact(seen, k)'
      BY <1>1, <1>3, <3>1, <3>2, ListsDetails, ListsNext DEF ExactFor
    <3>4. TopIsExact(k)' BY <1>3, <3>1 DEF ExactFor, TopIsExact
    <3> QED BY <2>2, <3>3, <3>4 DEF ExactFor
  <2> QED BY <2>3, <2>4
<1> QED BY <1>2, <1>4, <1>5 DEF ReportInv

(* Steps that leave the scan alone. *)
LEMMA CoverageSame ==
  ASSUME Coverage, UNCHANGED scan, pc = "scan" => pc' = "scan", pc' \in Loading => pc \in Loading
  PROVE  Coverage'
<1>1. Measured' = Measured /\ InHand' = InHand BY DEF scan, Measured, InHand
<1> QED BY <1>1 DEF Coverage, scan

LEMMA CoverageScrape == Coverage /\ ScrapeAddress => Coverage'
<1> SUFFICES ASSUME Coverage, ScrapeAddress PROVE Coverage' OBVIOUS
<1>1. ASSUME NEW r \in Responses, GetTargetMetrics(r) PROVE Coverage'
  <2>1. families = {} /\ todo = {} BY <1>1 DEF Coverage, GetTargetMetrics
  <2>2. Measured = seen BY <2>1 DEF Coverage, InHand
  <2>3. Measured' = Measured \union UNION {Measurements(f) : f \in r.families}
    BY <1>1 DEF GetTargetMetrics, Measured
  <2>4. InHand' = UNION {Measurements(f) : f \in r.families} /\ seen' = seen /\ pc' = "scan"
    BY <1>1, <2>1 DEF GetTargetMetrics, InHand
  <2> QED BY <2>2, <2>3, <2>4 DEF Coverage, Loading
<1>2. CASE FetchFails
  <2>1. /\ Measured' = Measured /\ InHand' = InHand
        /\ UNCHANGED <<pc, seen, answered, families, todo>>
    BY <1>2 DEF FetchFails, Measured, InHand
  <2> QED BY <2>1 DEF Coverage
<1>3. ASSUME NEW f \in families, handleMetricFamily(f) PROVE Coverage'
  <2>1. InHand' = InHand BY <1>3 DEF handleMetricFamily, InHand
  <2>2. Measured' = Measured /\ UNCHANGED <<pc, seen, answered>> /\ pc = "scan"
    BY <1>3 DEF handleMetricFamily, Measured
  <2> QED BY <2>1, <2>2 DEF Coverage, Loading
<1>4. ASSUME NEW o \in todo, checkMetric(o) PROVE Coverage'
  <2>1. Measured' = Measured /\ UNCHANGED <<pc, answered, families>>
        /\ todo' = todo \ {o} /\ seen' = seen \union {o}
    BY <1>4 DEF checkMetric, Measured
  <2>2. seen' \union InHand' = seen \union InHand BY <1>4, <2>1 DEF InHand
  <2> QED BY <1>4, <2>1, <2>2 DEF Coverage, Loading
<1>5. CASE checkResponseWeight
  <2>1. /\ Measured' = Measured /\ InHand' = InHand /\ pc' = "fetch"
        /\ UNCHANGED <<seen, answered, families, todo>> /\ families = {} /\ todo = {}
    BY <1>5 DEF checkResponseWeight, Measured, InHand
  <2> QED BY <2>1 DEF Coverage, Loading
<1> QED BY <1>1, <1>2, <1>3, <1>4, <1>5 DEF ScrapeAddress

LEMMA CoverageStep == Coverage /\ [Next]_vars => Coverage'
<1> SUFFICES ASSUME Coverage, [Next]_vars PROVE Coverage' OBVIOUS
<1> USE DEF Loading
<1>1. CASE EditWhitelists
  <2>1. UNCHANGED <<scan, pc>>
    BY <1>1 DEF EditWhitelists, UpsertMetricWhitelist, DeleteMetricWhitelist,
                UpsertTargetWhitelist, DeleteTargetWhitelist, Edit
  <2> QED BY <2>1, CoverageSame
<1>2. CASE Process
  <2>1. /\ answered' = {} /\ seen' = {} /\ todo' = {} /\ families' = {}
    BY <1>2 DEF Process
  <2>2. Measured' = {} /\ InHand' = {} BY <2>1 DEF Measured, InHand
  <2> QED BY <2>1, <2>2 DEF Coverage
<1>3. CASE GetMetricLimits BY <1>3, CoverageSame DEF GetMetricLimits
<1>4. CASE ListMetricWhitelist BY <1>4, CoverageSame DEF ListMetricWhitelist
<1>5. CASE ListTargetWhitelist BY <1>5, CoverageSame DEF ListTargetWhitelist
<1>6. CASE LoadFails BY <1>6, CoverageSame DEF LoadFails
<1>7. CASE ScrapeAddress BY <1>7, CoverageScrape
<1>8. CASE buildCheckResults BY <1>8, CoverageSame DEF buildCheckResults
<1>9. CASE ProcessFails BY <1>9, CoverageSame DEF ProcessFails
<1>10. CASE buildViolationOutboxEvents BY <1>10, CoverageSame DEF buildViolationOutboxEvents
<1>11. CASE UNCHANGED vars BY <1>11, CoverageSame DEF vars
<1> QED
  BY <1>1, <1>2, <1>3, <1>4, <1>5, <1>6, <1>7, <1>8, <1>9, <1>10, <1>11 DEF Next

(* Steps that leave report, measurements and rules alone, or change the rules before any. *)
LEMMA ReportSame ==
  ASSUME ReportInv, UNCHANGED <<max, details, top, seen>>,
         UNCHANGED <<limits, rules>> \/ seen = {}
  PROVE  ReportInv'
<1> SUFFICES ASSUME NEW k \in MetricCheckTypes PROVE ExactFor(k)' BY DEF ReportInv
<1>1. ExactFor(k) BY DEF ReportInv
<1>2. CASE UNCHANGED <<limits, rules>> BY <1>1, <1>2, ExactUnchanged DEF rules
<1>3. CASE seen = {} BY <1>1, <1>3, EmptyExact, ExactEmpty
<1> QED BY <1>2, <1>3

LEMMA ReportStep == TypeOK /\ Coverage /\ ReportInv /\ [Next]_vars => ReportInv'
<1> SUFFICES ASSUME TypeOK, Coverage, ReportInv, [Next]_vars PROVE ReportInv' OBVIOUS
<1> USE DEF scan, report
<1>1. CASE EditWhitelists
  BY <1>1, ReportSame DEF EditWhitelists, UpsertMetricWhitelist, DeleteMetricWhitelist,
                UpsertTargetWhitelist, DeleteTargetWhitelist, Edit
<1>2. CASE Process
  BY <1>2, ExactEmpty DEF Process, NewReport, ReportInv, CheckTypes
<1>3. CASE GetMetricLimits BY <1>3, ReportSame DEF GetMetricLimits, Coverage, Loading
<1>4. CASE ListMetricWhitelist BY <1>4, ReportSame DEF ListMetricWhitelist, Coverage, Loading
<1>5. CASE ListTargetWhitelist BY <1>5, ReportSame DEF ListTargetWhitelist, Coverage, Loading
<1>6. CASE LoadFails BY <1>6, ReportSame DEF LoadFails, Coverage, Loading
<1>7. CASE ScrapeAddress
  <2>1. ASSUME NEW r \in Responses, GetTargetMetrics(r) PROVE ReportInv'
    BY <2>1, ReportSame DEF GetTargetMetrics
  <2>2. CASE FetchFails BY <2>2, ReportSame DEF FetchFails
  <2>3. ASSUME NEW f \in families, handleMetricFamily(f) PROVE ReportInv'
    BY <2>3, ReportSame DEF handleMetricFamily
  <2>4. ASSUME NEW o \in todo, checkMetric(o) PROVE ReportInv' BY <2>4, ReportCheckMetric
  <2>5. CASE checkResponseWeight
    <3> SUFFICES ASSUME NEW k \in MetricCheckTypes PROVE ExactFor(k)' BY DEF ReportInv
    <3>1. max'[k] = max[k]
      BY <2>5 DEF checkResponseWeight, TypeOK, CheckTypes, MetricCheckTypes
    <3> QED BY <2>5, <3>1, ExactUnchanged DEF checkResponseWeight, rules, ReportInv
  <2> QED BY <1>7, <2>1, <2>2, <2>3, <2>4, <2>5 DEF ScrapeAddress
<1>8. CASE buildCheckResults BY <1>8, ReportSame DEF buildCheckResults
<1>9. CASE ProcessFails BY <1>9, ReportSame DEF ProcessFails
<1>10. CASE buildViolationOutboxEvents BY <1>10, ReportSame DEF buildViolationOutboxEvents
<1>11. CASE UNCHANGED vars BY <1>11, ReportSame DEF vars
<1> QED
  BY <1>1, <1>2, <1>3, <1>4, <1>5, <1>6, <1>7, <1>8, <1>9, <1>10, <1>11 DEF Next

LEMMA ReportInit == Init => ReportInv /\ Coverage
<1> SUFFICES ASSUME Init PROVE ReportInv /\ Coverage OBVIOUS
<1>1. ReportInv
  BY DEF Init, ReportInv, ExactFor, MaxIsExact, DetailsAreExact, TopIsExact, Checked, Violating,
         CheckTypes
<1>2. Coverage BY DEF Init, Coverage, Measured, InHand
<1> QED BY <1>1, <1>2

LEMMA ReportInvariant == Spec => [](TypeOK /\ Coverage /\ ReportInv)
  BY TypeInvariant, ReportInit, CoverageStep, ReportStep, PTL DEF Spec

(* A finished report covers everything the answering addresses exposed. *)
LEMMA AllMeasured == ASSUME Coverage, pc \in {"report", "saved"} PROVE Measured = seen
  BY DEF Coverage, InHand

(* For any responses in any order, the report is exact. *)
THEOREM ReportsAreExact == Spec => []ReportIsExact
<1>1. TypeOK /\ Coverage /\ ReportInv => ReportIsExact
  BY AllMeasured DEF ReportIsExact, ReportInv, ExactFor
<1> QED BY <1>1, ReportInvariant, PTL

----------------------------------------------------------------------------
(***************************************************************************)
(* The largest weight among the responses done, and the results and events *)
(* as functions of the report.                                             *)
(***************************************************************************)
WeightInv ==
  LET k == "response_weight"
  IN /\ max[k] = 0 \/ \E r \in answered : r.weight = max[k]
     /\ ~IsCheckDisabled(k) =>
          \A r \in answered : r.weight <= max[k] \/ (pc = "scan" /\ r.weight = weight)
     /\ pc = "scan" => \E r \in answered : r.weight = weight

ResultInv ==
  /\ pc \in {"report", "saved"} =>
       checks = [k \in {j \in CheckTypes : ~IsCheckDisabled(j)} |-> checkResult(k)]
  /\ pc = "saved" =>
       events = {[type |-> k, limit |-> checks[k].limit, current |-> checks[k].current] :
                   k \in {j \in DOMAIN checks : checks[j].violated /\ ~checks[j].whitelisted}}

LEMMA WeightSame ==
  ASSUME WeightInv, UNCHANGED <<max, answered, weight>>, pc' = "scan" <=> pc = "scan",
         UNCHANGED disabledChecks \/ answered = {}
  PROVE  WeightInv'
  BY DEF WeightInv, IsCheckDisabled

LEMMA WeightScrape ==
  ASSUME TypeOK, Coverage, WeightInv, ScrapeAddress
  PROVE  WeightInv'
<1> USE DEF rules
<1>1. ASSUME NEW r \in Responses, GetTargetMetrics(r) PROVE WeightInv'
  BY <1>1 DEF GetTargetMetrics, WeightInv, IsCheckDisabled, report
<1>2. CASE FetchFails
  BY <1>2, WeightSame DEF FetchFails, report
<1>3. ASSUME NEW f \in families, handleMetricFamily(f) PROVE WeightInv'
  BY <1>3, WeightSame DEF handleMetricFamily, report
<1>4. ASSUME NEW o \in todo, checkMetric(o) PROVE WeightInv'
  <2>1. o.check # "response_weight" BY DEF TypeOK, Measurement, MetricCheckTypes
  <2>2. max'["response_weight"] = max["response_weight"]
    BY <1>4, <2>1 DEF checkMetric, TypeOK, CheckTypes
  <2>3. UNCHANGED <<pc, answered, weight, disabledChecks>> BY <1>4 DEF checkMetric
  <2> QED BY <2>2, <2>3 DEF WeightInv, IsCheckDisabled
<1>5. CASE checkResponseWeight
  <2>1. /\ pc = "scan" /\ pc' = "fetch"
        /\ UNCHANGED <<answered, disabledChecks>>
        /\ max'["response_weight"] =
             IF ~IsCheckDisabled("response_weight") /\ weight > max["response_weight"]
             THEN weight ELSE max["response_weight"]
    BY <1>5 DEF checkResponseWeight, TypeOK, CheckTypes
  <2>2. max["response_weight"] \in Nat /\ weight \in Nat /\ \A r \in answered : r.weight \in Nat
    BY ChecksAssumption DEF TypeOK, CheckTypes
  <2> QED BY <2>1, <2>2 DEF WeightInv, IsCheckDisabled
<1> QED BY <1>1, <1>2, <1>3, <1>4, <1>5 DEF ScrapeAddress

LEMMA WeightStep == TypeOK /\ Coverage /\ WeightInv /\ [Next]_vars => WeightInv'
<1> SUFFICES ASSUME TypeOK, Coverage, WeightInv, [Next]_vars PROVE WeightInv' OBVIOUS
<1> USE DEF scan, report, rules
<1>1. CASE EditWhitelists
  BY <1>1, WeightSame DEF EditWhitelists, UpsertMetricWhitelist, DeleteMetricWhitelist,
                UpsertTargetWhitelist, DeleteTargetWhitelist, Edit
<1>2. CASE Process
  BY <1>2 DEF Process, NewReport, WeightInv, CheckTypes
<1>3. CASE GetMetricLimits BY <1>3, WeightSame DEF GetMetricLimits
<1>4. CASE ListMetricWhitelist BY <1>4, WeightSame DEF ListMetricWhitelist
<1>5. CASE ListTargetWhitelist BY <1>5, WeightSame DEF ListTargetWhitelist, Coverage, Loading
<1>6. CASE LoadFails BY <1>6, WeightSame DEF LoadFails, Coverage, Loading
<1>7. CASE ScrapeAddress BY <1>7, WeightScrape
<1>8. CASE buildCheckResults BY <1>8, WeightSame DEF buildCheckResults
<1>9. CASE ProcessFails BY <1>9, WeightSame DEF ProcessFails
<1>10. CASE buildViolationOutboxEvents BY <1>10, WeightSame DEF buildViolationOutboxEvents
<1>11. CASE UNCHANGED vars BY <1>11, WeightSame DEF vars
<1> QED
  BY <1>1, <1>2, <1>3, <1>4, <1>5, <1>6, <1>7, <1>8, <1>9, <1>10, <1>11 DEF Next

(* Once the results are built, nothing they come from changes. *)
LEMMA ResultSame ==
  ASSUME ResultInv, UNCHANGED <<checks, events, disabledChecks, limits, max, details, pc>>
  PROVE  ResultInv'
<1>1. \A k : checkResult(k)' = checkResult(k) BY DEF checkResult, allWhitelisted
<1> QED BY <1>1 DEF ResultInv, IsCheckDisabled

LEMMA ResultStep == Coverage /\ ResultInv /\ [Next]_vars => ResultInv'
<1> SUFFICES ASSUME Coverage, ResultInv, [Next]_vars PROVE ResultInv' OBVIOUS
<1> USE DEF report, rules
<1>1. CASE EditWhitelists
  <2>1. UNCHANGED <<checks, events, disabledChecks, limits, max, details, pc>>
    BY <1>1 DEF EditWhitelists, UpsertMetricWhitelist, DeleteMetricWhitelist,
                UpsertTargetWhitelist, DeleteTargetWhitelist, Edit
  <2> QED BY <2>1, ResultSame
<1>2. CASE Next /\ pc' \notin {"report", "saved"} BY <1>2 DEF ResultInv
<1>3. CASE buildCheckResults
  <2>1. /\ pc' = "report" /\ UNCHANGED <<disabledChecks, limits, max, details>>
        /\ checks' = [k \in {j \in CheckTypes : ~IsCheckDisabled(j)} |-> checkResult(k)]
    BY <1>3 DEF buildCheckResults
  <2>2. \A k : checkResult(k)' = checkResult(k) BY <2>1 DEF checkResult, allWhitelisted
  <2> QED BY <2>1, <2>2 DEF ResultInv, IsCheckDisabled
<1>4. CASE buildViolationOutboxEvents
  <2>1. /\ pc = "report" /\ pc' = "saved"
        /\ UNCHANGED <<checks, disabledChecks, limits, max, details>>
        /\ events' = {[type |-> k, limit |-> checks[k].limit, current |-> checks[k].current] :
                  k \in {j \in DOMAIN checks : checks[j].violated /\ ~checks[j].whitelisted}}
    BY <1>4 DEF buildViolationOutboxEvents
  <2>2. \A k : checkResult(k)' = checkResult(k) BY <2>1 DEF checkResult, allWhitelisted
  <2> QED BY <2>1, <2>2 DEF ResultInv, IsCheckDisabled
<1>5. ASSUME NEW o \in todo, checkMetric(o) PROVE ResultInv'
  BY <1>5 DEF ResultInv, checkMetric, Coverage
<1>6. CASE UNCHANGED vars BY <1>6, ResultSame DEF vars
<1> QED
  BY <1>1, <1>2, <1>3, <1>4, <1>5, <1>6
  DEF Next, Process, GetMetricLimits, ListMetricWhitelist, ListTargetWhitelist, LoadFails,
      ScrapeAddress, GetTargetMetrics, FetchFails, handleMetricFamily, checkResponseWeight,
      ProcessFails

LEMMA AlarmInvariant == Spec => [](TypeOK /\ Coverage /\ ReportInv /\ WeightInv /\ ResultInv)
<1>1. Init => WeightInv /\ ResultInv BY DEF Init, WeightInv, ResultInv, CheckTypes
<1> QED BY <1>1, ReportInvariant, WeightStep, ResultStep, PTL DEF Spec

(* A check of the metrics alarms exactly if it lists a violation that is not whitelisted. *)
LEMMA MetricAlarm ==
  ASSUME ReportInv, Measured = seen, NEW k \in MetricCheckTypes, ~IsCheckDisabled(k)
  PROVE  (\E v \in details[k] : ~v.whitelisted) <=> Alarming(k)
<1>0. k # "response_weight" BY DEF MetricCheckTypes
<1>1. DetailsAreExact(seen, k) BY DEF ReportInv, ExactFor
<1>2. ASSUME NEW v \in details[k], ~v.whitelisted PROVE Alarming(k)
  <2>1. PICK o \in Violating(seen, k) : SameSubject(o, v) /\ o.value = v.value
    BY <1>1 DEF DetailsAreExact
  <2>2. ~MetricCustomLimit(o.metric, k) BY <1>1, <1>2, <2>1 DEF DetailsAreExact, SameSubject
  <2>3. o \in Measured /\ o.check = k /\ o.value > limits[k]
    BY <2>1, <2>2 DEF Violating, Checked, metricCheckLimit
  <2> QED BY <1>0, <2>2, <2>3 DEF Alarming
<1>3. ASSUME Alarming(k) PROVE \E v \in details[k] : ~v.whitelisted
  <2>1. PICK o \in Measured :
          o.check = k /\ o.value > limits[k] /\ ~MetricCustomLimit(o.metric, k)
    BY <1>0, <1>3 DEF Alarming
  <2>2. o \in Violating(seen, k) BY <2>1 DEF Violating, Checked, metricCheckLimit
  <2>3. PICK v \in details[k] : SameSubject(o, v) BY <1>1, <2>2 DEF DetailsAreExact
  <2>4. ~v.whitelisted BY <1>1, <2>1, <2>3 DEF DetailsAreExact, SameSubject
  <2> QED BY <2>4
<1> QED BY <1>2, <1>3

(* An alarm of the metrics is about a value over the limit. *)
LEMMA MetricOver ==
  ASSUME TypeOK, ReportInv, NEW k \in MetricCheckTypes, Measured = seen, Alarming(k)
  PROVE  max[k] > limits[k]
<1>0. k # "response_weight" BY DEF MetricCheckTypes
<1>1. PICK o \in seen : o.check = k /\ o.value > limits[k] BY <1>0 DEF Alarming
<1>2. o.value <= max[k]
  BY <1>1 DEF ReportInv, ExactFor, MaxIsExact, Checked, Alarming
<1>3. o.value \in Nat /\ max[k] \in Nat /\ limits[k] \in Nat
  BY DEF TypeOK, Measurement, Limits, CheckTypes
<1> QED BY <1>1, <1>2, <1>3

(* The check of the weight alarms exactly if an answer was too heavy. *)
LEMMA WeightAlarm ==
  ASSUME TypeOK, WeightInv, pc = "saved", ~IsCheckDisabled("response_weight")
  PROVE  max["response_weight"] > limits["response_weight"] <=> Alarming("response_weight")
<1>1. /\ max["response_weight"] \in Nat /\ limits["response_weight"] \in Nat
      /\ \A r \in answered : r.weight \in Nat
  BY ChecksAssumption DEF TypeOK, CheckTypes, Limits
<1> QED BY <1>1 DEF WeightInv, Alarming

LEMMA ResultFields ==
  ASSUME NEW r, NEW a, NEW b, NEW c, NEW d,
         r = [limit |-> a, current |-> b, violated |-> c, whitelisted |-> d]
  PROVE  r.limit = a /\ r.current = b /\ r.violated = c /\ r.whitelisted = d
  OBVIOUS

(***************************************************************************)
(* For any responses, limits and whitelists, events leave for exactly the  *)
(* checks that alarm, with a value over the limit.                         *)
(***************************************************************************)
THEOREM AlarmsAreRight == Spec => []AlarmsAreExact
<1>1. ASSUME TypeOK, Coverage, ReportInv, WeightInv, ResultInv, pc = "saved"
      PROVE  /\ \A k \in CheckTypes : (\E e \in events : e.type = k) <=> Alarming(k)
             /\ \A e \in events : e.limit = limits[e.type] /\ e.current > e.limit
  <2>1. Measured = seen BY <1>1, AllMeasured
  <2>2. /\ DOMAIN checks = {j \in CheckTypes : ~IsCheckDisabled(j)}
        /\ \A k \in DOMAIN checks : checks[k] = checkResult(k)
    BY <1>1 DEF ResultInv
  <2>3. ASSUME NEW k \in DOMAIN checks
        PROVE  /\ checks[k].limit = limits[k] /\ checks[k].current = max[k]
               /\ (checks[k].violated /\ ~checks[k].whitelisted) <=> Alarming(k)
               /\ Alarming(k) => max[k] > limits[k]
    <3>1. CASE k = "response_weight"
      <4>1. ~IsCheckDisabled("response_weight") BY <2>2, <3>1
      <4> DEFINE over == max[k] > limits[k]
                 no == FALSE
      <4>2. checks[k] = [limit |-> limits[k], current |-> max[k], violated |-> over,
                         whitelisted |-> no]
        BY <2>2, <3>1 DEF checkResult
      <4>4. over <=> Alarming(k) BY <1>1, <3>1, <4>1, WeightAlarm
      <4>5. over => max[k] > limits[k] OBVIOUS
      <4>6. ~no OBVIOUS
      <4> HIDE DEF over, no
      <4>3. /\ checks[k].limit = limits[k] /\ checks[k].current = max[k]
            /\ checks[k].violated = over /\ checks[k].whitelisted = no
        BY <4>2, ResultFields
      <4> QED BY <4>3, <4>4, <4>5, <4>6, Zenon
    <3>2. CASE k # "response_weight"
      <4>1. k \in MetricCheckTypes /\ ~IsCheckDisabled(k) BY <2>2, <3>2 DEF CheckTypes
      <4>2. /\ checks[k].limit = limits[k] /\ checks[k].current = max[k]
            /\ (checks[k].violated /\ ~checks[k].whitelisted)
                 <=> (\E v \in details[k] : ~v.whitelisted)
        <5> DEFINE any == details[k] # {}
                   all == details[k] # {} /\ allWhitelisted(k)
        <5>1. checks[k] = [limit |-> limits[k], current |-> max[k], violated |-> any,
                           whitelisted |-> all]
          BY <2>2, <3>2 DEF checkResult
        <5>2. (any /\ ~all) <=> (\E v \in details[k] : ~v.whitelisted)
          BY DEF allWhitelisted
        <5> HIDE DEF any, all
        <5>3. /\ checks[k].limit = limits[k] /\ checks[k].current = max[k]
              /\ checks[k].violated = any /\ checks[k].whitelisted = all
          BY <5>1, ResultFields
        <5> QED BY <5>2, <5>3, Zenon
      <4> QED BY <1>1, <2>1, <4>1, <4>2, MetricAlarm, MetricOver
    <3> QED BY <3>1, <3>2
  <2>4. events = {[type |-> k, limit |-> checks[k].limit, current |-> checks[k].current] :
                    k \in {j \in DOMAIN checks : checks[j].violated /\ ~checks[j].whitelisted}}
    BY <1>1 DEF ResultInv
  <2>5. ASSUME NEW k \in CheckTypes PROVE (\E e \in events : e.type = k) <=> Alarming(k)
    <3>1. Alarming(k) => k \in DOMAIN checks BY <2>2 DEF Alarming
    <3>2. ASSUME Alarming(k) PROVE \E e \in events : e.type = k
      <4> DEFINE e == [type |-> k, limit |-> checks[k].limit, current |-> checks[k].current]
      <4>1. e \in events BY <2>3, <2>4, <3>1, <3>2
      <4> QED BY <4>1
    <3>3. ASSUME NEW e \in events, e.type = k PROVE Alarming(k)
      <4>1. PICK j \in DOMAIN checks :
              /\ checks[j].violated /\ ~checks[j].whitelisted
              /\ e = [type |-> j, limit |-> checks[j].limit, current |-> checks[j].current]
        BY <2>4
      <4>2. j = k BY <3>3, <4>1
      <4> QED BY <2>3, <4>1, <4>2
    <3> QED BY <3>2, <3>3
  <2>6. ASSUME NEW e \in events PROVE e.limit = limits[e.type] /\ e.current > e.limit
    BY <2>3, <2>4
  <2> QED BY <2>5, <2>6
<1>2. TypeOK /\ Coverage /\ ReportInv /\ WeightInv /\ ResultInv => AlarmsAreExact
  BY <1>1 DEF AlarmsAreExact
<1> QED BY <1>2, AlarmInvariant, PTL

----------------------------------------------------------------------------
(***************************************************************************)
(* The weight that is shown follows from the largest one, and the lists of *)
(* violations are finite.                                                  *)
(***************************************************************************)
ShownWeight ==
  responseWeight = IF max["response_weight"] > limits["response_weight"]
                   THEN max["response_weight"] ELSE 0
DisabledWeight == IsCheckDisabled("response_weight") => max["response_weight"] = 0
FiniteDetails == \A k \in MetricCheckTypes : IsFiniteSet(details[k])
ShownInv == ShownWeight /\ DisabledWeight /\ FiniteDetails

(* Steps that leave the report alone, or change limits and rules before anything is in it. *)
LEMMA ShownSame ==
  ASSUME ShownInv, TypeOK, UNCHANGED report,
         UNCHANGED <<limits, disabledChecks>>
           \/ (max["response_weight"] = 0 /\ limits'["response_weight"] \in Nat)
  PROVE  ShownInv'
<1> USE DEF report
<1>1. limits["response_weight"] \in Nat BY DEF TypeOK, Limits, CheckTypes
<1>2. ShownWeight' BY <1>1 DEF ShownInv, ShownWeight
<1>3. DisabledWeight' BY DEF ShownInv, DisabledWeight, IsCheckDisabled
<1>4. FiniteDetails' BY DEF ShownInv, FiniteDetails
<1> QED BY <1>2, <1>3, <1>4 DEF ShownInv

LEMMA ShownCheckMetric ==
  ASSUME TypeOK, ShownInv, NEW o \in todo, checkMetric(o)
  PROVE  ShownInv'
<1>1. o.check # "response_weight" /\ o.check \in MetricCheckTypes
  BY DEF TypeOK, Measurement, MetricCheckTypes
<1>2. max'["response_weight"] = max["response_weight"]
  BY <1>1 DEF checkMetric, TypeOK, CheckTypes
<1>3. UNCHANGED <<limits, disabledChecks, responseWeight>> BY DEF checkMetric, rules
<1>4. FiniteDetails'
  <2>1. ASSUME NEW D, IsFiniteSet(D), NEW v PROVE IsFiniteSet(addViolation(D, v))
    <3>1. IsFiniteSet({w \in D : ~SameSubject(w, v)}) BY <2>1, FS_Subset
    <3>2. IsFiniteSet({w \in D : ~SameSubject(w, v)} \union {v}) BY <3>1, FS_AddElement
    <3> QED BY <2>1, <3>2 DEF addViolation
  <2>2. PICK v : details' = details
                   \/ details' = [details EXCEPT ![o.check] = addViolation(details[o.check], v)]
    BY DEF checkMetric
  <2>3. ASSUME NEW k \in MetricCheckTypes PROVE IsFiniteSet(details'[k])
    <3>1. IsFiniteSet(details[k]) BY DEF ShownInv, FiniteDetails
    <3>2. details'[k] = details[k] \/ details'[k] = addViolation(details[k], v)
      BY <1>1, <2>2 DEF TypeOK
    <3> QED BY <2>1, <3>1, <3>2
  <2> QED BY <2>3 DEF FiniteDetails
<1>5. ShownWeight' BY <1>2, <1>3 DEF ShownInv, ShownWeight
<1>6. DisabledWeight' BY <1>2, <1>3 DEF ShownInv, DisabledWeight, IsCheckDisabled
<1> QED BY <1>4, <1>5, <1>6 DEF ShownInv

LEMMA ShownResponseWeight ==
  ASSUME TypeOK, ShownInv, checkResponseWeight
  PROVE  ShownInv'
<1> DEFINE w == "response_weight"
<1>1. max[w] \in Nat /\ limits[w] \in Nat /\ weight \in Nat /\ responseWeight \in Nat
  BY DEF TypeOK, CheckTypes, Limits
<1>2. /\ UNCHANGED <<limits, disabledChecks, details>>
      /\ max'[w] = IF ~IsCheckDisabled(w) /\ weight > max[w] THEN weight ELSE max[w]
      /\ responseWeight' = IF ~IsCheckDisabled(w) /\ limits[w] < weight /\ responseWeight < weight
                           THEN weight ELSE responseWeight
  BY DEF checkResponseWeight, TypeOK, CheckTypes, rules
<1>3. ShownWeight' BY <1>1, <1>2 DEF ShownInv, ShownWeight
<1>4. DisabledWeight' BY <1>2 DEF ShownInv, DisabledWeight, IsCheckDisabled
<1>5. FiniteDetails' BY <1>2 DEF ShownInv, FiniteDetails
<1> QED BY <1>3, <1>4, <1>5 DEF ShownInv

LEMMA ShownStep ==
  ASSUME TypeOK, Coverage, WeightInv, ShownInv, [Next]_vars, TypeOK'
  PROVE  ShownInv'
<1> USE DEF rules
<1>0. /\ limits'["response_weight"] \in Nat
      /\ pc \in Loading => max["response_weight"] = 0
  BY DEF TypeOK, Limits, CheckTypes, WeightInv, Coverage
<1>1. CASE EditWhitelists
  BY <1>1, ShownSame DEF EditWhitelists, UpsertMetricWhitelist, DeleteMetricWhitelist,
                UpsertTargetWhitelist, DeleteTargetWhitelist, Edit
<1>2. CASE Process
  <2>1. /\ max' = [k \in CheckTypes |-> 0] /\ details' = [k \in MetricCheckTypes |-> {}]
        /\ responseWeight' = 0
    BY <1>2 DEF Process, NewReport
  <2>2. max'["response_weight"] = 0 BY <2>1 DEF CheckTypes
  <2>3. ShownWeight' BY <1>0, <2>1, <2>2 DEF ShownWeight
  <2>4. FiniteDetails' BY <2>1, FS_EmptySet DEF FiniteDetails
  <2> QED BY <2>2, <2>3, <2>4 DEF ShownInv, DisabledWeight
<1>3. CASE GetMetricLimits BY <1>0, <1>3, ShownSame DEF GetMetricLimits, Loading
<1>4. CASE ListMetricWhitelist BY <1>4, ShownSame DEF ListMetricWhitelist
<1>5. CASE ListTargetWhitelist BY <1>0, <1>5, ShownSame DEF ListTargetWhitelist, Loading
<1>6. CASE LoadFails BY <1>0, <1>6, ShownSame DEF LoadFails, Loading
<1>7. CASE ScrapeAddress
  <2>1. ASSUME NEW r \in Responses, GetTargetMetrics(r) PROVE ShownInv'
    BY <2>1, ShownSame DEF GetTargetMetrics
  <2>2. CASE FetchFails BY <2>2, ShownSame DEF FetchFails
  <2>3. ASSUME NEW f \in families, handleMetricFamily(f) PROVE ShownInv'
    BY <2>3, ShownSame DEF handleMetricFamily
  <2>4. ASSUME NEW o \in todo, checkMetric(o) PROVE ShownInv' BY <2>4, ShownCheckMetric
  <2>5. CASE checkResponseWeight BY <2>5, ShownResponseWeight
  <2> QED BY <1>7, <2>1, <2>2, <2>3, <2>4, <2>5 DEF ScrapeAddress
<1>8. CASE buildCheckResults BY <1>8, ShownSame DEF buildCheckResults
<1>9. CASE ProcessFails BY <1>9, ShownSame DEF ProcessFails
<1>10. CASE buildViolationOutboxEvents BY <1>10, ShownSame DEF buildViolationOutboxEvents
<1>11. CASE UNCHANGED vars BY <1>11, ShownSame DEF vars
<1> QED
  BY <1>1, <1>2, <1>3, <1>4, <1>5, <1>6, <1>7, <1>8, <1>9, <1>10, <1>11 DEF Next

LEMMA ShownInit == Init /\ TypeOK => ShownInv
<1> SUFFICES ASSUME Init, TypeOK PROVE ShownInv OBVIOUS
<1>1. max["response_weight"] = 0 /\ responseWeight = 0 BY DEF Init, CheckTypes
<1>2. ShownWeight BY <1>1 DEF ShownWeight, TypeOK, Limits, CheckTypes
<1>3. FiniteDetails BY FS_EmptySet DEF Init, FiniteDetails
<1> QED BY <1>1, <1>2, <1>3 DEF ShownInv, DisabledWeight

(* The violations of an alarm are listed, the largest of them over the limit. *)
LEMMA AlarmListed ==
  ASSUME TypeOK, ReportInv, FiniteDetails, Measured = seen, NEW k \in MetricCheckTypes, Alarming(k)
  PROVE  /\ top[k] # None /\ top[k] \in details[k] /\ top[k].value > limits[k]
         /\ Cardinality(details[k]) > 0
<1>0. k # "response_weight" BY DEF MetricCheckTypes
<1>1. DetailsAreExact(seen, k) /\ TopIsExact(k) BY DEF ReportInv, ExactFor
<1>2. PICK o \in seen : o.check = k /\ o.value > limits[k] /\ ~MetricCustomLimit(o.metric, k)
  BY <1>0 DEF Alarming
<1>3. o \in Violating(seen, k) BY <1>2 DEF Violating, Checked, metricCheckLimit, Alarming
<1>4. PICK v \in details[k] : o.value <= v.value BY <1>1, <1>3 DEF DetailsAreExact
<1>5. top[k] \in details[k] /\ v.value <= top[k].value BY <1>1, <1>4 DEF TopIsExact
<1>6. details[k] \subseteq Violation /\ top[k] \in Violation BY <1>5 DEF TypeOK
<1>7. o.value \in Nat /\ v.value \in Nat /\ top[k].value \in Nat /\ limits[k] \in Nat
  BY <1>4, <1>6 DEF TypeOK, Measurement, Violation, Limits, CheckTypes
<1>8. Cardinality(details[k]) # 0 /\ Cardinality(details[k]) \in Nat
  BY <1>4, FS_EmptySet, FS_CardinalityType DEF FiniteDetails
<1> QED BY <1>2, <1>4, <1>5, <1>6, <1>7, <1>8, ChecksAssumption

(* A disabled check lists nothing. *)
LEMMA DisabledLists ==
  ASSUME ReportInv, NEW k \in MetricCheckTypes, IsCheckDisabled(k)
  PROVE  Cardinality(details[k]) = 0
<1>1. Violating(seen, k) = {} BY DEF Violating, Checked
<1>2. details[k] = {} BY <1>1 DEF ReportInv, ExactFor, DetailsAreExact
<1> QED BY <1>2, FS_EmptySet

(***************************************************************************)
(* For any responses, limits and whitelists, the API shows the cause of    *)
(* every event, and nothing of a disabled check.                           *)
(***************************************************************************)
THEOREM AlarmsAreVisible == Spec => []AlarmsAreShown
<1>1. ASSUME TypeOK, Coverage, ReportInv, ResultInv, ShownInv, AlarmsAreExact, pc = "saved"
      PROVE  AlarmsAreShown
  <2> DEFINE w == "response_weight"
  <2>0. Measured = seen /\ FiniteDetails BY <1>1, AllMeasured DEF ShownInv
  <2>1. /\ DOMAIN checks = {j \in CheckTypes : ~IsCheckDisabled(j)}
        /\ \A k \in DOMAIN checks : checks[k] = checkResult(k)
    BY <1>1 DEF ResultInv
  <2>2. ASSUME NEW e \in events
        PROVE  /\ e.type \in DOMAIN checks /\ e.type \in CheckTypes
               /\ checks[e.type].limit = e.limit /\ checks[e.type].current = e.current
    BY <1>1, <2>1 DEF ResultInv
  <2>3. ASSUME NEW e \in events, e.type # w
        PROVE  /\ toViolationStats[e.type] > 0
               /\ toViolationDetails.max[e.type] \in toViolationDetails.violations[e.type]
               /\ toViolationDetails.max[e.type].value > e.limit
    <3> DEFINE k == e.type
    <3>1. k \in MetricCheckTypes BY <2>2, <2>3 DEF CheckTypes
    <3>2. Alarming(k) /\ e.limit = limits[k] BY <1>1, <2>2 DEF AlarmsAreExact
    <3> HIDE DEF k
    <3>3. /\ top[k] # None /\ top[k] \in details[k] /\ top[k].value > limits[k]
          /\ Cardinality(details[k]) > 0
      BY <1>1, <2>0, <3>1, <3>2, AlarmListed
    <3>4. toViolationStats[k] > 0 BY <3>1, <3>3 DEF toViolationStats
    <3>5. toViolationDetails.max[k] = Shown(top[k]) BY <3>1, <3>3 DEF toViolationDetails
    <3>6. Shown(top[k]) \in toViolationDetails.violations[k] BY <3>1, <3>3 DEF toViolationDetails
    <3>7. Shown(top[k]).value > e.limit BY <3>2, <3>3 DEF Shown
    <3> QED BY <3>4, <3>5, <3>6, <3>7 DEF k
  <2>4. ASSUME NEW e \in events
        PROVE  /\ e.type \in DOMAIN toViolationDetails.checks
               /\ toViolationDetails.checks[e.type] = [limit |-> e.limit, current |-> e.current]
    BY <2>2 DEF toViolationDetails, toCheckMetrics
  <2>5. IF \E e \in events : e.type = w THEN responseWeight = max[w] ELSE responseWeight = 0
    <3>1. max[w] \in Nat /\ limits[w] \in Nat BY <1>1 DEF TypeOK, CheckTypes, Limits
    <3>2. ShownWeight /\ DisabledWeight BY <1>1 DEF ShownInv
    <3>3. CASE \E e \in events : e.type = w
      <4>1. PICK e \in events : e.type = w BY <3>3
      <4>2. checks[w] = checkResult(w) /\ checks[w].current = e.current /\ checks[w].limit = e.limit
        BY <2>1, <2>2, <4>1
      <4>3. checks[w].current = max[w] /\ checks[w].limit = limits[w] BY <4>2 DEF checkResult
      <4>4. e.current > e.limit BY <1>1 DEF AlarmsAreExact
      <4> QED BY <3>2, <3>3, <4>2, <4>3, <4>4 DEF ShownWeight
    <3>4. CASE ~ \E e \in events : e.type = w
      <4>1. CASE IsCheckDisabled(w) BY <3>1, <3>2, <3>4, <4>1 DEF ShownWeight, DisabledWeight
      <4>2. CASE ~IsCheckDisabled(w)
        <5>1. w \in DOMAIN checks BY <2>1, <4>2 DEF CheckTypes
        <5> DEFINE over == max[w] > limits[w]
                   no == FALSE
        <5>2. checks[w] = [limit |-> limits[w], current |-> max[w], violated |-> over,
                           whitelisted |-> no]
          BY <2>1, <5>1 DEF checkResult
        <5>3. ~no OBVIOUS
        <5> HIDE DEF over, no
        <5>4. checks[w].violated = over /\ checks[w].whitelisted = no BY <5>2, ResultFields
        <5> DEFINE fires(j) == checks[j].violated /\ ~checks[j].whitelisted
                   event(j) == [type |-> j, limit |-> checks[j].limit, current |-> checks[j].current]
        <5>a. events = {event(j) : j \in {i \in DOMAIN checks : fires(i)}}
          BY <1>1 DEF ResultInv
        <5>b. event(w).type = w OBVIOUS
        <5>c. ~fires(w)
          <6> HIDE DEF fires, event
          <6> QED BY <3>4, <5>1, <5>a, <5>b
        <5>5. ~(checks[w].violated /\ ~checks[w].whitelisted) BY <5>c
        <5>6. ~over BY <5>3, <5>4, <5>5, Zenon
        <5> QED BY <3>2, <3>4, <5>6 DEF ShownWeight, over
      <4> QED BY <4>1, <4>2
    <3> QED BY <3>3, <3>4
  <2>6. ASSUME NEW k \in disabledChecks
        PROVE  /\ k \notin DOMAIN toViolationDetails.checks
               /\ k # w => toViolationStats[k] = 0
    <3>1. k \notin DOMAIN checks BY <2>1 DEF IsCheckDisabled
    <3>2. k \notin DOMAIN toViolationDetails.checks
      BY <3>1 DEF toViolationDetails, toCheckMetrics
    <3>3. ASSUME k # w PROVE toViolationStats[k] = 0
      <4>1. k \in MetricCheckTypes BY <1>1, <3>3 DEF TypeOK, CheckTypes
      <4> QED BY <1>1, <4>1, DisabledLists DEF toViolationStats, IsCheckDisabled
    <3> QED BY <3>2, <3>3
  <2>7. toViolationDetails.responseWeight = responseWeight BY DEF toViolationDetails
  <2> QED BY <2>3, <2>4, <2>5, <2>6, <2>7 DEF AlarmsAreShown
<1>2. TypeOK /\ Coverage /\ ReportInv /\ ResultInv /\ ShownInv /\ AlarmsAreExact => AlarmsAreShown
  BY <1>1 DEF AlarmsAreShown
<1> QED BY <1>2, AlarmInvariant, AlarmsAreRight, TypeInvariant, ShownInit, ShownStep, PTL DEF Spec

----------------------------------------------------------------------------
(***************************************************************************)
(* The stored rows can be read, and the rules in force between the two     *)
(* queries are a chain from those the metric rules came from to the        *)
(* current ones, each differing from the one before in one table.          *)
(***************************************************************************)
Readable ==
  \A i \in DOMAIN Scopes : /\ \A m \in MetricNames : parseMetricChecksJSON(metricsWhitelist[i][m])
                           /\ parseTargetChecksJSON(targetsWhitelist[i])

AtMostTwo(S) == \A a, b, c \in S : a = b \/ b = c \/ a = c
OneTableApart(v, w) == v[1] = w[1] \/ v[2] = w[2]

Chain ==
  /\ InForce \in versions
  /\ \E t : <<metricChecks, t>> \in versions
  /\ AtMostTwo(versions) => \A v, w \in versions : OneTableApart(v, w)

RulesInv ==
  /\ Readable /\ IsFiniteSet(versions)
  /\ pc \in Loading => ~faulty
  /\ pc = "targetRules" => Chain
  /\ pc \notin Loading =>
       IF faulty THEN rules = <<NoRules, {}>>
       ELSE AtMostTwo(versions) => rules \in versions

(* The filter of the queries selects the rows that are meant for the task. *)
LEMMA OwnRows == ASSUME task \in TaskLabels PROVE Selected = Addressed
<1>1. CASE task[1] = Empty \/ task[2] = Empty BY <1>1 DEF Addressed
<1>2. CASE ~(task[1] = Empty \/ task[2] = Empty)
  <2>1. Addressed = {i \in DOMAIN Scopes : Scopes[i] = task} BY <1>2 DEF Addressed
  <2>2. ASSUME NEW i \in DOMAIN Scopes
        PROVE (\A j \in 1..2 : task[j] \in {Empty, Scopes[i][j]}) <=> Scopes[i] = task
    <3>1. Scopes[i] = <<Scopes[i][1], Scopes[i][2]>> /\ task = <<task[1], task[2]>>
      BY ChecksAssumption
    <3>2. (\A j \in 1..2 : task[j] \in {Empty, Scopes[i][j]})
            <=> task[1] = Scopes[i][1] /\ task[2] = Scopes[i][2]
      BY <1>2
    <3> QED BY <3>1, <3>2, Zenon
  <2> QED BY <2>1, <2>2 DEF Selected
<1> QED BY <1>1, <1>2

(* The rules in force depend on the tables and on the task only. *)
LEMMA AddressedSame == ASSUME UNCHANGED task PROVE Addressed' = Addressed
  BY DEF Addressed, Selected

LEMMA MetricRulesSame ==
  ASSUME UNCHANGED <<task, metricsWhitelist>>
  PROVE  MetricRules(Addressed)' = MetricRules(Addressed)
<1>1. \A m : RowsOf(m, Addressed)' = RowsOf(m, Addressed) BY AddressedSame DEF RowsOf
<1> QED BY <1>1, AddressedSame DEF MetricRules

LEMMA TargetRulesSame ==
  ASSUME UNCHANGED <<task, targetsWhitelist>>
  PROVE  TargetRules(Addressed)' = TargetRules(Addressed)
  BY AddressedSame DEF TargetRules

LEMMA InForceSame == ASSUME UNCHANGED <<task, tables>> PROVE InForce' = InForce
  BY MetricRulesSame, TargetRulesSame DEF InForce, tables

LEMMA ChainEdit ==
  ASSUME Chain, metricChecks' = metricChecks, versions' = versions \union {InForce'},
         OneTableApart(InForce', InForce)
  PROVE  Chain'
<1>1. InForce' \in versions' /\ \E t : <<metricChecks', t>> \in versions' BY DEF Chain
<1>3. ASSUME AtMostTwo(versions'), NEW v \in versions', NEW w \in versions'
      PROVE OneTableApart(v, w)
  <2>1. AtMostTwo(versions) BY <1>3 DEF AtMostTwo
  <2>2. \A x, y \in versions : OneTableApart(x, y) BY <2>1 DEF Chain
  <2>3. CASE InForce' \in versions BY <2>2, <2>3
  <2>4. CASE InForce' \notin versions
    <3>1. InForce \in versions BY DEF Chain
    <3>2. \A x \in versions : x = InForce
      <4> SUFFICES ASSUME NEW x \in versions PROVE x = InForce OBVIOUS
      <4>1. x \in versions' /\ InForce \in versions' /\ InForce' \in versions' BY <1>1, <3>1
      <4>2. x = InForce \/ InForce = InForce' \/ x = InForce' BY <1>3, <4>1 DEF AtMostTwo
      <4> QED BY <2>4, <3>1, <4>2
    <3> QED BY <3>2 DEF OneTableApart
  <2> QED BY <2>3, <2>4
<1> QED BY <1>1, <1>3 DEF Chain

LEMMA RulesEdit ==
  ASSUME RulesInv, Edit, Readable',
         metricsWhitelist' = metricsWhitelist \/ targetsWhitelist' = targetsWhitelist
  PROVE  RulesInv'
<1>1. UNCHANGED <<pc, task, faulty, rules, metricChecks>> BY DEF Edit, rules
<1>2. CASE pc = "targetRules"
  <2>1. versions' = versions \union {InForce'} BY <1>2 DEF Edit
  <2>2. OneTableApart(InForce', InForce)
    BY <1>1, MetricRulesSame, TargetRulesSame DEF OneTableApart, InForce
  <2>3. Chain' BY <1>1, <1>2, <2>1, <2>2, ChainEdit DEF RulesInv
  <2>4. IsFiniteSet(versions') BY <2>1, FS_AddElement DEF RulesInv
  <2> QED BY <1>1, <1>2, <2>3, <2>4 DEF RulesInv, Loading
<1>3. CASE pc # "targetRules"
  <2>1. versions' = versions BY <1>3 DEF Edit
  <2> QED BY <1>1, <1>3, <2>1 DEF RulesInv, AtMostTwo
<1> QED BY <1>2, <1>3

(* A row that can be read replaces another. *)
LEMMA ReadableMetric ==
  ASSUME TablesTypeOK, Readable, NEW i \in DOMAIN Scopes, NEW m \in MetricNames,
         NEW c, parseMetricChecksJSON(c),
         metricsWhitelist' = [metricsWhitelist EXCEPT ![i][m] = c], UNCHANGED targetsWhitelist
  PROVE  Readable'
<1> DEFINE row == [metricsWhitelist[i] EXCEPT ![m] = c]
<1>1. \A n \in MetricNames : parseMetricChecksJSON(row[n])
  <2>1. metricsWhitelist[i] = [n \in MetricNames |-> metricsWhitelist[i][n]]
    BY DEF TablesTypeOK, IsMetricChecks
  <2>2. ASSUME NEW n \in MetricNames PROVE row[n] = IF n = m THEN c ELSE metricsWhitelist[i][n]
    BY <2>1
  <2> QED BY <2>2 DEF Readable
<1>2. metricsWhitelist' = [metricsWhitelist EXCEPT ![i] = row] OBVIOUS
<1> HIDE DEF row
<1>3. ASSUME NEW j \in DOMAIN Scopes, NEW n \in MetricNames
      PROVE parseMetricChecksJSON(metricsWhitelist'[j][n])
  <2>1. metricsWhitelist'[j] = IF j = i THEN row ELSE metricsWhitelist[j]
    BY <1>2 DEF TablesTypeOK
  <2> QED BY <1>1, <2>1 DEF Readable
<1> QED BY <1>3 DEF Readable

LEMMA ReadableTarget ==
  ASSUME TablesTypeOK, Readable, NEW i \in DOMAIN Scopes, NEW c, parseTargetChecksJSON(c),
         targetsWhitelist' = [targetsWhitelist EXCEPT ![i] = c], UNCHANGED metricsWhitelist
  PROVE  Readable'
<1>1. ASSUME NEW j \in DOMAIN Scopes PROVE parseTargetChecksJSON(targetsWhitelist'[j])
  <2>1. targetsWhitelist'[j] = IF j = i THEN c ELSE targetsWhitelist[j] BY DEF TablesTypeOK
  <2> QED BY <2>1 DEF Readable
<1> QED BY <1>1 DEF Readable

LEMMA RulesEditWhitelists == ASSUME TypeOK, RulesInv, EditWhitelists PROVE RulesInv'
<1>0. Readable /\ TablesTypeOK BY DEF RulesInv, TypeOK
<1>1. ASSUME NEW i \in DOMAIN Scopes, NEW m \in MetricNames, NEW r \in MetricRequests,
             UpsertMetricWhitelist(i, m, r)
      PROVE RulesInv'
  <2>1. parseMetricChecksJSON(fromMetricWhitelistChecks(r))
    BY <1>1 DEF UpsertMetricWhitelist, marshalMetricChecks, parseMetricChecksJSON
  <2>2. Readable' BY <1>0, <1>1, <2>1, ReadableMetric DEF UpsertMetricWhitelist
  <2> QED BY <1>1, <2>2, RulesEdit DEF UpsertMetricWhitelist
<1>2. ASSUME NEW i \in DOMAIN Scopes, NEW m \in MetricNames, DeleteMetricWhitelist(i, m)
      PROVE RulesInv'
  <2>1. parseMetricChecksJSON(NoChecks) BY DEF parseMetricChecksJSON, NoChecks
  <2>2. Readable' BY <1>0, <1>2, <2>1, ReadableMetric DEF DeleteMetricWhitelist
  <2> QED BY <1>2, <2>2, RulesEdit DEF DeleteMetricWhitelist
<1>3. ASSUME NEW i \in DOMAIN Scopes, NEW c \in TargetRequests, UpsertTargetWhitelist(i, c)
      PROVE RulesInv'
  <2>1. parseTargetChecksJSON(c)
    BY <1>3 DEF UpsertTargetWhitelist, marshalTargetChecks, parseTargetChecksJSON
  <2>2. Readable' BY <1>0, <1>3, <2>1, ReadableTarget DEF UpsertTargetWhitelist
  <2> QED BY <1>3, <2>2, RulesEdit DEF UpsertTargetWhitelist
<1>4. ASSUME NEW i \in DOMAIN Scopes, DeleteTargetWhitelist(i) PROVE RulesInv'
  <2>1. parseTargetChecksJSON({}) BY DEF parseTargetChecksJSON
  <2>2. Readable' BY <1>0, <1>4, <2>1, ReadableTarget DEF DeleteTargetWhitelist
  <2> QED BY <1>4, <2>2, RulesEdit DEF DeleteTargetWhitelist
<1> QED BY <1>1, <1>2, <1>3, <1>4 DEF EditWhitelists

(* Steps that leave tables, rules and history alone. *)
LEMMA RulesSame ==
  ASSUME RulesInv, UNCHANGED <<tables, rules, history>>, pc \in Loading <=> pc' \in Loading,
         pc' # "targetRules"
  PROVE  RulesInv'
  BY DEF RulesInv, tables, rules, history, Readable, AtMostTwo

LEMMA RulesStep == TypeOK /\ Coverage /\ RulesInv /\ [Next]_vars => RulesInv'
<1> SUFFICES ASSUME TypeOK, Coverage, RulesInv, [Next]_vars PROVE RulesInv' OBVIOUS
<1>0. Selected = Addressed BY OwnRows DEF TypeOK
<1>1. CASE EditWhitelists BY <1>1, RulesEditWhitelists
<1>2. CASE Process
  <2>1. IsFiniteSet({}) BY FS_EmptySet
  <2> QED BY <1>2, <2>1 DEF Process, RulesInv, Readable, Loading, tables
<1>3. CASE GetMetricLimits BY <1>3, RulesSame DEF GetMetricLimits, Loading
<1>4. CASE ListMetricWhitelist
  <2>1. /\ pc = "metricRules" /\ pc' = "targetRules" /\ versions' = {InForce}
        /\ metricChecks' = MetricRules(Addressed)
        /\ UNCHANGED <<tables, task, metricsWhitelist, targetsWhitelist, faulty>>
    BY <1>0, <1>4 DEF ListMetricWhitelist, tables
  <2>2. IsFiniteSet(versions') BY <2>1, FS_Singleton
  <2>3. InForce' = InForce BY <2>1, InForceSame
  <2>4. InForce = <<metricChecks', TargetRules(Addressed)>> BY <2>1 DEF InForce
  <2>5. Chain' BY <2>1, <2>3, <2>4 DEF Chain, OneTableApart
  <2> QED BY <2>1, <2>2, <2>5 DEF RulesInv, Readable, Loading
<1>5. CASE ListTargetWhitelist
  <2>1. /\ pc = "targetRules" /\ pc' = "fetch" /\ metricChecks' = metricChecks
        /\ disabledChecks' = TargetRules(Addressed)
        /\ UNCHANGED <<metricsWhitelist, targetsWhitelist, versions, faulty>>
    BY <1>0, <1>5 DEF ListTargetWhitelist, tables, history
  <2>2. ~faulty /\ Chain BY <2>1 DEF RulesInv, Loading
  <2>3. ASSUME AtMostTwo(versions) PROVE <<metricChecks, TargetRules(Addressed)>> \in versions
    <3>1. PICK t : <<metricChecks, t>> \in versions BY <2>2 DEF Chain
    <3>2. <<MetricRules(Addressed), TargetRules(Addressed)>> \in versions
      BY <2>2 DEF Chain, InForce
    <3>3. metricChecks = MetricRules(Addressed) \/ t = TargetRules(Addressed)
      BY <2>2, <2>3, <3>1, <3>2 DEF Chain, OneTableApart
    <3> QED BY <3>1, <3>2, <3>3
  <2>4. rules' = <<metricChecks, TargetRules(Addressed)>> BY <2>1 DEF rules
  <2> QED BY <2>1, <2>2, <2>3, <2>4 DEF RulesInv, Readable, Loading, AtMostTwo
<1>6. CASE LoadFails
  <2>1. /\ pc \in {"metricRules", "targetRules"} /\ pc' = "fetch"
        /\ rules' = <<NoRules, {}>>
        /\ UNCHANGED <<metricsWhitelist, targetsWhitelist, versions>>
    BY <1>6 DEF LoadFails, tables, rules
  <2>2. ~Unreadable BY DEF RulesInv, Readable, Unreadable, Selected
  <2>3. faulty' BY <1>6, <2>2 DEF LoadFails
  <2> QED BY <2>1, <2>3 DEF RulesInv, Readable, Loading
<1>7. CASE ScrapeAddress
  <2>1. pc = "scan" \/ pc = "fetch"
    BY <1>7 DEF ScrapeAddress, GetTargetMetrics, FetchFails, handleMetricFamily,
                checkResponseWeight, Coverage
  <2>2. UNCHANGED <<tables, rules, history>> /\ pc' \in {"scan", "fetch"}
    BY <1>7, <2>1 DEF ScrapeAddress, GetTargetMetrics, FetchFails, handleMetricFamily,
                      checkMetric, checkResponseWeight
  <2> QED BY <2>1, <2>2, RulesSame DEF Loading
<1>8. CASE buildCheckResults BY <1>8, RulesSame DEF buildCheckResults, Loading
<1>9. CASE ProcessFails BY <1>9, RulesSame DEF ProcessFails, Loading
<1>10. CASE buildViolationOutboxEvents
  BY <1>10, RulesSame DEF buildViolationOutboxEvents, Loading
<1>11. CASE UNCHANGED vars
  <2>1. InForce' = InForce BY <1>11, InForceSame DEF vars
  <2>2. UNCHANGED <<pc, versions, faulty, metricChecks, metricsWhitelist, targetsWhitelist, rules>>
    BY <1>11 DEF vars, tables, rules, history
  <2>3. Chain => Chain' BY <2>1, <2>2 DEF Chain
  <2>4. Readable' BY <2>2 DEF RulesInv, Readable
  <2> QED BY <2>2, <2>3, <2>4 DEF RulesInv
<1> QED
  BY <1>1, <1>2, <1>3, <1>4, <1>5, <1>6, <1>7, <1>8, <1>9, <1>10, <1>11 DEF Next

LEMMA RulesInit == Init => RulesInv
<1> SUFFICES ASSUME Init PROVE RulesInv OBVIOUS
<1>1. Readable
  <2>1. ASSUME NEW i \in DOMAIN Scopes, NEW m \in MetricNames
        PROVE parseMetricChecksJSON(metricsWhitelist[i][m])
    BY DEF Init, parseMetricChecksJSON, NoRules, NoChecks
  <2>2. ASSUME NEW i \in DOMAIN Scopes PROVE parseTargetChecksJSON(targetsWhitelist[i])
    BY DEF Init, parseTargetChecksJSON
  <2> QED BY <2>1, <2>2 DEF Readable
<1>2. IsFiniteSet(versions) BY FS_EmptySet DEF Init
<1> QED BY <1>1, <1>2 DEF Init, RulesInv, Loading

(* Three different elements make a set of more than two. *)
LEMMA MoreThanTwo ==
  ASSUME NEW S, IsFiniteSet(S), ~AtMostTwo(S)
  PROVE  Cardinality(S) > 2
<1>1. PICK a \in S, b \in S, c \in S : a # b /\ b # c /\ a # c BY DEF AtMostTwo
<1> DEFINE A == {a}
<1>2. IsFiniteSet(A) /\ Cardinality(A) = 1 BY FS_Singleton, Zenon
<1>3. b \notin A BY <1>1
<1> DEFINE P == A \union {b}
<1>4. c \notin P /\ P \union {c} \subseteq S BY <1>1
<1> HIDE DEF A
<1>5. /\ IsFiniteSet(P)
      /\ Cardinality(P) = IF b \in A THEN Cardinality(A) ELSE Cardinality(A) + 1
  BY <1>2, FS_AddElement, Zenon
<1>6. IsFiniteSet(P) /\ Cardinality(P) = 2
  <2> HIDE DEF P
  <2> QED BY <1>2, <1>3, <1>5
<1> HIDE DEF P
<1>7. Cardinality(P \union {c}) = IF c \in P THEN Cardinality(P) ELSE Cardinality(P) + 1
  BY <1>6, FS_AddElement, Zenon
<1>8. Cardinality(P \union {c}) = 3 BY <1>6, <1>4, <1>7
<1>9. Cardinality(P \union {c}) <= Cardinality(S) BY <1>4, FS_Subset
<1>10. Cardinality(S) \in Nat BY FS_CardinalityType
<1> QED BY <1>8, <1>9, <1>10

(***************************************************************************)
(* However many edits race a scrape, it runs under whitelists of its own   *)
(* target group and env that were in force together, unless they changed   *)
(* twice between the queries, and what the API stored never keeps it from  *)
(* loading them.                                                           *)
(***************************************************************************)
THEOREM RulesAreInForce == Spec => []RulesWereInForce
<1>1. TypeOK /\ RulesInv => RulesWereInForce
  <2> SUFFICES ASSUME TypeOK, RulesInv, pc \notin Loading, ~faulty, rules \notin versions
               PROVE  Cardinality(versions) > 2
    BY Zenon DEF RulesWereInForce, RulesInv, Loading, TypeOK
  <2> QED BY MoreThanTwo DEF RulesInv
<1> QED BY <1>1, RulesInit, RulesStep, ReportInvariant, PTL DEF Spec
=============================================================================
