-------------------------------- MODULE Scoring --------------------------------
(***************************************************************************)
(* The four scores of an analysis, as integers: a percentage is rounded as *)
(* Math.round does, the decay of freshness is in tenths of a point per     *)
(* minute, times are in seconds.                                           *)
(***************************************************************************)
EXTENDS Integers, FiniteSets

IncidentType ==
    {"CLOUD_OUTAGE", "SECURITY_BREACH", "DATA_LOSS", "PERFORMANCE_DEGRADATION", "OTHER"}
IncidentSeverity == {"CRITICAL", "HIGH", "MEDIUM", "LOW"}
EvidenceSourceCategory ==
    {"CLOUD_PROVIDER", "MONITORING", "LOG_AGGREGATOR", "TICKETING", "HUMAN", "CHAT", "OTHER"}

REQUIRED_EVIDENCE_SOURCES ==
    [type \in IncidentType |->
        CASE type = "CLOUD_OUTAGE" -> {"MONITORING", "CLOUD_PROVIDER"}
          [] type = "SECURITY_BREACH" -> {"MONITORING", "LOG_AGGREGATOR", "HUMAN"}
          [] type = "DATA_LOSS" -> {"LOG_AGGREGATOR", "CLOUD_PROVIDER"}
          [] type = "PERFORMANCE_DEGRADATION" -> {"MONITORING", "LOG_AGGREGATOR"}
          [] type = "OTHER" -> {}]

RELIABILITY_BY_SOURCE_CATEGORY ==
    [category \in EvidenceSourceCategory |->
        CASE category = "CLOUD_PROVIDER" -> 95 [] category = "MONITORING" -> 90
          [] category = "LOG_AGGREGATOR" -> 85 [] category = "TICKETING" -> 70
          [] category = "HUMAN" -> 60 [] category = "CHAT" -> 40
          [] category = "OTHER" -> 50]

FRESHNESS_DEGRADATION_FACTOR == [CRITICAL |-> 50, HIGH |-> 20, MEDIUM |-> 10, LOW |-> 3]

\* Math.round(n / d)
Round(n, d) == (2 * n + d) \div (2 * d)

\* Faulty variant: the score is not clamped.
Unclamped(n) == n

AtLeast0(n) == IF n < 0 THEN 0 ELSE n
AtMost(limit, n) == IF n > limit THEN limit ELSE n

\* `rows` holds the rows of evidence by their ids.
CategoriesOf(rows) == {rows[e].category : e \in DOMAIN rows}
Count(rows) == Cardinality(DOMAIN rows)
CountOf(category, rows) == Cardinality({e \in DOMAIN rows : rows[e].category = category})

EvidenceCompleteness(type, rows) ==
    LET required == REQUIRED_EVIDENCE_SOURCES[type]
    IN  IF required = {} THEN 100
        ELSE Round(100 * Cardinality(required \cap CategoriesOf(rows)), Cardinality(required))

\* The mean of the rows' reliabilities; the sum goes by the categories.
SourceReliability(rows) ==
    LET of(category) == RELIABILITY_BY_SOURCE_CATEGORY[category] * CountOf(category, rows)
    IN  IF DOMAIN rows = {} THEN 0
        ELSE Round(of("CLOUD_PROVIDER") + of("MONITORING") + of("LOG_AGGREGATOR")
                   + of("TICKETING") + of("HUMAN") + of("CHAT") + of("OTHER"), Count(rows))

\* Bounded below by 0, and not above.
DataFreshness(severity, rows, at) ==
    LET latest == CHOOSE t \in {rows[e].at : e \in DOMAIN rows} :
                    \A e \in DOMAIN rows : rows[e].at <= t
    IN  IF DOMAIN rows = {} THEN 0
        ELSE AtLeast0(Round(60000 - (at - latest) * FRESHNESS_DEGRADATION_FACTOR[severity], 600))

AiCertainty(rows, conflicts) ==
    AtLeast0(AtMost(100, AtMost(70, 15 * Count(rows))
                         + AtMost(20, 7 * Cardinality(CategoriesOf(rows))) - 15 * conflicts))

\* buildConfidenceBreakdown: the four dimensions, as of `at`.
ConfidenceBreakdown(room, rows, conflicts, at) ==
    [evidenceCompleteness |-> EvidenceCompleteness(room.type, rows),
     sourceReliability |-> SourceReliability(rows),
     dataFreshness |-> DataFreshness(room.severity, rows, at),
     aiCertainty |-> AiCertainty(rows, conflicts)]

\* Faulty variant: a score past 100 is stored too.
AnyContract(scores) == TRUE

\* AIOutputContractDto: every dimension is a percentage.
ValidContract(scores) == \A d \in DOMAIN scores : scores[d] \in 0..100
================================================================================
