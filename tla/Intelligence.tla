------------------------------ MODULE Intelligence ------------------------------
(***************************************************************************)
(* Evidence and its scoring: EvidenceService, the webhooks, the Decision   *)
(* Intelligence Engine and the simulated scenarios.                        *)
(*                                                                         *)
(* A handler is one READ COMMITTED transaction: what it writes is seen     *)
(* when it commits, and what others commit meanwhile is.  A database error *)
(* poisons it: its commit then rolls back.  analyze takes its clock before *)
(* it reads the evidence, list recomputes the breakdown from the frozen    *)
(* evidence ids at the createdAt of the row.                               *)
(***************************************************************************)
EXTENDS Scoring, Sequences

CONSTANTS
    Rooms,          \* the ids incidents can get
    Types, Severities,  \* the kinds of incident users open
    EvidenceIds,    \* the ids rows of evidence can get
    Categories,     \* the source categories of the evidence users add
    Providers,      \* the integrations that send webhooks
    Conflicts,      \* how much conflicting information an analysis may list
    Jobs,           \* requests that can be in flight at once
    Ticks,          \* how many seconds can pass at once
    Timeout,        \* seconds after which a transaction is rolled back
    MaxClock, MaxAnalyses,  \* bounds on the clock and on the analyses
    Absent          \* no row

ASSUME ClockBounds == Ticks \subseteq Nat \ {0} /\ {Timeout, MaxClock, MaxAnalyses} \subseteq Nat
ASSUME ConflictCounts == Conflicts \subseteq Nat
ASSUME EvidenceIsFinite == IsFiniteSet(EvidenceIds)

\* What the alerts of each provider count as.
PROVIDER_TO_SOURCE_CATEGORY ==
    [SERVICENOW |-> "TICKETING", JIRA |-> "TICKETING", SLACK |-> "CHAT", TEAMS |-> "CHAT",
     AWS |-> "CLOUD_PROVIDER", AZURE |-> "CLOUD_PROVIDER", GCP |-> "CLOUD_PROVIDER",
     SPLUNK |-> "LOG_AGGREGATOR", DATADOG |-> "MONITORING", MICROSOFT_SENTINEL |-> "MONITORING"]

ASSUME UserInput ==
    /\ Types \subseteq IncidentType /\ Severities \subseteq IncidentSeverity
    /\ Categories \subseteq EvidenceSourceCategory
    /\ Providers \subseteq DOMAIN PROVIDER_TO_SOURCE_CATEGORY

VARIABLES
    clock,      \* in seconds
    rooms,      \* incidents, by their ids: a Room, or Absent
    evidence,   \* evidence, by its ids: an EvidenceRow, or Absent
    analyses,   \* intelligence_analyses
    job         \* one open transaction, or Free, per request

intelVars == <<clock, rooms, evidence, analyses, job>>

------------------------------------------------------------------------------
\* The statements of each handler, in order.  A poisoned scenario skips to its end.
Program ==
    [incident |-> <<"incident">>,
     evidence |-> <<"evidence">>,
     analyze  |-> <<"clock", "read", "analysis">>,
     CYBER_RANSOMWARE |-> <<"incident", "evidence", "decisions">>,
     CLOUD_OUTAGE_PARTIAL_EVIDENCE |->
        <<"incident", "evidence", "configure", "trip", "clock", "read", "analysis">>]

Scenarios == {"CYBER_RANSOMWARE", "CLOUD_OUTAGE_PARTIAL_EVIDENCE"}

\* `by` is what created an incident: a user or a scenario.  An analysis keeps the
\* ids of the evidence it used, its scores and its createdAt.
Room == [type : IncidentType, severity : IncidentSeverity, by : {"incident"} \cup Scenarios]
EvidenceRow == [room : Rooms, category : EvidenceSourceCategory, at : 0..MaxClock]
EvidenceRows == UNION {[ids -> EvidenceRow] : ids \in SUBSET EvidenceIds}
Scores == [evidenceCompleteness : 0..100, sourceReliability : 0..100,
           dataFreshness : 0..100, aiCertainty : 0..100]
Analysis == [room : Rooms, used : SUBSET EvidenceIds, conflicts : Nat,
             scores : Scores, at : 0..MaxClock]

\* A job: the statements it has done, the rows it creates, the evidence it read
\* and its clock, and its result.
About == [type : IncidentType, severity : IncidentSeverity]
            \cup [category : EvidenceSourceCategory] \cup {Absent}
Job == [kind : DOMAIN Program, id : Rooms, about : About, done : 0..7, since : 0..MaxClock,
        room : Room \cup {Absent}, eid : EvidenceIds \cup {Absent},
        row : EvidenceRow \cup {Absent}, asOf : 0..MaxClock,
        read : EvidenceRows \cup {Absent}, result : Analysis \cup {Absent},
        poisoned : BOOLEAN]
Free == [kind |-> "none"]

ASSUME AbsentIsNoRow ==
    Absent \notin Rooms \cup EvidenceIds \cup Room \cup EvidenceRow \cup Analysis

IntelTypeOK ==
    /\ clock \in 0..MaxClock
    /\ rooms \in [Rooms -> Room \cup {Absent}]
    /\ evidence \in [EvidenceIds -> EvidenceRow \cup {Absent}]
    /\ analyses \subseteq Analysis
    /\ job \in [Jobs -> Job \cup {Free}]

\* The incident and the evidence of each scenario.
ScenarioRoom ==
    [CYBER_RANSOMWARE |-> [type |-> "SECURITY_BREACH", severity |-> "CRITICAL"],
     CLOUD_OUTAGE_PARTIAL_EVIDENCE |-> [type |-> "CLOUD_OUTAGE", severity |-> "HIGH"]]
ScenarioCategory ==
    [CYBER_RANSOMWARE |-> "MONITORING", CLOUD_OUTAGE_PARTIAL_EVIDENCE |-> "CLOUD_PROVIDER"]

------------------------------------------------------------------------------
Working == {j \in Jobs : job[j] # Free}
Steps(j) == Program[job[j].kind]
NextIs(j, step) ==
    j \in Working /\ job[j].done < Len(Steps(j)) /\ Steps(j)[job[j].done + 1] = step

\* What a transaction sees: what is committed, and its own.
RoomSeen(j) == IF job[j].room = Absent THEN rooms[job[j].id] ELSE job[j].room
EvidenceSeen(j) ==
    LET own == IF job[j].row = Absent THEN {} ELSE {job[j].eid}
        ids == own \cup {e \in EvidenceIds : evidence[e] # Absent /\ evidence[e].room = job[j].id}
    IN  [e \in ids |-> IF e \in own THEN job[j].row ELSE evidence[e]]

Does(j, changes) ==
    /\ job' = [job EXCEPT ![j] = [changes EXCEPT !.done = @ + 1]]
    /\ UNCHANGED <<clock, rooms, evidence, analyses>>

\* A request starts: on incident `id`, a new one when it creates it.
Begin(j, kind, id, about) ==
    /\ job[j] = Free
    /\ IF kind \in {"incident"} \cup Scenarios
          THEN rooms[id] = Absent /\ \A k \in Working : job[k].id # id
          ELSE rooms[id] # Absent
    /\ job' = [job EXCEPT ![j] =
          [kind |-> kind, id |-> id, about |-> about, done |-> 0, since |-> clock,
           room |-> Absent, eid |-> Absent, row |-> Absent,
           asOf |-> 0, read |-> Absent, result |-> Absent, poisoned |-> FALSE]]
    /\ UNCHANGED <<clock, rooms, evidence, analyses>>

\* IncidentsService.create, of a user or of a scenario.
CreateIncident(j) ==
    /\ NextIs(j, "incident")
    /\ LET kind == job[j].kind
           what == IF kind \in Scenarios THEN ScenarioRoom[kind] ELSE job[j].about
       IN  Does(j, [job[j] EXCEPT !.room =
              [type |-> what.type, severity |-> what.severity, by |-> kind]])

\* EvidenceService.create, of a user, a webhook or a scenario.
CreateEvidence(j) ==
    \E e \in EvidenceIds :
        /\ NextIs(j, "evidence")
        /\ evidence[e] = Absent /\ \A k \in Working : job[k].eid # e
        /\ Does(j, [job[j] EXCEPT !.eid = e, !.row =
              [room |-> job[j].id, at |-> clock,
               category |-> IF job[j].kind \in Scenarios THEN ScenarioCategory[job[j].kind]
                            ELSE job[j].about.category]])

\* The two open decisions of one scenario; the DATADOG row and the three
\* broadcasts of the other, which IntegrationsRegistry and CircuitBreaker model.
Proceed(j) ==
    /\ \E step \in {"decisions", "configure", "trip"} : NextIs(j, step)
    /\ Does(j, job[j])

\* analyze: now, a default argument, is taken first ...
TakeClock(j) == NextIs(j, "clock") /\ Does(j, [job[j] EXCEPT !.asOf = clock])

\* ... then the evidence is read ...
ReadEvidence(j) == NextIs(j, "read") /\ Does(j, [job[j] EXCEPT !.read = EvidenceSeen(j)])

ScoresOf(j, conflicts) == ConfidenceBreakdown(RoomSeen(j), job[j].read, conflicts, job[j].asOf)

\* ... and the analysis is stored, stamped as it is.
CreateAnalysis(j) ==
    \E conflicts \in IF job[j].kind = "analyze" THEN Conflicts ELSE {0} :
        LET scores == ScoresOf(j, conflicts)
        IN  /\ NextIs(j, "analysis")
            /\ ValidContract(scores)
            /\ Does(j, [job[j] EXCEPT !.result =
                  [room |-> job[j].id, used |-> DOMAIN job[j].read, conflicts |-> conflicts,
                   scores |-> scores, at |-> clock]])

\* 404, 400, a failed statement, the timeout or a crash: all is rolled back.
Undo(j) ==
    /\ j \in Working
    /\ job' = [job EXCEPT ![j] = Free]
    /\ UNCHANGED <<clock, rooms, evidence, analyses>>

\* The scenario catches what analyze throws, here a database error.  (Its contract
\* is met: no evidence of its incident is later than its clock.)
FailAnalysis(j) ==
    /\ NextIs(j, "read") \/ NextIs(j, "analysis")
    /\ job[j].kind \in Scenarios
    /\ job' = [job EXCEPT ![j].done = Len(Steps(j)), ![j].poisoned = TRUE]
    /\ UNCHANGED <<clock, rooms, evidence, analyses>>

\* Faulty variant: the error that was caught does not end the transaction.
Survives(j) == TRUE

\* Postgres commits nothing of a transaction one of whose statements failed.
Sound(j) == ~job[j].poisoned

Commit(j) ==
    /\ j \in Working /\ job[j].done = Len(Steps(j)) /\ Sound(j)
    /\ rooms' = IF job[j].room = Absent THEN rooms
                 ELSE [rooms EXCEPT ![job[j].id] = job[j].room]
    /\ evidence' = IF job[j].row = Absent THEN evidence
                    ELSE [evidence EXCEPT ![job[j].eid] = job[j].row]
    /\ analyses' = IF job[j].result = Absent THEN analyses ELSE analyses \cup {job[j].result}
    /\ Cardinality(analyses') <= MaxAnalyses
    /\ job' = [job EXCEPT ![j] = Free]
    /\ UNCHANGED clock

\* Time passes; no transaction outlives its timeout.
Passes(d) ==
    /\ clock + d <= MaxClock
    /\ \A j \in Working : clock + d - job[j].since <= Timeout
    /\ clock' = clock + d
    /\ UNCHANGED <<rooms, evidence, analyses, job>>

------------------------------------------------------------------------------
IntelInit ==
    /\ clock = 0 /\ analyses = {}
    /\ rooms = [i \in Rooms |-> Absent] /\ evidence = [e \in EvidenceIds |-> Absent]
    /\ job = [j \in Jobs |-> Free]

IntelNext ==
    \/ \E j \in Jobs :
          \/ \E id \in Rooms :
                \/ \E type \in Types, severity \in Severities :
                      Begin(j, "incident", id, [type |-> type, severity |-> severity])
                \/ \E category \in Categories : Begin(j, "evidence", id, [category |-> category])
                \/ \E p \in Providers :
                      Begin(j, "evidence", id, [category |-> PROVIDER_TO_SOURCE_CATEGORY[p]])
                \/ \E kind \in Scenarios \cup {"analyze"} : Begin(j, kind, id, Absent)
          \/ CreateIncident(j) \/ CreateEvidence(j) \/ Proceed(j)
          \/ TakeClock(j) \/ ReadEvidence(j) \/ CreateAnalysis(j)
          \/ Undo(j) \/ FailAnalysis(j) \/ Commit(j)
    \/ \E d \in Ticks : Passes(d)

IntelSpec == IntelInit /\ [][IntelNext]_intelVars

Promised == INSTANCE IntelligencePromise

------------------------------------------------------------------------------
\* list rebuilds the breakdown of each analysis from the evidence it used.
Frozen(a) == [e \in a.used |-> evidence[e]]

\* Faulty variant: the breakdown is as of the time of the request.
AsOfNow(a) == clock

AsOfCreation(a) == a.at

Listed(a) == ConfidenceBreakdown(rooms[a.room], Frozen(a), a.conflicts, AsOfCreation(a))

\* What is stored are percentages, and however late an analysis is listed its
\* breakdown shows the same numbers, but for the freshness it lost between the
\* clock analyze took and the row's createdAt: at most one request's decay.
ScoresStand ==
    \A a \in analyses :
        LET factor == FRESHNESS_DEGRADATION_FACTOR[rooms[a.room].severity]
        IN  /\ \A d \in DOMAIN a.scores : a.scores[d] \in 0..100
            /\ \A d \in DOMAIN a.scores \ {"dataFreshness"} : Listed(a)[d] = a.scores[d]
            /\ a.scores.dataFreshness - Listed(a).dataFreshness
                  \in 0..((Timeout * factor + 599) \div 600)

\* A scenario leaves all of its rows or none: its incident has the evidence it
\* scripts, and the cloud outage the analysis seeded on it, whatever failed or
\* was caught on the way.
ScenarioWhole ==
    \A i \in Rooms : (rooms[i] # Absent /\ rooms[i].by \in Scenarios) =>
        LET scripted == {e \in EvidenceIds : evidence[e] # Absent /\ evidence[e].room = i
                           /\ evidence[e].category = ScenarioCategory[rooms[i].by]}
        IN  /\ scripted # {}
            /\ rooms[i].by = "CLOUD_OUTAGE_PARTIAL_EVIDENCE" =>
                  \E a \in analyses : a.room = i /\ a.used \cap scripted # {}

\* The scores analyze computes meet its own contract, except that evidence read
\* may have been stored after its clock was taken and then counts as fresher than
\* fresh; of a scenario, which writes its evidence itself, never.
ScoresMeetContract ==
    \A j \in Working : NextIs(j, "analysis") =>
        LET late == \E e \in DOMAIN job[j].read : job[j].read[e].at > job[j].asOf
        IN  /\ \A c \in Conflicts \cup {0} : late \/ ValidContract(ScoresOf(j, c))
            /\ job[j].kind \in Scenarios => ~late

\* Whatever transactions overlap, fail, are caught or time out, the rows are those
\* of a service that stores each incident, each piece of evidence, each analysis
\* and each scenario in one step, and scores what was there.
KeepsIntelligence == Promised!Spec
=============================================================================
