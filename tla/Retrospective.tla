---------------------------- MODULE Retrospective ----------------------------
(***************************************************************************)
(* What is written about a room while it is open and after it is closed:   *)
(* intelligence analyses, outcomes of decisions, lessons learned and       *)
(* decision reports.  Their handlers only read the rows of the room, so    *)
(* the room itself is RoomPromise, which IncidentRoom implements.          *)
(*                                                                         *)
(* A handler is one READ COMMITTED transaction: each of its statements     *)
(* sees what is committed by then, and its row appears at its commit.  A   *)
(* time is a tick of one clock.  createdAt of an analysis is taken when    *)
(* the row is inserted, decidedAt when the decision is updated; both       *)
(* become visible later, at the commit.                                    *)
(***************************************************************************)
EXTENDS Naturals, Sequences, FiniteSets, StateMachines

CONSTANTS
    IncidentOf,     \* the incident of each decision
    Requests,       \* requests that can be in flight at once
    MaxTime,        \* bound on the clock
    MaxReports,     \* bound on the reports asked for
    None            \* no analysis, no row

ASSUME BelongsToIncident == IncidentOf \in [Decisions -> Incidents]
ASSUME TimeAndReportBounds == MaxTime \in Nat \ {0} /\ MaxReports \in Nat

VARIABLES
    status, reached,    \* the room: see RoomPromise
    now,                \* the clock
    openedAt,           \* when each decision appeared, 0 before
    decidedAt,          \* decisions.decidedAt, 0 for NULL
    decidedTimes,       \* history: every decidedAt a decision has had
    analyses,           \* committed analyses
    outcomes,           \* committed outcomes, in commit order
    lessons,            \* incidents with a lesson
    reports,            \* committed reports
    req                 \* one open transaction, or Idle, per request

room == <<status, reached, openedAt, decidedAt, decidedTimes>>
written == <<analyses, outcomes, lessons, reports>>
vars == <<room, written, now, req>>

Room == INSTANCE RoomPromise

------------------------------------------------------------------------------
Times == 0..MaxTime

\* `at` is createdAt; `seen` is history: the time of the commit.
Analysis == [incident : Incidents, at : Times, seen : Times]

ASSUME NoneIsNothing == None \notin Rows \cup Analysis

Outcome == [decision : Decisions, analysis : Analysis \cup {None}]

Report == [decision : Decisions, status : Statuses, timeline : SUBSET Statuses]

Labels == {"idle", "incident", "existing", "analysis", "insert", "timeline", "commit"}

Kinds == {"none", "outcome", "lesson", "analysis", "report"}

\* `at` is the decidedAt read, or the createdAt of an inserted analysis;
\* `link` the informing analysis found; `seen` and `told` the status and the
\* timeline read for a report.
Req == [ pc : Labels, kind : Kinds, row : Rows \cup {None}, at : Times,
         link : Analysis \cup {None}, seen : Statuses, told : SUBSET Statuses ]

Idle == [ pc |-> "idle", kind |-> "none", row |-> None, at |-> 0,
          link |-> None, seen |-> "ABSENT", told |-> {} ]

TypeOK ==
    /\ status \in [Rows -> Statuses] /\ reached \in [Rows -> SUBSET Statuses]
    /\ now \in Times
    /\ openedAt \in [Decisions -> Times] /\ decidedAt \in [Decisions -> Times]
    /\ decidedTimes \in [Decisions -> SUBSET Times]
    /\ analyses \subseteq Analysis /\ outcomes \in Seq(Outcome)
    /\ lessons \subseteq Incidents /\ reports \subseteq Report
    /\ req \in [Requests -> Req]

------------------------------------------------------------------------------
(* The room moves on. *)

Insert(x) ==
    /\ x \in Decisions => status[IncidentOf[x]] # "ABSENT"
    /\ Room!Insert(x)
    /\ openedAt' = IF x \in Decisions THEN [openedAt EXCEPT ![x] = now] ELSE openedAt
    /\ UNCHANGED <<decidedAt, decidedTimes, written, now, req>>

\* decide sets decidedAt after it read the decision and before its commit.
Decide(d, t) ==
    /\ t \in openedAt[d] .. now
    /\ \E from \in Statuses : Room!Move(d, from, "DECIDED")
    /\ decidedAt' = [decidedAt EXCEPT ![d] = t]
    /\ decidedTimes' = [decidedTimes EXCEPT ![d] = @ \cup {t}]
    /\ UNCHANGED <<openedAt, written, now, req>>

\* cancel leaves decidedAt as it is.
MoveOn(x, from, to) ==
    /\ to # "DECIDED"
    /\ Room!Move(x, from, to)
    /\ UNCHANGED <<openedAt, decidedAt, decidedTimes, written, now, req>>

Tick ==
    /\ now < MaxTime
    /\ now' = now + 1
    /\ UNCHANGED <<room, written, req>>

------------------------------------------------------------------------------
(* The requests. *)

Start(r, t) ==
    /\ req[r] = Idle
    /\ req' = [req EXCEPT ![r] = t]
    /\ UNCHANGED <<room, written, now>>

Continue(r, t) ==
    /\ req' = [req EXCEPT ![r] = t]
    /\ UNCHANGED <<room, written, now>>

\* DecisionOutcomesService.record: the decision must be DECIDED ...
AskOutcome(r, d) ==
    /\ status[d] = "DECIDED"
    /\ Start(r, [Idle EXCEPT !.pc = "incident", !.kind = "outcome", !.row = d,
                             !.at = decidedAt[d]])

\* Faulty variant: the incident need not be closed.
ReadIncidentAny(r) ==
    /\ req[r].pc = "incident"
    /\ Continue(r, [req[r] EXCEPT !.pc = "existing"])

\* ... its incident CLOSED ...
ReadIncident(r) ==
    /\ req[r].pc = "incident"
    /\ Continue(r, IF status[IncidentOf[req[r].row]] = "CLOSED"
                   THEN [req[r] EXCEPT !.pc = "existing"] ELSE Idle)

Recorded(d) == \E k \in 1..Len(outcomes) : outcomes[k].decision = d

\* ... and without an outcome.
FindExisting(r) ==
    /\ req[r].pc = "existing"
    /\ Continue(r, IF Recorded(req[r].row) THEN Idle
                   ELSE [req[r] EXCEPT !.pc = "analysis"])

\* Faulty variant: the newest analysis there is, whenever it was made.
CandidatesAny(d, t) == {a \in analyses : a.incident = IncidentOf[d]}

\* createdAt: { lte: decision.decidedAt }
Candidates(d, t) == {a \in analyses : a.incident = IncidentOf[d] /\ a.at <= t}

\* orderBy createdAt desc; of equal stamps any may come first.
FindAnalysis(r) ==
    LET found == Candidates(req[r].row, req[r].at) IN
    /\ req[r].pc = "analysis"
    /\ \E a \in found \cup {None} :
          /\ a = None <=> found = {}
          /\ a # None => \A b \in found : b.at <= a.at
          /\ Continue(r, [req[r] EXCEPT !.pc = "insert", !.link = a])

\* Faulty variant: the schema without @unique on decisionId.
InsertOutcomeAny(r) ==
    /\ req[r].pc = "insert"
    /\ Continue(r, [req[r] EXCEPT !.pc = "commit"])

\* An uncommitted outcome of the same decision.
Claimed(d) == \E s \in Requests :
    req[s].kind = "outcome" /\ req[s].row = d /\ req[s].pc = "commit"

\* The create under the unique index on decisionId: it waits for an uncommitted
\* outcome of the decision and fails on a committed one.
InsertOutcome(r) ==
    /\ req[r].pc = "insert"
    /\ ~Claimed(req[r].row)
    /\ Continue(r, IF Recorded(req[r].row) THEN Idle
                   ELSE [req[r] EXCEPT !.pc = "commit"])

\* LessonsLearnedService.create, up to its insert: the incident is CLOSED.
AskLesson(r, i) ==
    /\ status[i] = "CLOSED"
    /\ Start(r, [Idle EXCEPT !.pc = "commit", !.kind = "lesson", !.row = i])

\* DecisionIntelligenceEngineService.analyze, up to its insert, which stamps
\* createdAt.
Analyze(r, i) ==
    /\ status[i] # "ABSENT"
    /\ Start(r, [Idle EXCEPT !.pc = "commit", !.kind = "analysis", !.row = i,
                             !.at = now])

ReportsAsked == Cardinality(reports)
    + Cardinality({r \in Requests : req[r].kind = "report"})

\* DecisionReportsService.generate reads the decision, in whatever status ...
AskReport(r, d) ==
    /\ status[d] # "ABSENT"
    /\ ReportsAsked < MaxReports
    /\ Start(r, [Idle EXCEPT !.pc = "timeline", !.kind = "report", !.row = d,
                             !.seen = status[d]])

\* ... and then its timeline, by another statement.
ReadTimeline(r) ==
    /\ req[r].pc = "timeline"
    /\ Continue(r, [req[r] EXCEPT !.pc = "commit", !.told = reached[req[r].row]])

\* Faulty variant: the report takes the status as it is when it is written.
ReportLate(t) == [decision |-> t.row, status |-> status[t.row], timeline |-> t.told]

ReportOf(t) == [decision |-> t.row, status |-> t.seen, timeline |-> t.told]

AddIf(kind, t, set, row) == IF t.kind = kind THEN set \cup {row} ELSE set

\* The row of the handler appears.
Commit(r) ==
    LET t == req[r] IN
    /\ t.pc = "commit"
    /\ analyses' = AddIf("analysis", t, analyses,
                         [incident |-> t.row, at |-> t.at, seen |-> now])
    /\ outcomes' = IF t.kind = "outcome"
                   THEN Append(outcomes, [decision |-> t.row, analysis |-> t.link])
                   ELSE outcomes
    /\ lessons' = AddIf("lesson", t, lessons, t.row)
    /\ reports' = AddIf("report", t, reports, ReportOf(t))
    /\ req' = [req EXCEPT ![r] = Idle]
    /\ UNCHANGED <<room, now>>

\* Rollback: a failed statement, the 30 s limit, a lost process.
Abort(r) ==
    /\ req[r].pc # "idle"
    /\ Continue(r, Idle)

------------------------------------------------------------------------------
Init ==
    /\ Room!Init
    /\ now = 1
    /\ openedAt = [d \in Decisions |-> 0]
    /\ decidedAt = [d \in Decisions |-> 0]
    /\ decidedTimes = [d \in Decisions |-> {}]
    /\ analyses = {} /\ outcomes = << >> /\ lessons = {} /\ reports = {}
    /\ req = [r \in Requests |-> Idle]

RoomStep ==
    \/ \E x \in Rows : Insert(x)
    \/ \E d \in Decisions, t \in Times : Decide(d, t)
    \/ \E x \in Rows, from, to \in Statuses : MoveOn(x, from, to)

Request(r) ==
    \/ \E d \in Decisions : AskOutcome(r, d) \/ AskReport(r, d)
    \/ \E i \in Incidents : AskLesson(r, i) \/ Analyze(r, i)
    \/ ReadIncident(r) \/ FindExisting(r) \/ FindAnalysis(r) \/ InsertOutcome(r)
    \/ ReadTimeline(r)
    \/ Commit(r) \/ Abort(r)

Next == RoomStep \/ Tick \/ \E r \in Requests : Request(r)

Spec == Init /\ [][Next]_vars

------------------------------------------------------------------------------
(* Properties. *)

WholeLifecycle == {"OPEN", "MITIGATED", "RESOLVED", "CLOSED"}

\* ADR-0011 and ADR-0016, "not before CLOSED": although the status is only read,
\* and overlapping requests may throw an incident or a decision back, a lesson
\* or an outcome is about an incident that has gone through its whole lifecycle
\* and, for an outcome, about a decision that was DECIDED.
RetrospectAfterTheEnd ==
    /\ \A i \in lessons : WholeLifecycle \subseteq reached[i]
    /\ \A k \in 1..Len(outcomes) :
          LET d == outcomes[k].decision IN
          /\ "DECIDED" \in reached[d]
          /\ WholeLifecycle \subseteq reached[IncidentOf[d]]

\* schema.prisma, "One outcome per decision": two requests that both find none
\* cannot both commit one.
OutcomeOncePerDecision ==
    \A j, k \in 1..Len(outcomes) :
        outcomes[j].decision = outcomes[k].decision => j = k

\* The analysis an outcome is held against is one the decision may have rested
\* on: stamped no later than some decision time of the row, and nothing newer
\* was visible before that time, whatever was committed since.
InformedByTheNewest ==
    \A k \in 1..Len(outcomes) :
        LET o == outcomes[k] IN
        \E t \in decidedTimes[o.decision] :
            /\ o.analysis # None => o.analysis.at <= t
            /\ \A a \in analyses :
                  a.incident = IncidentOf[o.decision] /\ a.seen < t =>
                      o.analysis # None /\ a.at <= o.analysis.at

\* A report's status is always explained by the timeline stored with it: the
\* decision is read before its events, and both were committed together.
ReportExplainsItsStatus ==
    \A rep \in reports : rep.status \in rep.timeline

\* schema.prisma on DecisionReport: "An immutable, point-in-time snapshot of a
\* single decision": a decision that is still OPEN has no event of its end.
ReportIsSnapshot ==
    \A rep \in reports : rep.status = "OPEN" => rep.timeline = {"OPEN"}

==============================================================================
