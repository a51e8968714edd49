------------------------- MODULE RetrospectiveProofs -------------------------
(***************************************************************************)
(* Theorems about Retrospective for any number of rows, requests, reports  *)
(* and ticks.  What a handler once read may no longer be true when its row *)
(* appears; the invariant keeps what cannot change any more: the statuses  *)
(* a row has had, the times it has been decided, the analyses visible      *)
(* before a past time.                                                     *)
(***************************************************************************)
EXTENDS Retrospective, TLAPS

USE DEF Rows

\* A row's present status is one it has had, an absent row has had none, and
\* an incident has had every status before the ones it has had.
RoomInv ==
    /\ \A x \in Rows : IF status[x] = "ABSENT" THEN reached[x] = {}
                                              ELSE status[x] \in reached[x]
    /\ \A i \in Incidents :
          /\ "CLOSED" \in reached[i] => "RESOLVED" \in reached[i]
          /\ "RESOLVED" \in reached[i] => "MITIGATED" \in reached[i]
          /\ "MITIGATED" \in reached[i] => "OPEN" \in reached[i]

\* decidedAt of a DECIDED row is one of its times, an analysis is visible after
\* it is stamped, and no time is ahead of the clock.
ClockInv ==
    /\ \A d \in Decisions :
          /\ status[d] = "DECIDED" => decidedAt[d] \in decidedTimes[d]
          /\ \A t \in decidedTimes[d] : t <= now
    /\ \A a \in analyses : a.at <= a.seen /\ a.seen <= now

\* `link` is the analysis to hold against a decision of `d` at time `t`.
Newest(d, t, link) ==
    /\ link # None => link.at <= t
    /\ \A a \in analyses :
          a.incident = IncidentOf[d] /\ a.seen < t => link # None /\ a.at <= link.at

\* What an open transaction is about and what it has established so far.
Sound(t) ==
    /\ t.kind = "none" <=> t.pc = "idle"
    /\ t.pc = "timeline" => t.kind = "report"
    /\ t.pc \in {"incident", "existing", "analysis", "insert"} => t.kind = "outcome"
    /\ t.kind = "analysis" => t.row \in Incidents /\ t.at <= now
    /\ t.kind = "lesson" => t.row \in Incidents /\ WholeLifecycle \subseteq reached[t.row]
    /\ t.kind = "report" =>
          /\ t.row \in Decisions /\ t.seen \in reached[t.row]
          /\ t.pc = "commit" => t.seen \in t.told
    /\ t.kind = "outcome" =>
          /\ t.row \in Decisions
          /\ "DECIDED" \in reached[t.row]
          /\ t.at \in decidedTimes[t.row]
          /\ t.pc # "incident" => WholeLifecycle \subseteq reached[IncidentOf[t.row]]
          /\ t.pc \in {"insert", "commit"} => Newest(t.row, t.at, t.link)
          /\ t.pc = "commit" => ~Recorded(t.row)

\* A request about to commit an outcome: it holds the unique index entry.
Claims(t) == t.kind = "outcome" /\ t.pc = "commit"

ReqInv == \A r \in Requests : Sound(req[r])

OneClaim == \A r, s \in Requests :
    r # s /\ Claims(req[r]) /\ Claims(req[s]) => req[r].row # req[s].row

IInv ==
    /\ TypeOK
    /\ RoomInv
    /\ ClockInv
    /\ ReqInv
    /\ OneClaim
    /\ RetrospectAfterTheEnd
    /\ OutcomeOncePerDecision
    /\ InformedByTheNewest
    /\ ReportExplainsItsStatus

------------------------------------------------------------------------------
LEMMA IdleFacts == Idle \in Req /\ Sound(Idle) /\ ~Claims(Idle)
<1>1. Idle \in Req
  <2>1. "idle" \in Labels /\ "none" \in Kinds /\ "ABSENT" \in Statuses /\ 0 \in Times
    BY TimeAndReportBounds DEF Labels, Kinds, Statuses, Times
  <2> QED
    BY <2>1 DEF Idle, Req
<1> QED
  BY <1>1 DEF Idle, Sound, Claims

LEMMA InitIInv == Init => IInv
<1> SUFFICES ASSUME Init PROVE IInv
  OBVIOUS
<1>1. status = [x \in Rows |-> "ABSENT"] /\ reached = [x \in Rows |-> {}]
  BY DEF Init, Room!Init, Room!Rows
<1>2. 0 \in Times /\ 1 \in Times /\ "ABSENT" \in Statuses
  BY TimeAndReportBounds DEF Times, Statuses
<1>3. outcomes = << >> /\ Len(outcomes) = 0
  BY DEF Init
<1>4. TypeOK
  BY <1>1, <1>2, IdleFacts DEF Init, TypeOK
<1>5. ReqInv /\ OneClaim
  BY IdleFacts DEF Init, ReqInv, OneClaim
<1> QED
  BY <1>1, <1>3, <1>4, <1>5 DEF Init, IInv, RoomInv, ClockInv, RetrospectAfterTheEnd,
     OutcomeOncePerDecision, InformedByTheNewest, ReportExplainsItsStatus

\* A step that replaces one transaction by a sound one and commits nothing.
LEMMA ReqStep ==
    ASSUME IInv, NEW r \in Requests, NEW t \in Req,
           req' = [req EXCEPT ![r] = t],
           UNCHANGED <<room, written, now>>,
           Sound(t),
           \A s \in Requests \ {r} : Claims(t) /\ Claims(req[s]) => t.row # req[s].row
    PROVE  IInv'
<1>1. /\ UNCHANGED <<status, reached, openedAt, decidedAt, decidedTimes>>
      /\ UNCHANGED <<analyses, outcomes, lessons, reports, now>>
  BY DEF room, written
<1>2. \A s \in Requests : req'[s] = IF s = r THEN t ELSE req[s]
  BY DEF IInv, TypeOK
<1>3. TypeOK'
  BY <1>1 DEF IInv, TypeOK
<1>4. ReqInv'
  <2> SUFFICES ASSUME NEW s \in Requests PROVE Sound(req[s])'
    BY DEF ReqInv
  <2>1. req'[s] \in Req /\ Sound(req'[s])
    BY <1>2 DEF IInv, TypeOK, ReqInv
  <2> QED
    BY <1>1, <2>1 DEF Sound, Newest, Recorded
<1>5. OneClaim'
  BY <1>2 DEF IInv, OneClaim, Claims
<1> QED
  BY <1>1, <1>3, <1>4, <1>5 DEF IInv, RoomInv, ClockInv, RetrospectAfterTheEnd,
     OutcomeOncePerDecision, InformedByTheNewest, ReportExplainsItsStatus

------------------------------------------------------------------------------
(* The requests. *)

LEMMA StartStep ==
    ASSUME IInv, NEW r \in Requests,
           \/ \E d \in Decisions : AskOutcome(r, d) \/ AskReport(r, d)
           \/ \E i \in Incidents : AskLesson(r, i) \/ Analyze(r, i)
    PROVE  IInv'
<1>0. /\ \A d \in Decisions : status[d] \in Statuses /\ decidedAt[d] \in Times
      /\ now \in Times /\ now <= now
  BY DEF IInv, TypeOK, Times
<1>1. CASE \E d \in Decisions : AskOutcome(r, d)
  <2> PICK d \in Decisions : AskOutcome(r, d)
    BY <1>1
  <2> DEFINE t == [Idle EXCEPT !.pc = "incident", !.kind = "outcome", !.row = d,
                               !.at = decidedAt[d]]
  <2>1. status[d] = "DECIDED" /\ Start(r, t)
    BY DEF AskOutcome
  <2>2. /\ t \in Req /\ t.pc = "incident" /\ t.kind = "outcome" /\ t.row = d
        /\ t.at = decidedAt[d]
    BY <1>0, IdleFacts DEF Idle, Req, Labels, Kinds
  <2> HIDE DEF t
  <2>3. Sound(t) /\ ~Claims(t)
    BY <2>1, <2>2 DEF Sound, Claims, IInv, RoomInv, ClockInv
  <2> QED
    BY <2>1, <2>2, <2>3, ReqStep DEF Start
<1>2. CASE \E d \in Decisions : AskReport(r, d)
  <2> PICK d \in Decisions : AskReport(r, d)
    BY <1>2
  <2> DEFINE t == [Idle EXCEPT !.pc = "timeline", !.kind = "report", !.row = d,
                               !.seen = status[d]]
  <2>1. status[d] # "ABSENT" /\ Start(r, t)
    BY DEF AskReport
  <2>2. /\ t \in Req /\ t.pc = "timeline" /\ t.kind = "report" /\ t.row = d
        /\ t.seen = status[d]
    BY <1>0, IdleFacts DEF Idle, Req, Labels, Kinds
  <2> HIDE DEF t
  <2>3. Sound(t) /\ ~Claims(t)
    BY <2>1, <2>2 DEF Sound, Claims, IInv, RoomInv
  <2> QED
    BY <2>1, <2>2, <2>3, ReqStep DEF Start
<1>3. CASE \E i \in Incidents : AskLesson(r, i)
  <2> PICK i \in Incidents : AskLesson(r, i)
    BY <1>3
  <2> DEFINE t == [Idle EXCEPT !.pc = "commit", !.kind = "lesson", !.row = i]
  <2>1. status[i] = "CLOSED" /\ Start(r, t)
    BY DEF AskLesson
  <2>2. t \in Req /\ t.pc = "commit" /\ t.kind = "lesson" /\ t.row = i
    BY IdleFacts DEF Idle, Req, Labels, Kinds
  <2> HIDE DEF t
  <2>3. Sound(t) /\ ~Claims(t)
    BY <2>1, <2>2 DEF Sound, Claims, WholeLifecycle, IInv, RoomInv
  <2> QED
    BY <2>1, <2>2, <2>3, ReqStep DEF Start
<1>4. CASE \E i \in Incidents : Analyze(r, i)
  <2> PICK i \in Incidents : Analyze(r, i)
    BY <1>4
  <2> DEFINE t == [Idle EXCEPT !.pc = "commit", !.kind = "analysis", !.row = i,
                               !.at = now]
  <2>1. Start(r, t)
    BY DEF Analyze
  <2>2. /\ t \in Req /\ t.pc = "commit" /\ t.kind = "analysis" /\ t.row = i
        /\ t.at = now
    BY <1>0, IdleFacts DEF Idle, Req, Labels, Kinds
  <2> HIDE DEF t
  <2>3. Sound(t) /\ ~Claims(t)
    BY <1>0, <2>2 DEF Sound, Claims
  <2> QED
    BY <2>1, <2>2, <2>3, ReqStep DEF Start
<1> QED
  BY <1>1, <1>2, <1>3, <1>4

\* The reads and the insert of an outcome, the timeline of a report, a rollback.
LEMMA ContinueStep ==
    ASSUME IInv, NEW r \in Requests,
           \/ ReadIncident(r) \/ FindExisting(r) \/ FindAnalysis(r)
           \/ InsertOutcome(r) \/ ReadTimeline(r) \/ Abort(r)
    PROVE  IInv'
<1> DEFINE o == req[r]
<1>0. o \in Req /\ Sound(o)
  BY DEF IInv, TypeOK, ReqInv
<1>1. ASSUME Continue(r, Idle) PROVE IInv'
  BY <1>1, IdleFacts, ReqStep DEF Continue
<1>4. CASE ReadIncident(r) /\ status[IncidentOf[o.row]] = "CLOSED"
  <2> DEFINE t == [o EXCEPT !.pc = "existing"]
  <2>1. o.pc = "incident" /\ Continue(r, t)
    BY <1>4 DEF ReadIncident
  <2>2. /\ t \in Req /\ t.pc = "existing" /\ t.kind = o.kind /\ t.row = o.row
        /\ t.at = o.at
    BY <1>0 DEF Req, Labels
  <2> HIDE DEF t
  <2>3. o.kind = "outcome" /\ IncidentOf[o.row] \in Incidents
    BY <1>0, <2>1, BelongsToIncident DEF Sound
  <2>4. Sound(t) /\ ~Claims(t)
    BY <1>0, <1>4, <2>1, <2>2, <2>3 DEF Sound, Claims, WholeLifecycle, IInv, RoomInv
  <2> QED
    BY <2>1, <2>2, <2>4, ReqStep DEF Continue
<1>5. CASE FindExisting(r) /\ ~Recorded(o.row)
  <2> DEFINE t == [o EXCEPT !.pc = "analysis"]
  <2>1. o.pc = "existing" /\ Continue(r, t)
    BY <1>5 DEF FindExisting
  <2>2. /\ t \in Req /\ t.pc = "analysis" /\ t.kind = o.kind /\ t.row = o.row
        /\ t.at = o.at
    BY <1>0 DEF Req, Labels
  <2> HIDE DEF t
  <2>3. Sound(t) /\ ~Claims(t)
    BY <1>0, <2>1, <2>2 DEF Sound, Claims
  <2> QED
    BY <2>1, <2>2, <2>3, ReqStep DEF Continue
<1>6. CASE FindAnalysis(r)
  <2> DEFINE found == Candidates(o.row, o.at)
  <2>1. PICK a \in found \cup {None} :
            /\ a = None <=> found = {}
            /\ a # None => \A b \in found : b.at <= a.at
            /\ Continue(r, [o EXCEPT !.pc = "insert", !.link = a])
    BY <1>6 DEF FindAnalysis
  <2> DEFINE t == [o EXCEPT !.pc = "insert", !.link = a]
  <2>2. o.pc = "analysis" /\ o.kind = "outcome" /\ a \in Analysis \cup {None}
    BY <1>0, <1>6 DEF FindAnalysis, Sound, Candidates, IInv, TypeOK
  <2>3. /\ t \in Req /\ t.pc = "insert" /\ t.kind = o.kind /\ t.row = o.row
        /\ t.at = o.at /\ t.link = a
    BY <1>0, <2>2 DEF Req, Labels
  <2> HIDE DEF t
  <2>4. Newest(o.row, o.at, a)
    <3>1. ASSUME NEW b \in analyses, b.seen < o.at
          PROVE  b.at <= o.at
      <4>1. b.at \in Nat /\ b.seen \in Nat /\ o.at \in Nat /\ b.at <= b.seen
        BY <1>0 DEF IInv, TypeOK, ClockInv, Analysis, Req, Times
      <4> QED
        BY <3>1, <4>1
    <3> QED
      BY <2>1, <3>1 DEF Newest, Candidates
  <2>5. Sound(t) /\ ~Claims(t)
    BY <1>0, <2>2, <2>3, <2>4 DEF Sound, Claims
  <2> QED
    BY <2>1, <2>3, <2>5, ReqStep DEF Continue, t
<1>7. CASE InsertOutcome(r) /\ ~Recorded(o.row)
  <2> DEFINE t == [o EXCEPT !.pc = "commit"]
  <2>1. o.pc = "insert" /\ ~Claimed(o.row) /\ Continue(r, t)
    BY <1>7 DEF InsertOutcome
  <2>2. /\ t \in Req /\ t.pc = "commit" /\ t.kind = o.kind /\ t.row = o.row
        /\ t.at = o.at /\ t.link = o.link
    BY <1>0 DEF Req, Labels
  <2> HIDE DEF t
  <2>3. Sound(t)
    BY <1>0, <1>7, <2>1, <2>2 DEF Sound
  <2>4. \A s \in Requests : Claims(req[s]) => req[s].row # t.row
    BY <2>1, <2>2 DEF Claims, Claimed
  <2> QED
    BY <2>1, <2>2, <2>3, <2>4, ReqStep DEF Continue
<1>8. CASE ReadTimeline(r)
  <2> DEFINE t == [o EXCEPT !.pc = "commit", !.told = reached[o.row]]
  <2>1. o.pc = "timeline" /\ o.kind = "report" /\ Continue(r, t)
    BY <1>0, <1>8 DEF ReadTimeline, Sound
  <2>2. reached[o.row] \in SUBSET Statuses
    BY <1>0, <2>1 DEF Sound, IInv, TypeOK
  <2>3. /\ t \in Req /\ t.pc = "commit" /\ t.kind = o.kind /\ t.row = o.row
        /\ t.seen = o.seen /\ t.told = reached[o.row]
    BY <1>0, <2>2 DEF Req, Labels
  <2> HIDE DEF t
  <2>4. Sound(t) /\ ~Claims(t)
    BY <1>0, <2>1, <2>3 DEF Sound, Claims
  <2> QED
    BY <2>1, <2>3, <2>4, ReqStep DEF Continue
<1> QED
  BY <1>1, <1>4, <1>5, <1>6, <1>7, <1>8
     DEF ReadIncident, FindExisting, InsertOutcome, Abort

------------------------------------------------------------------------------
(* The room and the clock.  Nothing an open transaction relies on is lost. *)

\* History only grows: what is sound and what is committed stays so.
LEMMA GrowthKeeps ==
    ASSUME IInv, TypeOK', RoomInv', ClockInv', UNCHANGED <<written, req>>,
           \A x \in Rows : reached[x] \subseteq reached'[x],
           \A d \in Decisions : decidedTimes[d] \subseteq decidedTimes'[d],
           now <= now'
    PROVE  IInv'
<1>1. UNCHANGED <<analyses, outcomes, lessons, reports>>
  BY DEF written
<1>2. ReqInv'
  <2> SUFFICES ASSUME NEW r \in Requests PROVE Sound(req[r])'
    BY DEF ReqInv
  <2> DEFINE t == req[r]
  <2>1. t \in Req /\ Sound(t) /\ req' = req
    BY DEF IInv, TypeOK, ReqInv
  <2>2. t.kind = "analysis" => t.at <= now'
    <3>1. t.at \in Nat /\ now \in Nat /\ now' \in Nat
      BY <2>1 DEF IInv, TypeOK, Times, Req
    <3> QED
      BY <2>1, <3>1 DEF Sound
  <2>3. t.kind = "outcome" => IncidentOf[t.row] \in Incidents
    BY <2>1, BelongsToIncident DEF Sound
  <2> QED
    BY <1>1, <2>1, <2>2, <2>3 DEF Sound, Newest, Recorded
<1>3. OneClaim'
  BY DEF IInv, OneClaim, Claims
<1>4. /\ \A k \in 1..Len(outcomes) : /\ outcomes[k].decision \in Decisions
                                     /\ IncidentOf[outcomes[k].decision] \in Incidents
      /\ \A i \in lessons : i \in Rows
  <2>1. \A k \in 1..Len(outcomes) : outcomes[k] \in Outcome
    BY DEF IInv, TypeOK
  <2>2. \A o \in Outcome : o.decision \in Decisions
    BY DEF Outcome
  <2>3. \A i \in lessons : i \in Incidents
    BY DEF IInv, TypeOK
  <2> QED
    BY <2>1, <2>2, <2>3, BelongsToIncident
<1>5. RetrospectAfterTheEnd'
  BY <1>1, <1>4 DEF IInv, RetrospectAfterTheEnd
<1>6. InformedByTheNewest'
  <2> SUFFICES ASSUME NEW k \in 1..Len(outcomes)
               PROVE  \E t \in decidedTimes'[outcomes[k].decision] :
                         Newest(outcomes[k].decision, t, outcomes[k].analysis)
    BY <1>1 DEF InformedByTheNewest, Newest
  <2>1. PICK t \in decidedTimes[outcomes[k].decision] :
            Newest(outcomes[k].decision, t, outcomes[k].analysis)
    BY DEF IInv, InformedByTheNewest, Newest
  <2> QED
    BY <1>4, <2>1
<1> QED
  BY <1>1, <1>2, <1>3, <1>5, <1>6 DEF IInv, OutcomeOncePerDecision,
     ReportExplainsItsStatus

\* What RoomPromise's insertions and moves do to one row.
LEMMA RoomMoves ==
    ASSUME IInv, NEW x \in Rows, NEW to,
           \/ Room!Insert(x) /\ to = InitialStatus(x)
           \/ \E from : Room!Move(x, from, to)
    PROVE  /\ status' = [status EXCEPT ![x] = to]
           /\ reached' = [reached EXCEPT ![x] = @ \cup {to}]
           /\ to \in Statuses \ {"ABSENT"}
           /\ status' \in [Rows -> Statuses] /\ reached' \in [Rows -> SUBSET Statuses]
           /\ RoomInv'
<1> USE DEF Room!Insert, Room!Move, Room!MoveTo, Room!InitialStatus, Room!Moves,
        Room!IncidentMoves, Room!DecisionMoves, Room!ActionMoves
<1>1. /\ status' = [status EXCEPT ![x] = to]
      /\ reached' = [reached EXCEPT ![x] = @ \cup {to}]
  BY DEF InitialStatus
<1>2. to \in Statuses \ {"ABSENT"}
  BY DEF Statuses, InitialStatus
<1>3. status' \in [Rows -> Statuses] /\ reached' \in [Rows -> SUBSET Statuses]
  BY <1>1, <1>2 DEF IInv, TypeOK
<1>4. /\ \A y \in Rows : status'[y] = IF y = x THEN to ELSE status[y]
      /\ \A y \in Rows : reached'[y] = IF y = x THEN reached[y] \cup {to} ELSE reached[y]
  BY <1>1 DEF IInv, TypeOK
<1>5. x \in Incidents =>
         \/ to = "OPEN"
         \/ to = "MITIGATED" /\ "OPEN" \in reached[x]
         \/ to = "RESOLVED" /\ "MITIGATED" \in reached[x]
         \/ to = "CLOSED" /\ "RESOLVED" \in reached[x]
  BY RowKindsDisjoint DEF InitialStatus
<1> QED
  BY <1>1, <1>2, <1>3, <1>4, <1>5 DEF IInv, RoomInv

LEMMA RoomStepKeeps ==
    ASSUME IInv, RoomStep
    PROVE  IInv'
<1>0. now \in Nat /\ now <= MaxTime /\ now <= now /\ \A d \in Decisions : openedAt[d] \in Nat
  BY TimeAndReportBounds DEF IInv, TypeOK, Times
<1>1. CASE \E x \in Rows : Insert(x)
  <2> PICK x \in Rows : Insert(x)
    BY <1>1
  <2>1. Room!Insert(x) /\ UNCHANGED <<decidedAt, decidedTimes, written, now, req>>
    BY DEF Insert
  <2>2. /\ status' = [status EXCEPT ![x] = InitialStatus(x)]
        /\ reached' = [reached EXCEPT ![x] = @ \cup {InitialStatus(x)}]
        /\ status' \in [Rows -> Statuses] /\ reached' \in [Rows -> SUBSET Statuses]
        /\ RoomInv'
    BY <2>1, RoomMoves
  <2>3. openedAt' \in [Decisions -> Times]
    BY DEF Insert, IInv, TypeOK
  <2>4. TypeOK'
    BY <2>1, <2>2, <2>3 DEF IInv, TypeOK, written
  <2>5. ClockInv'
    BY <2>1, <2>2, RowKindsDisjoint DEF IInv, TypeOK, ClockInv, InitialStatus, written
  <2>6. \A y \in Rows : reached[y] \subseteq reached'[y]
    BY <2>2 DEF IInv, TypeOK
  <2> QED
    BY <1>0, <2>1, <2>2, <2>4, <2>5, <2>6, GrowthKeeps
<1>2. CASE \E d \in Decisions, t \in Times : Decide(d, t)
  <2> PICK d \in Decisions, t \in Times : Decide(d, t)
    BY <1>2
  <2>1. /\ \E from : Room!Move(d, from, "DECIDED")
        /\ t \in openedAt[d] .. now
        /\ decidedAt' = [decidedAt EXCEPT ![d] = t]
        /\ decidedTimes' = [decidedTimes EXCEPT ![d] = @ \cup {t}]
        /\ UNCHANGED <<openedAt, written, now, req>>
    BY DEF Decide
  <2>2. /\ status' = [status EXCEPT ![d] = "DECIDED"]
        /\ reached' = [reached EXCEPT ![d] = @ \cup {"DECIDED"}]
        /\ status' \in [Rows -> Statuses] /\ reached' \in [Rows -> SUBSET Statuses]
        /\ RoomInv'
    BY <2>1, RoomMoves
  <2>3. TypeOK'
    BY <2>1, <2>2 DEF IInv, TypeOK, written
  <2>4. t <= now
    BY <1>0, <2>1
  <2>5. /\ \A e \in Decisions : decidedAt'[e] = IF e = d THEN t ELSE decidedAt[e]
        /\ \A e \in Decisions : decidedTimes'[e] =
              IF e = d THEN decidedTimes[e] \cup {t} ELSE decidedTimes[e]
        /\ \A e \in Decisions : e # d => status'[e] = status[e]
    BY <2>1, <2>2 DEF IInv, TypeOK
  <2>6. ClockInv'
    BY <2>1, <2>4, <2>5 DEF IInv, ClockInv, written
  <2>7. /\ \A y \in Rows : reached[y] \subseteq reached'[y]
        /\ \A e \in Decisions : decidedTimes[e] \subseteq decidedTimes'[e]
    BY <2>2, <2>5 DEF IInv, TypeOK
  <2> QED
    BY <1>0, <2>1, <2>2, <2>3, <2>6, <2>7, GrowthKeeps
<1>3. CASE \E x \in Rows, from, to \in Statuses : MoveOn(x, from, to)
  <2> PICK x \in Rows, from \in Statuses, to \in Statuses : MoveOn(x, from, to)
    BY <1>3
  <2>1. /\ to # "DECIDED" /\ Room!Move(x, from, to)
        /\ UNCHANGED <<openedAt, decidedAt, decidedTimes, written, now, req>>
    BY DEF MoveOn
  <2>2. /\ status' = [status EXCEPT ![x] = to]
        /\ reached' = [reached EXCEPT ![x] = @ \cup {to}]
        /\ status' \in [Rows -> Statuses] /\ reached' \in [Rows -> SUBSET Statuses]
        /\ RoomInv'
    BY <2>1, RoomMoves
  <2>3. TypeOK'
    BY <2>1, <2>2 DEF IInv, TypeOK, written
  <2>4. ClockInv'
    BY <2>1, <2>2 DEF IInv, TypeOK, ClockInv, written
  <2>5. \A y \in Rows : reached[y] \subseteq reached'[y]
    BY <2>2 DEF IInv, TypeOK
  <2> QED
    BY <1>0, <2>1, <2>2, <2>3, <2>4, <2>5, GrowthKeeps
<1> QED
  BY <1>1, <1>2, <1>3 DEF RoomStep

LEMMA TickKeeps ==
    ASSUME IInv, Tick
    PROVE  IInv'
<1>1. /\ now \in Nat /\ now' = now + 1 /\ now' \in Times
      /\ UNCHANGED <<status, reached, openedAt, decidedAt, decidedTimes, written, req>>
  BY TimeAndReportBounds DEF Tick, IInv, TypeOK, Times, room
<1>2. TypeOK' /\ RoomInv'
  BY <1>1 DEF IInv, TypeOK, RoomInv, written
<1>3. ClockInv'
  <2>1. /\ \A d \in Decisions : \A t \in decidedTimes[d] : t \in Nat
        /\ \A a \in analyses : a.seen \in Nat
    BY DEF IInv, TypeOK, Times, Analysis
  <2> QED
    BY <1>1, <2>1 DEF IInv, ClockInv, written
<1> QED
  BY <1>1, <1>2, <1>3, GrowthKeeps

------------------------------------------------------------------------------
(* The commit, by kind of handler.  The kinds share the end: a request that *)
(* becomes idle, and rows that the others' facts do not depend on.         *)

\* The request of a commit becomes idle; the others keep their records.
LEMMA CommitFacts ==
    ASSUME IInv, NEW r \in Requests, Commit(r)
    PROVE  /\ req[r] \in Req /\ Sound(req[r]) /\ req[r].pc = "commit"
           /\ req' \in [Requests -> Req]
           /\ \A s \in Requests : req'[s] = IF s = r THEN Idle ELSE req[s]
           /\ UNCHANGED <<status, reached, openedAt, decidedAt, decidedTimes, now>>
           /\ OneClaim'
           /\ RoomInv'
<1>1. /\ req[r] \in Req /\ Sound(req[r]) /\ req[r].pc = "commit"
      /\ req' \in [Requests -> Req]
      /\ \A s \in Requests : req'[s] = IF s = r THEN Idle ELSE req[s]
      /\ UNCHANGED <<status, reached, openedAt, decidedAt, decidedTimes, now>>
  BY IdleFacts DEF Commit, IInv, TypeOK, ReqInv, room
<1>2. OneClaim'
  BY <1>1, IdleFacts DEF IInv, OneClaim, Claims
<1> QED
  BY <1>1, <1>2 DEF IInv, RoomInv

LEMMA CommitOutcome ==
    ASSUME IInv, NEW r \in Requests, Commit(r), req[r].kind = "outcome"
    PROVE  IInv'
<1> DEFINE t == req[r]
           n == Len(outcomes)
           o == [decision |-> t.row, analysis |-> t.link]
<1>1. /\ t \in Req /\ Sound(t) /\ t.pc = "commit"
      /\ req' \in [Requests -> Req]
      /\ \A s \in Requests : req'[s] = IF s = r THEN Idle ELSE req[s]
      /\ UNCHANGED <<status, reached, openedAt, decidedAt, decidedTimes, now>>
      /\ OneClaim' /\ RoomInv'
  BY CommitFacts
<1>2. outcomes' = Append(outcomes, o) /\ UNCHANGED <<analyses, lessons, reports>>
  BY DEF Commit, AddIf
<1>3. /\ t.row \in Decisions /\ "DECIDED" \in reached[t.row]
      /\ t.at \in decidedTimes[t.row]
      /\ WholeLifecycle \subseteq reached[IncidentOf[t.row]]
      /\ Newest(t.row, t.at, t.link) /\ ~Recorded(t.row)
  BY <1>1 DEF Sound
<1>4. o \in Outcome /\ outcomes \in Seq(Outcome)
  BY <1>1, <1>3 DEF Outcome, Req, IInv, TypeOK
<1>5. /\ n \in Nat /\ Len(outcomes') = n + 1 /\ outcomes' \in Seq(Outcome)
      /\ outcomes'[n + 1] = o
      /\ \A k \in 1..n : outcomes'[k] = outcomes[k]
  BY <1>2, <1>4
<1>6. o.decision = t.row /\ o.analysis = t.link
  OBVIOUS
<1> HIDE DEF n, o
<1>7. TypeOK' /\ ClockInv'
  BY <1>1, <1>2, <1>5 DEF IInv, TypeOK, ClockInv
<1>8. ReqInv'
  <2> SUFFICES ASSUME NEW s \in Requests PROVE Sound(req[s])'
    BY DEF ReqInv
  <2>1. CASE s = r
    <3>1. req'[s] = Idle
      BY <1>1, <2>1
    <3> QED
      BY <3>1, IdleFacts DEF Sound, Idle
  <2>2. CASE s # r
    <3>1. req'[s] = req[s] /\ Sound(req[s])
      BY <1>1, <2>2 DEF IInv, ReqInv
    <3>2. Claims(req[s]) => req[s].row # t.row /\ ~Recorded(req[s].row)
      BY <1>1, <1>3, <2>2, <3>1 DEF IInv, OneClaim, Claims, Sound
    <3>3. Claims(req[s]) => ~Recorded(req[s].row)'
      BY <1>5, <1>6, <3>1, <3>2 DEF Recorded, n
    <3> QED
      BY <1>1, <1>2, <3>1, <3>3 DEF Sound, Newest, Claims, Recorded
  <2> QED
    BY <2>1, <2>2
<1>9. RetrospectAfterTheEnd'
  BY <1>1, <1>2, <1>3, <1>5, <1>6 DEF IInv, RetrospectAfterTheEnd, n
<1>10. OutcomeOncePerDecision'
  BY <1>3, <1>5, <1>6 DEF IInv, OutcomeOncePerDecision, Recorded, n
<1>11. InformedByTheNewest'
  <2> SUFFICES ASSUME NEW k \in 1..n + 1
               PROVE  \E u \in decidedTimes[outcomes'[k].decision] :
                         Newest(outcomes'[k].decision, u, outcomes'[k].analysis)
    BY <1>1, <1>2, <1>5 DEF InformedByTheNewest, Newest
  <2>1. CASE k = n + 1
    BY <1>3, <1>5, <1>6, <2>1
  <2>2. CASE k \in 1..n
    <3>1. outcomes'[k] = outcomes[k]
      BY <1>5, <2>2
    <3>2. \E u \in decidedTimes[outcomes[k].decision] :
              Newest(outcomes[k].decision, u, outcomes[k].analysis)
      BY <2>2 DEF IInv, InformedByTheNewest, Newest, n
    <3> QED
      BY <3>1, <3>2
  <2> QED
    BY <1>5, <2>1, <2>2
<1> QED
  BY <1>1, <1>2, <1>7, <1>8, <1>9, <1>10, <1>11 DEF IInv, ReportExplainsItsStatus

LEMMA CommitOther ==
    ASSUME IInv, NEW r \in Requests, Commit(r), req[r].kind # "outcome"
    PROVE  IInv'
<1> DEFINE t == req[r]
           a == [incident |-> t.row, at |-> t.at, seen |-> now]
           p == ReportOf(t)
<1>1. /\ t \in Req /\ Sound(t) /\ t.pc = "commit"
      /\ req' \in [Requests -> Req]
      /\ \A s \in Requests : req'[s] = IF s = r THEN Idle ELSE req[s]
      /\ UNCHANGED <<status, reached, openedAt, decidedAt, decidedTimes, now>>
      /\ OneClaim' /\ RoomInv'
  BY CommitFacts
<1>2. /\ outcomes' = outcomes
      /\ analyses' = IF t.kind = "analysis" THEN analyses \cup {a} ELSE analyses
      /\ lessons' = IF t.kind = "lesson" THEN lessons \cup {t.row} ELSE lessons
      /\ reports' = IF t.kind = "report" THEN reports \cup {p} ELSE reports
  BY DEF Commit, AddIf
<1>3. now \in Times /\ \A s \in Requests : req[s] \in Req /\ req[s].at \in Times
  BY DEF IInv, TypeOK, Req
<1>4. t.kind = "analysis" => a \in Analysis /\ a.at <= a.seen /\ a.seen = now
  BY <1>1, <1>3 DEF Analysis, Sound
<1>5. t.kind = "report" => p \in Report /\ p.status \in p.timeline
  BY <1>1 DEF Report, ReportOf, Sound, Req
<1>6. t.kind = "lesson" => t.row \in Incidents /\ WholeLifecycle \subseteq reached[t.row]
  BY <1>1 DEF Sound
<1> HIDE DEF t, a, p
<1>7. TypeOK'
  BY <1>1, <1>2, <1>4, <1>5, <1>6 DEF IInv, TypeOK
<1>8. ClockInv'
  <2>1. now <= now
    BY <1>3 DEF Times
  <2> QED
    BY <1>1, <1>2, <1>4, <2>1 DEF IInv, ClockInv
\* An analysis that appears now was not visible at any time of a decision.
<1>9. ASSUME NEW d \in Decisions, NEW u \in decidedTimes[d], NEW link, Newest(d, u, link)
      PROVE  Newest(d, u, link)'
  <2>1. u \in Nat /\ now \in Nat /\ u <= now
    BY <1>3 DEF IInv, TypeOK, ClockInv, Times
  <2>2. t.kind = "analysis" => ~(a.seen < u)
    BY <1>4, <2>1
  <2> QED
    BY <1>2, <1>9, <2>2 DEF Newest
<1>10. ReqInv'
  <2> SUFFICES ASSUME NEW s \in Requests PROVE Sound(req[s])'
    BY DEF ReqInv
  <2>1. CASE s = r
    <3>1. req'[s] = Idle
      BY <1>1, <2>1
    <3> QED
      BY <3>1, IdleFacts DEF Sound, Idle
  <2>2. CASE s # r
    <3>1. req'[s] = req[s] /\ Sound(req[s])
      BY <1>1, <2>2 DEF IInv, ReqInv
    <3>2. req[s].kind = "outcome" /\ req[s].pc \in {"insert", "commit"} =>
              Newest(req[s].row, req[s].at, req[s].link)'
      <4> SUFFICES ASSUME req[s].kind = "outcome", req[s].pc \in {"insert", "commit"}
                   PROVE  Newest(req[s].row, req[s].at, req[s].link)'
        OBVIOUS
      <4>1. PICK d, u, link :
                /\ d \in Decisions /\ d = req[s].row
                /\ u = req[s].at /\ link = req[s].link /\ u \in decidedTimes[d]
        BY <3>1 DEF Sound
      <4>2. Newest(d, u, link)
        BY <3>1, <4>1 DEF Sound, Newest
      <4> QED
        BY <1>9, <3>1, <4>1, <4>2 DEF Newest
    <3> QED
      BY <1>1, <1>2, <3>1, <3>2 DEF Sound, Recorded, Newest
  <2> QED
    BY <2>1, <2>2
<1>11. RetrospectAfterTheEnd' /\ OutcomeOncePerDecision' /\ ReportExplainsItsStatus'
  BY <1>1, <1>2, <1>5, <1>6 DEF IInv, RetrospectAfterTheEnd, OutcomeOncePerDecision,
     ReportExplainsItsStatus
<1>12. InformedByTheNewest'
  <2> SUFFICES ASSUME NEW k \in 1..Len(outcomes)
               PROVE  \E u \in decidedTimes[outcomes[k].decision] :
                         Newest(outcomes[k].decision, u, outcomes[k].analysis)'
    BY <1>1, <1>2 DEF InformedByTheNewest, Newest
  <2>1. outcomes[k].decision \in Decisions
    <3>1. outcomes[k] \in Outcome
      BY DEF IInv, TypeOK
    <3> QED
      BY <3>1 DEF Outcome
  <2>2. PICK d, link :
          /\ d \in Decisions /\ d = outcomes[k].decision
          /\ link = outcomes[k].analysis
    BY <2>1
  <2>3. PICK u \in decidedTimes[d] : Newest(d, u, link)
    BY <2>2 DEF IInv, InformedByTheNewest, Newest
  <2>4. Newest(d, u, link)'
    BY <1>9, <2>2, <2>3
  <2>5. Newest(outcomes[k].decision, u, outcomes[k].analysis)'
    BY <1>2, <2>2, <2>4 DEF Newest
  <2> QED
    BY <2>2, <2>3, <2>5
<1> QED
  BY <1>1, <1>7, <1>8, <1>10, <1>11, <1>12 DEF IInv

------------------------------------------------------------------------------
LEMMA NextIInv == IInv /\ [Next]_vars => IInv'
<1> SUFFICES ASSUME IInv, [Next]_vars PROVE IInv'
  OBVIOUS
<1>1. ASSUME NEW r \in Requests, Request(r) PROVE IInv'
  BY <1>1, StartStep, ContinueStep, CommitOutcome, CommitOther DEF Request
<1>2. CASE UNCHANGED vars
  <2>1. /\ UNCHANGED <<status, reached, openedAt, decidedAt, decidedTimes>>
        /\ UNCHANGED <<analyses, outcomes, lessons, reports, now, req>>
    BY <1>2 DEF vars, room, written
  <2>2. ReqInv'
    BY <2>1 DEF IInv, ReqInv, Sound, Newest, Recorded
  <2> QED
    BY <2>1, <2>2 DEF IInv, TypeOK, RoomInv, ClockInv, OneClaim, Claims,
       RetrospectAfterTheEnd, OutcomeOncePerDecision, InformedByTheNewest,
       ReportExplainsItsStatus
<1> QED
  BY <1>1, <1>2, RoomStepKeeps, TickKeeps DEF Next

\* Rows, times and open transactions keep their shape.
THEOREM TypeCorrect == Spec => []TypeOK
<1>1. IInv => TypeOK
  BY DEF IInv
<1> QED
  BY <1>1, InitIInv, NextIInv, PTL DEF Spec

\* "Not before CLOSED": outcomes and lessons come after the whole lifecycle of
\* their incident, although the status they checked is a read one.
THEOREM AfterTheEnd == Spec => []RetrospectAfterTheEnd
<1>1. IInv => RetrospectAfterTheEnd
  BY DEF IInv
<1> QED
  BY <1>1, InitIInv, NextIInv, PTL DEF Spec

\* One outcome per decision, however many requests record one at once.
THEOREM OneOutcome == Spec => []OutcomeOncePerDecision
<1>1. IInv => OutcomeOncePerDecision
  BY DEF IInv
<1> QED
  BY <1>1, InitIInv, NextIInv, PTL DEF Spec

\* An outcome is held against the newest analysis visible before a time the
\* decision was made, and never against a later one.
THEOREM Informed == Spec => []InformedByTheNewest
<1>1. IInv => InformedByTheNewest
  BY DEF IInv
<1> QED
  BY <1>1, InitIInv, NextIInv, PTL DEF Spec

\* The timeline stored in a report explains the status stored with it.
THEOREM ReportsExplain == Spec => []ReportExplainsItsStatus
<1>1. IInv => ReportExplainsItsStatus
  BY DEF IInv
<1> QED
  BY <1>1, InitIInv, NextIInv, PTL DEF Spec

==============================================================================
