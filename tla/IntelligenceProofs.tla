--------------------------- MODULE IntelligenceProofs ---------------------------
(***************************************************************************)
(* Theorems about Intelligence, for any ids, users' input, numbers of      *)
(* requests, clock steps and timeout.                                      *)
(*                                                                         *)
(* The invariant says what each open transaction has done up to the        *)
(* statement it has reached: the rows it holds are its own and new, what   *)
(* it read is what is or will be committed, and its result is the          *)
(* breakdown of what it read as of a time at most one timeout ago.  A      *)
(* second one, on top of it, says when each thing was stamped and which    *)
(* evidence was read; with it each commit is one step of                   *)
(* IntelligencePromise.                                                    *)
(***************************************************************************)
EXTENDS Intelligence, TLAPS, FiniteSetTheorems, WellFoundedInduction

Creating == {"incident"} \cup Scenarios

\* The statement `step` is one of those q has done.
Past(q, step) == \E i \in 1..q.done : Program[q.kind][i] = step

\* The incident q is about, as q sees it.
Seen(q) == IF q.room = Absent THEN rooms[q.id] ELSE q.room

Timely(q) == q.since <= clock /\ clock - q.since <= Timeout

Placed(q) ==
    /\ q.done <= Len(Program[q.kind])
    /\ q.poisoned => q.done = Len(Program[q.kind])
    /\ q.kind \in Creating => rooms[q.id] = Absent
    /\ q.kind \notin Creating => rooms[q.id] # Absent
    /\ q.kind = "incident" => q.about \in [type : IncidentType, severity : IncidentSeverity]
    /\ q.kind = "evidence" => q.about \in [category : EvidenceSourceCategory]

\* The rows q is to commit.
Wrote(q) ==
    /\ q.room # Absent => q.kind \in Creating /\ q.room.by = q.kind
    /\ q.eid = Absent => q.row = Absent
    /\ q.eid # Absent =>
          /\ evidence[q.eid] = Absent /\ q.row # Absent /\ q.row.room = q.id
          /\ q.kind \in Scenarios => q.row.category = ScenarioCategory[q.kind]

\* What q read is what is, or by its own commit will be, committed.
ReadOk(q) ==
    /\ q.read \in EvidenceRows
    /\ \A e \in DOMAIN q.read :
          \/ e = q.eid /\ q.read[e] = q.row
          \/ evidence[e] # Absent /\ q.read[e] = evidence[e]
    /\ q.eid # Absent => q.eid \in DOMAIN q.read

ScoredOk(q) ==
    LET a == q.result
    IN  /\ Past(q, "read") /\ Past(q, "analysis")
        /\ a.room = q.id /\ a.used = DOMAIN q.read
        /\ q.asOf <= a.at /\ a.at - q.asOf <= Timeout
        /\ a.scores = ConfidenceBreakdown(Seen(q), q.read, a.conflicts, q.asOf)

\* Each statement left what it should, unless an error ended them.
Did(q) ==
    /\ Past(q, "incident") => q.room # Absent
    /\ Past(q, "evidence") => q.eid # Absent
    /\ Past(q, "clock") => q.since <= q.asOf /\ q.asOf <= clock
    /\ Past(q, "read") => ReadOk(q)
    /\ Past(q, "analysis") => q.result # Absent
    /\ q.result # Absent => ScoredOk(q)

JobOk(q) == Timely(q) /\ Placed(q) /\ Wrote(q) /\ (~q.poisoned => Did(q))

\* The ids x is giving, y does not use.
Apart(x, y) ==
    /\ x.kind \in Creating => y.id # x.id
    /\ x.eid # Absent => y.eid # x.eid

JobsInv ==
    /\ \A j \in Working : JobOk(job[j])
    /\ \A j \in Working : \A k \in Working \ {j} : Apart(job[j], job[k])

\* A stored breakdown is that of the evidence kept, as of a time shortly before.
AnalysisOk(a) ==
    /\ rooms[a.room] # Absent
    /\ \A e \in a.used : evidence[e] # Absent
    /\ \E asOf \in 0..MaxClock :
          /\ asOf <= a.at /\ a.at - asOf <= Timeout
          /\ a.scores = ConfidenceBreakdown(rooms[a.room], Frozen(a), a.conflicts, asOf)

IInv ==
    /\ IntelTypeOK /\ JobsInv
    /\ \A a \in analyses : AnalysisOk(a)
    /\ ScenarioWhole

------------------------------------------------------------------------------
LEMMA Kinds ==
    /\ DOMAIN Program = {"incident", "evidence", "analyze"} \cup Scenarios
    /\ "none" \notin DOMAIN Program
    /\ \A k \in DOMAIN Program : /\ Len(Program[k]) \in 1..7
                                 /\ DOMAIN Program[k] = 1..Len(Program[k])
  BY DEF Program, Scenarios

\* The statement after the first n of a handler's program tells what came before.
LEMMA Order ==
    ASSUME NEW k \in DOMAIN Program, NEW n \in 0..(Len(Program[k]) - 1)
    PROVE  LET next == Program[k][n + 1]
               past == {Program[k][i] : i \in 1..n}
           IN  /\ "analysis" \notin past
               /\ next = "incident" => k \in Creating /\ past = {}
               /\ next = "evidence" => /\ k \in {"evidence"} \cup Scenarios
                                       /\ past \cap {"evidence", "clock", "read"} = {}
               /\ next = "clock" => past \cap {"clock", "read"} = {}
               /\ next = "read" => "clock" \in past
               /\ next = "analysis" => {"clock", "read"} \subseteq past
<1> DEFINE p == Program[k]
           Follows(x) ==
             LET past == {p[i] : i \in 1..n}
             IN  /\ "analysis" \notin past
                 /\ x = "incident" => k \in Creating /\ past = {}
                 /\ x = "evidence" => /\ k \in {"evidence"} \cup Scenarios
                                      /\ past \cap {"evidence", "clock", "read"} = {}
                 /\ x = "clock" => past \cap {"clock", "read"} = {}
                 /\ x = "read" => "clock" \in past
                 /\ x = "analysis" => {"clock", "read"} \subseteq past
<1>1. CASE k \in {"incident", "evidence"}
  <2>1. Len(p) = 1 /\ p[1] = k /\ k \in Creating \cup {"evidence"}
    BY <1>1 DEF Program, Creating
  <2>2. n = 0 /\ k = "incident" => k \in Creating
    BY <1>1, <2>1 DEF Creating
  <2> HIDE DEF p
  <2> QED
    BY <1>1, <2>1, <2>2 DEF p
<1>2. CASE k = "analyze"
  <2>1. Len(p) = 3 /\ p[1] = "clock" /\ p[2] = "read" /\ p[3] = "analysis"
    BY <1>2 DEF Program
  <2>2. n \in {0, 1, 2}
    BY <2>1
  <2> HIDE DEF p
  <2>3. Follows(p[n + 1])
    BY <2>1, <2>2
  <2> QED
    BY <2>3 DEF p
<1>3. CASE k = "CYBER_RANSOMWARE"
  <2>1. Len(p) = 3 /\ p[1] = "incident" /\ p[2] = "evidence" /\ p[3] = "decisions"
    BY <1>3 DEF Program
  <2>2. n \in {0, 1, 2} /\ k \in Creating /\ k \in Scenarios
    BY <1>3, <2>1 DEF Creating, Scenarios
  <2> HIDE DEF p
  <2>3. Follows(p[n + 1])
    BY <2>1, <2>2
  <2> QED
    BY <2>3 DEF p
<1>4. CASE k = "CLOUD_OUTAGE_PARTIAL_EVIDENCE"
  <2>1. /\ Len(p) = 7 /\ p[1] = "incident" /\ p[2] = "evidence" /\ p[3] = "configure"
        /\ p[4] = "trip" /\ p[5] = "clock" /\ p[6] = "read" /\ p[7] = "analysis"
    BY <1>4 DEF Program
  <2>2. n \in 0..6 /\ k \in Creating /\ k \in Scenarios
    BY <1>4, <2>1 DEF Creating, Scenarios
  <2> HIDE DEF p
  <2>3. Follows(p[n + 1])
    BY <2>1, <2>2
  <2> QED
    BY <2>3 DEF p
<1> QED
  BY <1>1, <1>2, <1>3, <1>4, Kinds DEF Scenarios

\* What a handler has done when it commits.
LEMMA Completed ==
    ASSUME NEW k \in DOMAIN Program
    PROVE  LET all == {Program[k][i] : i \in 1..Len(Program[k])}
           IN  /\ k \in Creating => "incident" \in all
               /\ k \in Scenarios => "evidence" \in all
               /\ k = "CLOUD_OUTAGE_PARTIAL_EVIDENCE" => "analysis" \in all
<1>1. CASE k \in {"incident", "evidence", "analyze"}
  <2>1. k = "incident" => Program[k] = <<"incident">>
    BY DEF Program
  <2> QED
    BY <1>1, <2>1 DEF Creating, Scenarios
<1>2. CASE k = "CYBER_RANSOMWARE"
  <2>1. Program[k] = <<"incident", "evidence", "decisions">>
    BY <1>2 DEF Program
  <2>2. Program[k][1] = "incident" /\ Program[k][2] = "evidence" /\ Len(Program[k]) = 3
    BY <2>1
  <2> QED
    BY <1>2, <2>2
<1>3. CASE k = "CLOUD_OUTAGE_PARTIAL_EVIDENCE"
  <2>1. Program[k] = <<"incident", "evidence", "configure", "trip", "clock", "read", "analysis">>
    BY <1>3 DEF Program
  <2>2. /\ Program[k][1] = "incident" /\ Program[k][2] = "evidence"
        /\ Program[k][7] = "analysis" /\ Len(Program[k]) = 7
    BY <2>1
  <2> QED
    BY <1>3, <2>2
<1> QED
  BY <1>1, <1>2, <1>3, Kinds DEF Scenarios

\* A nonempty set of times has a latest.
LEMMA LatestExists ==
    ASSUME NEW T \in SUBSET (0..MaxClock), T # {}
    PROVE  \E t \in T : \A u \in T : u <= t
<1> DEFINE D == {MaxClock - t : t \in T}
           R == {ss \in Nat \X Nat : ss[1] < ss[2]}
<1>1. MaxClock \in Nat
  BY ClockBounds
<1>2. D \subseteq Nat /\ D # {}
  <2>1. \A t \in T : MaxClock - t \in Nat /\ MaxClock - t \in D
    BY <1>1
  <2> QED
    BY <2>1
<1>3. PICK d \in D : \A e \in D : <<e, d>> \notin R
  <2>1. IsWellFoundedOn(R, Nat)
    BY NatLessThanWellFounded DEF OpToRel
  <2> HIDE DEF D, R
  <2> QED
    BY <1>2, <2>1, WFMin
<1>4. \A e \in D : ~(e < d)
  BY <1>2, <1>3
<1>5. PICK t \in T : d = MaxClock - t
  OBVIOUS
<1>6. \A u \in T : MaxClock - u \in D
  OBVIOUS
<1> HIDE DEF D
<1>7. \A u \in T : u <= t
  BY <1>1, <1>4, <1>5, <1>6
<1> QED
  BY <1>7

\* Rounding a smaller number of points gives no more points, and at most as many
\* less as the difference, rounded up.
LEMMA RoundedLoss ==
    ASSUME NEW x \in Int, NEW y \in Int, NEW m \in Nat, y <= x, x - y <= m
    PROVE  AtLeast0(Round(x, 600)) - AtLeast0(Round(y, 600)) \in 0..((m + 599) \div 600)
<1> DEFINE u == (2 * x + 600) \div 1200
           v == (2 * y + 600) \div 1200
           w == (m + 599) \div 600
<1>1. /\ u \in Int /\ 1200 * u <= 2 * x + 600 /\ 2 * x + 600 < 1200 * u + 1200
      /\ v \in Int /\ 1200 * v <= 2 * y + 600 /\ 2 * y + 600 < 1200 * v + 1200
      /\ w \in Int /\ 600 * w <= m + 599 /\ m + 599 < 600 * w + 600
  OBVIOUS
<1>2. Round(x, 600) = u /\ Round(y, 600) = v
  BY DEF Round
<1> HIDE DEF u, v, w
<1>3. v <= u /\ u - v <= w /\ 0 <= w
  BY <1>1
<1>4. AtLeast0(u) - AtLeast0(v) \in 0..w
  BY <1>1, <1>3 DEF AtLeast0
<1> QED
  BY <1>2, <1>4 DEF w

\* Of a breakdown, only the freshness depends on the time it is as of, and it
\* loses at most the decay of that time.
LEMMA Decay ==
    ASSUME NEW severity \in IncidentSeverity, NEW rows \in EvidenceRows,
           NEW s \in 0..MaxClock, NEW at \in 0..MaxClock, s <= at, at - s <= Timeout
    PROVE  DataFreshness(severity, rows, s) - DataFreshness(severity, rows, at)
             \in 0..((Timeout * FRESHNESS_DEGRADATION_FACTOR[severity] + 599) \div 600)
<1> DEFINE f == FRESHNESS_DEGRADATION_FACTOR[severity]
           latest == CHOOSE t \in {rows[e].at : e \in DOMAIN rows} :
                       \A e \in DOMAIN rows : rows[e].at <= t
           x == 60000 - (s - latest) * f
           y == 60000 - (at - latest) * f
<1>1. MaxClock \in Nat /\ Timeout \in Nat /\ s \in Nat /\ at \in Nat
  BY ClockBounds
<1>2. f \in {50, 20, 10, 3}
  BY DEF FRESHNESS_DEGRADATION_FACTOR, IncidentSeverity
<1>3. Timeout * f \in Nat
  <2> HIDE DEF f
  <2> QED
    BY <1>1, <1>2
<1>4. CASE DOMAIN rows = {}
  <2>1. DataFreshness(severity, rows, s) = 0 /\ DataFreshness(severity, rows, at) = 0
    BY <1>4 DEF DataFreshness
  <2> DEFINE m == Timeout * f
  <2>2. m \in Nat
    BY <1>3
  <2> HIDE DEF m, f
  <2>3. (m + 599) \div 600 \in Nat
    BY <2>2
  <2>4. 0 - 0 \in 0..((m + 599) \div 600)
    BY <2>3
  <2> QED
    BY <2>1, <2>4 DEF m, f
<1>5. CASE DOMAIN rows # {}
  <2>1. latest \in Int
    <3> DEFINE T == {rows[e].at : e \in DOMAIN rows}
    <3>1. \A e \in DOMAIN rows : rows[e].at \in 0..MaxClock
      BY DEF EvidenceRows, EvidenceRow
    <3>2. T \in SUBSET (0..MaxClock) /\ T # {}
      BY <1>5, <3>1
    <3>3. \E t \in T : \A u \in T : u <= t
      <4> HIDE DEF T
      <4> QED
        BY <3>2, LatestExists
    <3>4. \E t \in T : \A e \in DOMAIN rows : rows[e].at <= t
      BY <3>3
    <3>5. latest \in T
      BY <3>4
    <3> HIDE DEF latest, T
    <3> QED
      BY <1>1, <3>2, <3>5
  <2>2. /\ DataFreshness(severity, rows, s) = AtLeast0(Round(x, 600))
        /\ DataFreshness(severity, rows, at) = AtLeast0(Round(y, 600))
    BY <1>5 DEF DataFreshness
  <2>3. x \in Int /\ y \in Int /\ y <= x /\ x - y <= Timeout * f
    <3> HIDE DEF latest, f
    <3>1. CASE f = 50
      BY <1>1, <2>1, <3>1
    <3>2. CASE f = 20
      BY <1>1, <2>1, <3>2
    <3>3. CASE f = 10
      BY <1>1, <2>1, <3>3
    <3>4. CASE f = 3
      BY <1>1, <2>1, <3>4
    <3> QED
      BY <1>2, <3>1, <3>2, <3>3, <3>4
  <2>4. AtLeast0(Round(x, 600)) - AtLeast0(Round(y, 600)) \in 0..((Timeout * f + 599) \div 600)
    <3> HIDE DEF x, y, f
    <3> QED
      BY <1>3, <2>3, RoundedLoss
  <2> HIDE DEF x, y
  <2> QED
    BY <2>2, <2>4
<1> QED
  BY <1>4, <1>5

\* So a breakdown that was stored shows the same numbers again.
LEMMA InvScoresStand ==
    ASSUME IInv PROVE ScoresStand
<1> SUFFICES ASSUME NEW a \in analyses
             PROVE  LET factor == FRESHNESS_DEGRADATION_FACTOR[rooms[a.room].severity]
                    IN  /\ \A d \in DOMAIN a.scores : a.scores[d] \in 0..100
                        /\ \A d \in DOMAIN a.scores \ {"dataFreshness"} : Listed(a)[d] = a.scores[d]
                        /\ a.scores.dataFreshness - Listed(a).dataFreshness
                              \in 0..((Timeout * factor + 599) \div 600)
  BY DEF ScoresStand
<1>1. /\ a \in Analysis /\ AnalysisOk(a)
      /\ rooms \in [Rooms -> Room \cup {Absent}]
      /\ evidence \in [EvidenceIds -> EvidenceRow \cup {Absent}]
  BY DEF IInv, IntelTypeOK
<1>2. a.scores \in Scores /\ a.room \in Rooms /\ a.used \in SUBSET EvidenceIds /\ a.at \in 0..MaxClock
  BY <1>1 DEF Analysis
<1>3. PICK asOf \in 0..MaxClock :
        /\ asOf <= a.at /\ a.at - asOf <= Timeout
        /\ a.scores = ConfidenceBreakdown(rooms[a.room], Frozen(a), a.conflicts, asOf)
  BY <1>1 DEF AnalysisOk
<1> DEFINE severity == rooms[a.room].severity
           rows == Frozen(a)
<1>4. severity \in IncidentSeverity
  <2>1. rooms[a.room] \in Room
    BY <1>1, <1>2 DEF AnalysisOk
  <2> QED
    BY <2>1 DEF Room
<1>5. rows \in EvidenceRows
  <2>1. \A e \in a.used : evidence[e] \in EvidenceRow
    BY <1>1, <1>2 DEF AnalysisOk
  <2>2. rows \in [a.used -> EvidenceRow]
    BY <2>1 DEF Frozen
  <2> QED
    BY <1>2, <2>2 DEF EvidenceRows
<1>6. \A d \in DOMAIN a.scores : a.scores[d] \in 0..100
  BY <1>2 DEF Scores
<1>7. \A d \in DOMAIN a.scores \ {"dataFreshness"} : Listed(a)[d] = a.scores[d]
  BY <1>3 DEF Listed, ConfidenceBreakdown
<1>8. /\ a.scores.dataFreshness = DataFreshness(severity, rows, asOf)
      /\ Listed(a).dataFreshness = DataFreshness(severity, rows, a.at)
  BY <1>3 DEF Listed, ConfidenceBreakdown, AsOfCreation
<1>9. DataFreshness(severity, rows, asOf) - DataFreshness(severity, rows, a.at)
        \in 0..((Timeout * FRESHNESS_DEGRADATION_FACTOR[severity] + 599) \div 600)
  <2> HIDE DEF severity, rows
  <2> QED
    BY <1>2, <1>3, <1>4, <1>5, Decay
<1> QED
  BY <1>6, <1>7, <1>8, <1>9

------------------------------------------------------------------------------
LEMMA OpenJob ==
    ASSUME IInv, NEW j \in Working
    PROVE  j \in Jobs /\ job[j] \in Job /\ JobOk(job[j])
  BY DEF IInv, IntelTypeOK, JobsInv, Working

LEMMA FreeIsNoJob == Free \notin Job
<1> SUFFICES ASSUME Free \in Job PROVE FALSE
  OBVIOUS
<1>1. Free.kind \in DOMAIN Program
  BY DEF Job
<1> QED
  BY <1>1, Kinds DEF Free

\* What is said of a job, or an analysis, depends on the tables and the clock only.
LEMMA SameTables ==
    ASSUME UNCHANGED <<clock, rooms, evidence>>
    PROVE  /\ \A q : JobOk(q)' <=> JobOk(q)
           /\ \A a : AnalysisOk(a)' <=> AnalysisOk(a)
<1>1. \A q : Timely(q)' <=> Timely(q)
  BY DEF Timely
<1>2. \A q : Placed(q)' <=> Placed(q)
  BY DEF Placed
<1>3. \A q : Wrote(q)' <=> Wrote(q)
  BY DEF Wrote
<1>4. \A q : Did(q)' <=> Did(q)
  <2>1. \A q : ReadOk(q)' <=> ReadOk(q)
    BY DEF ReadOk
  <2>2. \A q : ScoredOk(q)' <=> ScoredOk(q)
    BY DEF ScoredOk, Seen
  <2> QED
    BY <2>1, <2>2 DEF Did
<1>5. \A a : AnalysisOk(a)' <=> AnalysisOk(a)
  BY DEF AnalysisOk, Frozen
<1> QED
  BY <1>1, <1>2, <1>3, <1>4, <1>5 DEF JobOk

\* One job changes, and no table does.
LEMMA JobChanges ==
    ASSUME IInv, NEW j \in Jobs, NEW x \in Job \cup {Free},
           job' = [job EXCEPT ![j] = x], UNCHANGED <<clock, rooms, evidence, analyses>>,
           x # Free => /\ JobOk(x)
                       /\ \A k \in Working \ {j} : Apart(x, job[k]) /\ Apart(job[k], x)
    PROVE  IInv'
<1>1. IntelTypeOK'
  BY DEF IInv, IntelTypeOK
<1>2. \A k \in Working' : /\ k \in Jobs
                          /\ k = j => job'[k] = x /\ x # Free
                          /\ k # j => k \in Working /\ job'[k] = job[k]
  BY DEF IInv, IntelTypeOK, Working
<1>3. \A k \in Working' : JobOk(job'[k])
  BY <1>2 DEF IInv, JobsInv
<1>4. \A k \in Working' : \A l \in Working' \ {k} : Apart(job'[k], job'[l])
  BY <1>2 DEF IInv, JobsInv
<1>5. JobsInv'
  BY <1>3, <1>4, SameTables DEF JobsInv, Apart
<1>6. \A a \in analyses' : AnalysisOk(a)'
  BY SameTables DEF IInv
<1>7. ScenarioWhole'
  BY DEF IInv, ScenarioWhole
<1> QED
  BY <1>1, <1>5, <1>6, <1>7 DEF IInv

\* Where a job is when `step` is its next statement.
LEMMA AtStep ==
    ASSUME IInv, NEW j \in Jobs, NEW step, NextIs(j, step)
    PROVE  LET q == job[j]
           IN  /\ j \in Working /\ q \in Job /\ JobOk(q) /\ Did(q) /\ ~q.poisoned
               /\ q.done + 1 \in 0..7 /\ q.done + 1 <= Len(Program[q.kind])
               /\ q.result = Absent
               /\ step = "incident" => q.kind \in Creating /\ \A s : ~Past(q, s)
               /\ step = "evidence" => /\ q.kind \in {"evidence"} \cup Scenarios
                                       /\ \A s \in {"evidence", "clock", "read"} : ~Past(q, s)
               /\ step = "clock" => ~Past(q, "read")
               /\ step = "read" => Past(q, "clock")
               /\ step = "analysis" => Past(q, "clock") /\ Past(q, "read")
               /\ \A x : x.kind = q.kind /\ x.done = q.done + 1 =>
                     \A s : Past(x, s) => Past(q, s) \/ s = step
<1> DEFINE q == job[j]
           n == q.done
           past == {Program[q.kind][i] : i \in 1..n}
<1>1. j \in Working /\ q \in Job /\ JobOk(q)
  BY OpenJob DEF NextIs
<1>2. /\ q.kind \in DOMAIN Program /\ n \in 0..7
      /\ n < Len(Program[q.kind]) /\ Program[q.kind][n + 1] = step
  BY <1>1 DEF Job, NextIs, Steps
<1>3. Len(Program[q.kind]) \in 1..7
  BY <1>2, Kinds
<1>4. ~q.poisoned /\ Did(q)
  BY <1>1, <1>2, <1>3 DEF JobOk, Placed
<1>5. \A s : Past(q, s) <=> s \in past
  BY DEF Past
<1>6. n \in 0..(Len(Program[q.kind]) - 1) /\ n + 1 \in 0..7 /\ n + 1 <= Len(Program[q.kind])
  <2> DEFINE l == Len(Program[q.kind])
  <2>1. l \in 1..7 /\ n \in 0..7 /\ n < l
    BY <1>2, <1>3
  <2> HIDE DEF l, n
  <2>2. n \in 0..(l - 1) /\ n + 1 \in 0..7 /\ n + 1 <= l
    BY <2>1
  <2> QED
    BY <2>2 DEF l
<1>7. \A x : x.kind = q.kind /\ x.done = n + 1 => \A s : Past(x, s) => Past(q, s) \/ s = step
  <2> SUFFICES ASSUME NEW x, x.kind = q.kind, x.done = n + 1, NEW s, Past(x, s)
               PROVE  Past(q, s) \/ s = step
    OBVIOUS
  <2>1. PICK i \in 1..(n + 1) : Program[q.kind][i] = s
    BY DEF Past
  <2>2. i \in 1..n \/ i = n + 1
    BY <1>2, <2>1
  <2> QED
    BY <1>2, <2>1, <2>2 DEF Past
<1> HIDE DEF n
<1>8. /\ "analysis" \notin past
      /\ step = "incident" => q.kind \in Creating /\ past = {}
      /\ step = "evidence" => /\ q.kind \in {"evidence"} \cup Scenarios
                              /\ past \cap {"evidence", "clock", "read"} = {}
      /\ step = "clock" => past \cap {"clock", "read"} = {}
      /\ step = "read" => "clock" \in past
      /\ step = "analysis" => {"clock", "read"} \subseteq past
  BY <1>2, <1>6, Order
<1>9. q.result = Absent
  BY <1>4, <1>5, <1>8 DEF Did, ScoredOk
<1> HIDE DEF past
<1> QED
  BY <1>1, <1>4, <1>5, <1>6, <1>7, <1>8, <1>9 DEF n

\* A job does its next statement, and no table changes.
LEMMA Advances ==
    ASSUME IInv, NEW j \in Jobs, NEW step, NextIs(j, step), NEW x \in Job,
           x.kind = job[j].kind, x.id = job[j].id, x.about = job[j].about,
           x.since = job[j].since, x.poisoned = job[j].poisoned, x.done = job[j].done + 1,
           \/ x.eid = job[j].eid
           \/ x.eid # Absent /\ \A k \in Working : job[k].eid # x.eid,
           Wrote(x), Did(x),
           job' = [job EXCEPT ![j] = x], UNCHANGED <<clock, rooms, evidence, analyses>>
    PROVE  IInv'
<1>1. /\ j \in Working /\ JobOk(job[j]) /\ ~job[j].poisoned
      /\ job[j].done + 1 <= Len(Program[job[j].kind])
  BY AtStep
<1>2. JobOk(x)
  BY <1>1 DEF JobOk, Timely, Placed
<1>3. \A k \in Working \ {j} : Apart(x, job[k]) /\ Apart(job[k], x)
  BY <1>1 DEF IInv, JobsInv, Apart
<1> QED
  BY <1>2, <1>3, JobChanges

LEMMA CreateIncidentStep ==
    ASSUME IInv, NEW j \in Jobs, CreateIncident(j)
    PROVE  IInv'
<1> DEFINE q == job[j]
           what == IF q.kind \in Scenarios THEN ScenarioRoom[q.kind] ELSE q.about
           room == [type |-> what.type, severity |-> what.severity, by |-> q.kind]
           x == [q EXCEPT !.room = room, !.done = q.done + 1]
<1>1. /\ NextIs(j, "incident") /\ job' = [job EXCEPT ![j] = x]
      /\ UNCHANGED <<clock, rooms, evidence, analyses>>
  BY DEF CreateIncident, Does
<1>2. /\ q \in Job /\ JobOk(q) /\ Did(q) /\ q.done + 1 \in 0..7 /\ q.result = Absent
      /\ q.kind \in Creating /\ \A s : ~Past(q, s)
      /\ \A y : y.kind = q.kind /\ y.done = q.done + 1 =>
            \A s : Past(y, s) => s = "incident"
  BY <1>1, AtStep
<1>3. what.type \in IncidentType /\ what.severity \in IncidentSeverity
  BY <1>2 DEF Creating, Scenarios, ScenarioRoom, IncidentType, IncidentSeverity, JobOk, Placed
<1>4. room \in Room /\ room # Absent /\ room.by = q.kind
  BY <1>2, <1>3, AbsentIsNoRow DEF Room, Creating
<1> HIDE DEF room
<1>5. /\ x \in Job /\ x.room = room /\ x.done = q.done + 1
      /\ x.kind = q.kind /\ x.id = q.id /\ x.about = q.about /\ x.since = q.since
      /\ x.poisoned = q.poisoned /\ x.eid = q.eid /\ x.row = q.row /\ x.result = q.result
  BY <1>2, <1>4 DEF Job
<1> HIDE DEF x
<1>6. Wrote(x)
  BY <1>2, <1>4, <1>5 DEF JobOk, Wrote
<1>7. Did(x)
  BY <1>2, <1>4, <1>5 DEF Did
<1> HIDE DEF q
<1> QED
  BY <1>1, <1>5, <1>6, <1>7, Advances DEF q

LEMMA CreateEvidenceStep ==
    ASSUME IInv, NEW j \in Jobs, CreateEvidence(j)
    PROVE  IInv'
<1>1. PICK e \in EvidenceIds :
        /\ NextIs(j, "evidence")
        /\ evidence[e] = Absent /\ \A k \in Working : job[k].eid # e
        /\ Does(j, [job[j] EXCEPT !.eid = e, !.row =
              [room |-> job[j].id, at |-> clock,
               category |-> IF job[j].kind \in Scenarios THEN ScenarioCategory[job[j].kind]
                            ELSE job[j].about.category]])
  BY DEF CreateEvidence
<1> DEFINE q == job[j]
           row == [room |-> q.id, at |-> clock,
                   category |-> IF q.kind \in Scenarios THEN ScenarioCategory[q.kind]
                                ELSE q.about.category]
           x == [q EXCEPT !.eid = e, !.row = row, !.done = q.done + 1]
<1>2. /\ NextIs(j, "evidence") /\ job' = [job EXCEPT ![j] = x]
      /\ UNCHANGED <<clock, rooms, evidence, analyses>>
  BY <1>1 DEF Does
<1>3. /\ q \in Job /\ JobOk(q) /\ Did(q) /\ q.done + 1 \in 0..7 /\ q.result = Absent
      /\ q.kind \in {"evidence"} \cup Scenarios
      /\ \A s \in {"evidence", "clock", "read"} : ~Past(q, s)
      /\ \A y : y.kind = q.kind /\ y.done = q.done + 1 =>
            \A s : Past(y, s) => Past(q, s) \/ s = "evidence"
  BY <1>2, AtStep
<1>4. /\ row \in EvidenceRow /\ row # Absent /\ row.room = q.id
      /\ q.kind \in Scenarios => row.category = ScenarioCategory[q.kind]
  <2>1. q.id \in Rooms /\ clock \in 0..MaxClock
    BY <1>3 DEF Job, IInv, IntelTypeOK
  <2>2. q.kind \in Scenarios => ScenarioCategory[q.kind] \in EvidenceSourceCategory
    BY DEF Scenarios, ScenarioCategory, EvidenceSourceCategory
  <2>3. q.kind \notin Scenarios => q.about.category \in EvidenceSourceCategory
    BY <1>3 DEF JobOk, Placed
  <2>4. row \in EvidenceRow
    BY <2>1, <2>2, <2>3 DEF EvidenceRow
  <2> QED
    BY <2>4, AbsentIsNoRow
<1> HIDE DEF row
<1>5. e # Absent
  BY AbsentIsNoRow
<1>6. /\ x \in Job /\ x.eid = e /\ x.row = row /\ x.done = q.done + 1
      /\ x.kind = q.kind /\ x.id = q.id /\ x.about = q.about /\ x.since = q.since
      /\ x.poisoned = q.poisoned /\ x.room = q.room /\ x.result = q.result
  <2>1. q \in Job /\ q.done + 1 \in 0..7
    BY <1>3
  <2> HIDE DEF q
  <2> QED
    BY <1>4, <2>1 DEF Job
<1> HIDE DEF x
<1>7. Wrote(x)
  <2>1. (q.room # Absent => q.kind \in Creating /\ q.room.by = q.kind) /\ evidence[e] = Absent
    BY <1>1, <1>3 DEF JobOk, Wrote
  <2> HIDE DEF q
  <2> QED
    BY <1>4, <1>5, <1>6, <2>1 DEF Wrote
<1>8. Did(x)
  BY <1>3, <1>4, <1>5, <1>6 DEF Did
<1> HIDE DEF q
<1>9. \A k \in Working : job[k].eid # x.eid
  BY <1>1, <1>6
<1> QED
  BY <1>2, <1>5, <1>6, <1>7, <1>8, <1>9, Advances DEF q

LEMMA ProceedStep ==
    ASSUME IInv, NEW j \in Jobs, Proceed(j)
    PROVE  IInv'
<1>1. PICK step \in {"decisions", "configure", "trip"} : NextIs(j, step)
  BY DEF Proceed
<1> DEFINE q == job[j]
           x == [q EXCEPT !.done = q.done + 1]
<1>2. job' = [job EXCEPT ![j] = x] /\ UNCHANGED <<clock, rooms, evidence, analyses>>
  BY DEF Proceed, Does
<1>3. /\ q \in Job /\ JobOk(q) /\ Did(q) /\ q.done + 1 \in 0..7 /\ q.result = Absent
      /\ \A y : y.kind = q.kind /\ y.done = q.done + 1 =>
            \A s : Past(y, s) => Past(q, s) \/ s = step
  BY <1>1, AtStep
<1>4. /\ x \in Job /\ x.done = q.done + 1 /\ x.kind = q.kind /\ x.id = q.id
      /\ x.about = q.about /\ x.since = q.since /\ x.poisoned = q.poisoned
      /\ x.room = q.room /\ x.eid = q.eid /\ x.row = q.row /\ x.asOf = q.asOf
      /\ x.read = q.read /\ x.result = q.result
  BY <1>3 DEF Job
<1> HIDE DEF x
<1>5. Wrote(x)
  BY <1>3, <1>4 DEF JobOk, Wrote
<1>6. Did(x)
  BY <1>1, <1>3, <1>4 DEF Did, ReadOk
<1> HIDE DEF q
<1> QED
  BY <1>1, <1>2, <1>4, <1>5, <1>6, Advances DEF q

LEMMA TakeClockStep ==
    ASSUME IInv, NEW j \in Jobs, TakeClock(j)
    PROVE  IInv'
<1> DEFINE q == job[j]
           x == [q EXCEPT !.asOf = clock, !.done = q.done + 1]
<1>1. /\ NextIs(j, "clock") /\ job' = [job EXCEPT ![j] = x]
      /\ UNCHANGED <<clock, rooms, evidence, analyses>>
  BY DEF TakeClock, Does
<1>2. /\ q \in Job /\ JobOk(q) /\ Did(q) /\ q.done + 1 \in 0..7 /\ q.result = Absent
      /\ ~Past(q, "read")
      /\ \A y : y.kind = q.kind /\ y.done = q.done + 1 =>
            \A s : Past(y, s) => Past(q, s) \/ s = "clock"
  BY <1>1, AtStep
<1>3. clock \in 0..MaxClock /\ MaxClock \in Nat /\ q.since <= clock
  BY <1>2, ClockBounds DEF IInv, IntelTypeOK, JobOk, Timely
<1>4. /\ x \in Job /\ x.done = q.done + 1 /\ x.kind = q.kind /\ x.id = q.id
      /\ x.about = q.about /\ x.since = q.since /\ x.poisoned = q.poisoned
      /\ x.room = q.room /\ x.eid = q.eid /\ x.row = q.row /\ x.asOf = clock
      /\ x.result = q.result
  BY <1>2, <1>3 DEF Job
<1> HIDE DEF x
<1>5. Wrote(x)
  BY <1>2, <1>4 DEF JobOk, Wrote
<1>6. Did(x)
  BY <1>2, <1>3, <1>4 DEF Did
<1> HIDE DEF q
<1> QED
  BY <1>1, <1>4, <1>5, <1>6, Advances DEF q

LEMMA ReadEvidenceStep ==
    ASSUME IInv, NEW j \in Jobs, ReadEvidence(j)
    PROVE  IInv'
<1> DEFINE q == job[j]
           read == EvidenceSeen(j)
           x == [q EXCEPT !.read = read, !.done = q.done + 1]
<1>1. /\ NextIs(j, "read") /\ job' = [job EXCEPT ![j] = x]
      /\ UNCHANGED <<clock, rooms, evidence, analyses>>
  BY DEF ReadEvidence, Does
<1>2. /\ q \in Job /\ JobOk(q) /\ Did(q) /\ q.done + 1 \in 0..7 /\ q.result = Absent
      /\ Past(q, "clock")
      /\ \A y : y.kind = q.kind /\ y.done = q.done + 1 =>
            \A s : Past(y, s) => Past(q, s) \/ s = "read"
  BY <1>1, AtStep
<1>3. /\ read \in EvidenceRows
      /\ \A e \in DOMAIN read :
            \/ e = q.eid /\ read[e] = q.row
            \/ evidence[e] # Absent /\ read[e] = evidence[e]
      /\ q.eid # Absent => q.eid \in DOMAIN read
  <2> DEFINE own == IF q.row = Absent THEN {} ELSE {q.eid}
             ids == own \cup {e \in EvidenceIds : evidence[e] # Absent /\ evidence[e].room = q.id}
  <2>1. read = [e \in ids |-> IF e \in own THEN q.row ELSE evidence[e]]
    BY DEF EvidenceSeen
  <2>2. /\ q.row \in EvidenceRow \cup {Absent} /\ q.eid \in EvidenceIds \cup {Absent}
        /\ evidence \in [EvidenceIds -> EvidenceRow \cup {Absent}]
    BY <1>2 DEF Job, IInv, IntelTypeOK
  <2>3. q.row = Absent <=> q.eid = Absent
    BY <1>2 DEF JobOk, Wrote
  <2>4. ids \in SUBSET EvidenceIds
    BY <2>2, <2>3
  <2>5. \A e \in ids : (IF e \in own THEN q.row ELSE evidence[e]) \in EvidenceRow
    BY <2>2
  <2>6. read \in EvidenceRows
    <3> HIDE DEF ids, own, read
    <3> QED
      BY <2>1, <2>4, <2>5 DEF EvidenceRows
  <2> HIDE DEF read
  <2> QED
    BY <2>1, <2>3, <2>6
<1> HIDE DEF read
<1>4. /\ x \in Job /\ x.done = q.done + 1 /\ x.kind = q.kind /\ x.id = q.id
      /\ x.about = q.about /\ x.since = q.since /\ x.poisoned = q.poisoned
      /\ x.room = q.room /\ x.eid = q.eid /\ x.row = q.row /\ x.asOf = q.asOf
      /\ x.read = read /\ x.result = q.result
  BY <1>2, <1>3 DEF Job
<1> HIDE DEF x
<1>5. Wrote(x)
  BY <1>2, <1>4 DEF JobOk, Wrote
<1>6. Did(x)
  <2>1. ReadOk(x)
    BY <1>3, <1>4 DEF ReadOk
  <2> QED
    BY <1>2, <1>4, <2>1 DEF Did
<1> HIDE DEF q
<1> QED
  BY <1>1, <1>4, <1>5, <1>6, Advances DEF q

LEMMA CreateAnalysisStep ==
    ASSUME IInv, NEW j \in Jobs, CreateAnalysis(j)
    PROVE  IInv'
<1>1. PICK c \in (IF job[j].kind = "analyze" THEN Conflicts ELSE {0}) :
        /\ NextIs(j, "analysis") /\ ValidContract(ScoresOf(j, c))
        /\ Does(j, [job[j] EXCEPT !.result =
              [room |-> job[j].id, used |-> DOMAIN job[j].read, conflicts |-> c,
               scores |-> ScoresOf(j, c), at |-> clock]])
  BY DEF CreateAnalysis
<1> DEFINE q == job[j]
           scores == ConfidenceBreakdown(Seen(q), q.read, c, q.asOf)
           a == [room |-> q.id, used |-> DOMAIN q.read, conflicts |-> c,
                 scores |-> scores, at |-> clock]
           x == [q EXCEPT !.result = a, !.done = q.done + 1]
<1>2. scores = ScoresOf(j, c)
  BY DEF ScoresOf, RoomSeen, Seen
<1>3. /\ NextIs(j, "analysis") /\ job' = [job EXCEPT ![j] = x]
      /\ UNCHANGED <<clock, rooms, evidence, analyses>> /\ ValidContract(scores)
  BY <1>1, <1>2 DEF Does
<1>4. /\ q \in Job /\ JobOk(q) /\ Did(q) /\ q.done + 1 \in 0..7
      /\ Past(q, "clock") /\ Past(q, "read")
      /\ Program[q.kind][q.done + 1] = "analysis"
      /\ \A y : y.kind = q.kind /\ y.done = q.done + 1 =>
            \A s : Past(y, s) => Past(q, s) \/ s = "analysis"
  BY <1>3, AtStep DEF NextIs, Steps
<1>5. scores \in Scores
  <2>1. /\ DOMAIN scores = {"evidenceCompleteness", "sourceReliability", "dataFreshness", "aiCertainty"}
        /\ scores.evidenceCompleteness \in 0..100 /\ scores.sourceReliability \in 0..100
        /\ scores.dataFreshness \in 0..100 /\ scores.aiCertainty \in 0..100
    BY <1>3 DEF ValidContract, ConfidenceBreakdown
  <2> QED
    BY <2>1 DEF Scores, ConfidenceBreakdown
<1>6. /\ q.read \in EvidenceRows /\ q.since <= q.asOf /\ q.asOf <= clock
      /\ clock - q.since <= Timeout
  BY <1>4 DEF Did, ReadOk, JobOk, Timely
<1>7. /\ clock \in 0..MaxClock /\ MaxClock \in Nat /\ Timeout \in Nat
      /\ q.since \in 0..MaxClock /\ q.asOf \in 0..MaxClock /\ q.id \in Rooms
  BY <1>4, ClockBounds DEF IInv, IntelTypeOK, Job
<1> HIDE DEF scores
<1>8. a \in Analysis /\ a # Absent
  <2>1. DOMAIN q.read \in SUBSET EvidenceIds
    BY <1>6 DEF EvidenceRows
  <2>2. c \in Nat
    BY ConflictCounts
  <2>3. a \in Analysis
    BY <1>5, <1>7, <2>1, <2>2 DEF Analysis
  <2> QED
    BY <2>3, AbsentIsNoRow
<1>9. /\ a.room = q.id /\ a.used = DOMAIN q.read /\ a.conflicts = c /\ a.scores = scores
      /\ q.asOf <= a.at /\ a.at - q.asOf <= Timeout
  BY <1>6, <1>7
<1> HIDE DEF a
<1>10. /\ x \in Job /\ x.done = q.done + 1 /\ x.kind = q.kind /\ x.id = q.id
       /\ x.about = q.about /\ x.since = q.since /\ x.poisoned = q.poisoned
       /\ x.room = q.room /\ x.eid = q.eid /\ x.row = q.row /\ x.asOf = q.asOf
       /\ x.read = q.read /\ x.result = a
  BY <1>4, <1>8 DEF Job
<1> HIDE DEF x
<1>11. Wrote(x)
  BY <1>4, <1>10 DEF JobOk, Wrote
<1>12. Did(x)
  <2>1. q.done \in 0..7 /\ q.done + 1 \in 1..x.done
    BY <1>4, <1>10 DEF Job
  <2>2. Past(x, "analysis")
    BY <1>4, <1>10, <2>1 DEF Past
  <2>3. Past(x, "read")
    BY <1>4, <1>10, <2>1 DEF Past
  <2>4. Seen(x) = Seen(q)
    BY <1>10 DEF Seen
  <2>5. ScoredOk(x)
    BY <1>9, <1>10, <2>2, <2>3, <2>4 DEF ScoredOk, scores
  <2>6. ReadOk(x)
    BY <1>4, <1>10 DEF Did, ReadOk
  <2> QED
    BY <1>4, <1>8, <1>10, <2>5, <2>6 DEF Did
<1> HIDE DEF q
<1> QED
  BY <1>3, <1>10, <1>11, <1>12, Advances DEF q

LEMMA UndoStep ==
    ASSUME IInv, NEW j \in Jobs, Undo(j)
    PROVE  IInv'
  BY JobChanges DEF Undo

LEMMA FailAnalysisStep ==
    ASSUME IInv, NEW j \in Jobs, FailAnalysis(j)
    PROVE  IInv'
<1> DEFINE q == job[j]
           l == Len(Program[q.kind])
           x == [q EXCEPT !.done = l, !.poisoned = TRUE]
<1>1. j \in Working /\ q \in Job /\ JobOk(q)
  BY AtStep DEF FailAnalysis
<1>2. l \in 0..7
  BY <1>1, Kinds DEF Job
<1>3. job' = [job EXCEPT ![j] = x] /\ UNCHANGED <<clock, rooms, evidence, analyses>>
  BY DEF FailAnalysis, Steps
<1>4. /\ x \in Job /\ x.done = l /\ x.poisoned /\ x.kind = q.kind /\ x.id = q.id
      /\ x.about = q.about /\ x.since = q.since /\ x.room = q.room /\ x.eid = q.eid
      /\ x.row = q.row
  BY <1>1, <1>2 DEF Job
<1> HIDE DEF x
<1>5. JobOk(x)
  <2>1. Placed(x)
    <3>1. x.done <= Len(Program[x.kind]) /\ x.done = Len(Program[x.kind])
      BY <1>2, <1>4
    <3> QED
      BY <1>1, <1>4, <3>1 DEF JobOk, Placed
  <2>2. Timely(x) /\ Wrote(x)
    BY <1>1, <1>4 DEF JobOk, Timely, Wrote
  <2> QED
    BY <1>4, <2>1, <2>2 DEF JobOk
<1>6. \A k \in Working \ {j} : Apart(x, job[k]) /\ Apart(job[k], x)
  BY <1>1, <1>4 DEF IInv, JobsInv, Apart
<1> QED
  BY <1>3, <1>4, <1>5, <1>6, JobChanges

LEMMA BeginStep ==
    ASSUME IInv, NEW j \in Jobs, NEW kind \in DOMAIN Program, NEW id \in Rooms,
           NEW about \in About,
           kind = "incident" => about \in [type : IncidentType, severity : IncidentSeverity],
           kind = "evidence" => about \in [category : EvidenceSourceCategory],
           Begin(j, kind, id, about)
    PROVE  IInv'
<1> DEFINE x == [kind |-> kind, id |-> id, about |-> about, done |-> 0, since |-> clock,
                 room |-> Absent, eid |-> Absent, row |-> Absent,
                 asOf |-> 0, read |-> Absent, result |-> Absent, poisoned |-> FALSE]
<1>1. job' = [job EXCEPT ![j] = x] /\ UNCHANGED <<clock, rooms, evidence, analyses>>
  BY DEF Begin
<1>2. IF kind \in Creating
      THEN rooms[id] = Absent /\ \A k \in Working : job[k].id # id
      ELSE rooms[id] # Absent
  BY DEF Begin, Creating
<1>3. clock \in 0..MaxClock /\ MaxClock \in Nat /\ Timeout \in Nat
  BY ClockBounds DEF IInv, IntelTypeOK
<1>4. x \in Job
  <2>1. 0 \in 0..7 /\ 0 \in 0..MaxClock
    BY <1>3
  <2> QED
    BY <1>3, <2>1 DEF Job
<1>5. /\ x.kind = kind /\ x.id = id /\ x.about = about /\ x.done = 0 /\ x.since = clock
      /\ x.room = Absent /\ x.eid = Absent /\ x.row = Absent /\ x.result = Absent
      /\ ~x.poisoned
  OBVIOUS
<1> HIDE DEF x
<1>6. JobOk(x)
  <2>1. \A s : ~Past(x, s)
    BY <1>5 DEF Past
  <2>2. Did(x)
    BY <1>5, <2>1 DEF Did
  <2>3. Placed(x)
    <3>1. 0 <= Len(Program[kind])
      BY Kinds
    <3> QED
      BY <1>2, <1>5, <3>1 DEF Placed
  <2>4. Timely(x) /\ Wrote(x)
    BY <1>3, <1>5 DEF Timely, Wrote
  <2> QED
    BY <2>2, <2>3, <2>4 DEF JobOk
<1>7. \A k \in Working \ {j} : Apart(x, job[k]) /\ Apart(job[k], x)
  <2> SUFFICES ASSUME NEW k \in Working \ {j}
               PROVE  Apart(x, job[k]) /\ Apart(job[k], x)
    OBVIOUS
  <2>1. job[k].kind \in Creating => rooms[job[k].id] = Absent
    BY OpenJob DEF JobOk, Placed
  <2> QED
    BY <1>2, <1>5, <2>1 DEF Apart
<1> QED
  BY <1>1, <1>4, <1>6, <1>7, JobChanges

\* Time passes: no more is asked of a clock than that it is not early.
LEMMA PassesStep ==
    ASSUME IInv, NEW d \in Ticks, Passes(d)
    PROVE  IInv'
<1>1. /\ clock \in 0..MaxClock /\ MaxClock \in Nat /\ Timeout \in Nat /\ d \in Nat
      /\ clock' = clock + d /\ clock' <= MaxClock
      /\ UNCHANGED <<rooms, evidence, analyses, job>>
  BY ClockBounds DEF IInv, IntelTypeOK, Passes
<1>2. clock' \in 0..MaxClock /\ clock <= clock'
  BY <1>1
<1>3. IntelTypeOK'
  BY <1>1, <1>2 DEF IInv, IntelTypeOK
<1>4. \A j \in Working : \A q : q = job[j] => JobOk(q)'
  <2> SUFFICES ASSUME NEW j \in Working, NEW q, q = job[j] PROVE JobOk(q)'
    OBVIOUS
  <2>1. q \in Job /\ JobOk(q)
    BY OpenJob
  <2>2. q.since \in 0..MaxClock /\ q.asOf \in 0..MaxClock
    BY <2>1 DEF Job
  <2>3. Timely(q)'
    <3>1. (clock + d) - q.since <= Timeout
      <4>1. clock + d - q.since <= Timeout
        BY DEF Passes
      <4> QED
        BY <1>1, <2>2, <4>1
    <3>2. q.since <= clock
      BY <2>1 DEF JobOk, Timely
    <3> QED
      BY <1>1, <1>2, <2>2, <3>1, <3>2 DEF Timely
  <2>4. Placed(q)' /\ Wrote(q)'
    BY <1>1, <2>1 DEF JobOk, Placed, Wrote
  <2>5. ~q.poisoned => Did(q)'
    <3> SUFFICES ASSUME ~q.poisoned PROVE Did(q)'
      BY <1>1
    <3>1. Did(q)
      BY <2>1 DEF JobOk
    <3>2. ReadOk(q)' <=> ReadOk(q)
      BY <1>1 DEF ReadOk
    <3>3. ScoredOk(q)' <=> ScoredOk(q)
      BY <1>1 DEF ScoredOk, Seen
    <3>4. q.asOf <= clock => q.asOf <= clock'
      BY <1>1, <1>2, <2>2
    <3> QED
      BY <1>1, <3>1, <3>2, <3>3, <3>4 DEF Did
  <2> QED
    BY <1>1, <2>3, <2>4, <2>5 DEF JobOk
<1>5. JobsInv'
  <2>1. Working' = Working /\ \A k : job'[k] = job[k]
    BY <1>1 DEF Working
  <2>2. \A j \in Working' : \A k \in Working' \ {j} : Apart(job[j], job[k])
    BY <2>1 DEF IInv, JobsInv
  <2> QED
    BY <1>4, <2>1, <2>2 DEF JobsInv
<1>6. \A a \in analyses' : AnalysisOk(a)'
  BY <1>1 DEF IInv, AnalysisOk, Frozen
<1>7. ScenarioWhole'
  BY <1>1 DEF IInv, ScenarioWhole
<1> QED
  BY <1>3, <1>5, <1>6, <1>7 DEF IInv

\* What a job that commits has done, and what its commit leaves as it is.
LEMMA AtCommit ==
    ASSUME IInv, NEW j \in Jobs, Commit(j)
    PROVE  LET q == job[j]
           IN  /\ j \in Working /\ q \in Job /\ JobOk(q) /\ Did(q)
               /\ q.kind \in Creating => q.room # Absent
               /\ q.kind \in Scenarios => q.eid # Absent
               /\ q.kind = "CLOUD_OUTAGE_PARTIAL_EVIDENCE" => q.result # Absent
               /\ rooms'[q.id] = Seen(q) /\ rooms'[q.id] # Absent
               /\ q.eid # Absent => evidence'[q.eid] = q.row
               /\ \A i \in Rooms : /\ rooms[i] # Absent => rooms'[i] = rooms[i]
                                   /\ i # q.id => rooms'[i] = rooms[i]
               /\ \A e \in EvidenceIds : /\ evidence[e] # Absent => evidence'[e] = evidence[e]
                                         /\ e # q.eid => evidence'[e] = evidence[e]
               /\ IntelTypeOK'
<1> DEFINE q == job[j]
           all == {Program[q.kind][i] : i \in 1..Len(Program[q.kind])}
<1>1. /\ j \in Working /\ q.done = Len(Program[q.kind]) /\ ~q.poisoned
      /\ rooms' = IF q.room = Absent THEN rooms ELSE [rooms EXCEPT ![q.id] = q.room]
      /\ evidence' = IF q.row = Absent THEN evidence ELSE [evidence EXCEPT ![q.eid] = q.row]
      /\ analyses' = IF q.result = Absent THEN analyses ELSE analyses \cup {q.result}
      /\ job' = [job EXCEPT ![j] = Free] /\ clock' = clock
  BY DEF Commit, Sound, Steps
<1>2. q \in Job /\ JobOk(q)
  BY <1>1, OpenJob
<1>3. Did(q)
  BY <1>1, <1>2 DEF JobOk
<1>4. /\ q.kind \in DOMAIN Program /\ q.id \in Rooms
      /\ q.room \in Room \cup {Absent} /\ q.row \in EvidenceRow \cup {Absent}
      /\ q.eid \in EvidenceIds \cup {Absent} /\ q.result \in Analysis \cup {Absent}
  BY <1>2 DEF Job
<1>5. \A s \in all : Past(q, s)
  BY <1>1 DEF Past
<1>6. /\ q.kind \in Creating => "incident" \in all
      /\ q.kind \in Scenarios => "evidence" \in all
      /\ q.kind = "CLOUD_OUTAGE_PARTIAL_EVIDENCE" => "analysis" \in all
  BY <1>4, Completed
<1>7. /\ q.kind \in Creating => q.room # Absent
      /\ q.kind \in Scenarios => q.eid # Absent
      /\ q.kind = "CLOUD_OUTAGE_PARTIAL_EVIDENCE" => q.result # Absent
  <2> HIDE DEF all
  <2> QED
    BY <1>3, <1>5, <1>6 DEF Did
<1>8. /\ rooms \in [Rooms -> Room \cup {Absent}]
      /\ evidence \in [EvidenceIds -> EvidenceRow \cup {Absent}]
      /\ analyses \subseteq Analysis /\ job \in [Jobs -> Job \cup {Free}]
      /\ clock \in 0..MaxClock
  BY DEF IInv, IntelTypeOK
<1>9. /\ q.kind \in Creating => rooms[q.id] = Absent
      /\ q.kind \notin Creating => rooms[q.id] # Absent
      /\ q.room # Absent => q.kind \in Creating
      /\ q.eid = Absent => q.row = Absent
      /\ q.eid # Absent => evidence[q.eid] = Absent /\ q.row # Absent
  BY <1>2 DEF JobOk, Placed, Wrote
<1>10. IntelTypeOK'
  <2> HIDE DEF q
  <2>1. job' \in [Jobs -> Job \cup {Free}]
    BY <1>1, <1>8
  <2>2. rooms' \in [Rooms -> Room \cup {Absent}]
    BY <1>1, <1>4, <1>8
  <2>3. evidence' \in [EvidenceIds -> EvidenceRow \cup {Absent}]
    BY <1>1, <1>4, <1>8, <1>9
  <2>4. analyses' \subseteq Analysis
    BY <1>1, <1>4, <1>8
  <2> QED
    BY <1>1, <1>8, <2>1, <2>2, <2>3, <2>4 DEF IntelTypeOK
<1>11. /\ rooms'[q.id] = Seen(q) /\ rooms'[q.id] # Absent
       /\ \A i \in Rooms : /\ rooms[i] # Absent => rooms'[i] = rooms[i]
                           /\ i # q.id => rooms'[i] = rooms[i]
  BY <1>1, <1>4, <1>7, <1>8, <1>9 DEF Seen
<1>12. /\ q.eid # Absent => evidence'[q.eid] = q.row
       /\ \A e \in EvidenceIds : /\ evidence[e] # Absent => evidence'[e] = evidence[e]
                                 /\ e # q.eid => evidence'[e] = evidence[e]
  BY <1>1, <1>4, <1>8, <1>9
<1> HIDE DEF all, q
<1> QED
  BY <1>1, <1>2, <1>3, <1>7, <1>10, <1>11, <1>12 DEF q

LEMMA CommitStep ==
    ASSUME IInv, NEW j \in Jobs, Commit(j)
    PROVE  IInv'
<1> DEFINE q == job[j]
<1>1. /\ j \in Working /\ q \in Job /\ JobOk(q) /\ Did(q)
      /\ q.kind \in Scenarios => q.eid # Absent
      /\ q.kind = "CLOUD_OUTAGE_PARTIAL_EVIDENCE" => q.result # Absent
      /\ rooms'[q.id] = Seen(q) /\ rooms'[q.id] # Absent
      /\ q.eid # Absent => evidence'[q.eid] = q.row
      /\ IntelTypeOK'
  BY AtCommit
<1>2. \A i \in Rooms : /\ rooms[i] # Absent => rooms'[i] = rooms[i]
                       /\ i # q.id => rooms'[i] = rooms[i]
  BY AtCommit
<1>3. \A e \in EvidenceIds : /\ evidence[e] # Absent => evidence'[e] = evidence[e]
                             /\ e # q.eid => evidence'[e] = evidence[e]
  BY AtCommit
<1>4. /\ analyses' = IF q.result = Absent THEN analyses ELSE analyses \cup {q.result}
      /\ job' = [job EXCEPT ![j] = Free] /\ clock' = clock
  BY DEF Commit
<1>5. \A k \in Working' : k \in Working \ {j} /\ job'[k] = job[k]
  BY <1>4 DEF IInv, IntelTypeOK, Working
<1>6. /\ q.id \in Rooms /\ q.eid \in EvidenceIds \cup {Absent}
      /\ q.result \in Analysis \cup {Absent} /\ q.row \in EvidenceRow \cup {Absent}
  BY <1>1 DEF Job
<1>7. \A k \in Working' : \A o : o = job[k] => JobOk(o)'
  <2> SUFFICES ASSUME NEW k \in Working', NEW o, o = job[k] PROVE JobOk(o)'
    OBVIOUS
  <2>1. o \in Job /\ JobOk(o) /\ Apart(q, o)
    BY <1>1, <1>5, OpenJob DEF IInv, JobsInv
  <2>2. /\ o.id \in Rooms /\ o.eid \in EvidenceIds \cup {Absent}
    BY <2>1 DEF Job
  <2>3. rooms'[o.id] = rooms[o.id]
    <3>1. q.kind \notin Creating => rooms[q.id] # Absent
      BY <1>1 DEF JobOk, Placed
    <3> QED
      BY <1>2, <2>1, <2>2, <3>1 DEF Apart
  <2>4. o.eid # Absent => evidence'[o.eid] = evidence[o.eid]
    BY <1>3, <2>1, <2>2 DEF Apart
  <2>5. Timely(o)' /\ Placed(o)'
    BY <1>4, <2>1, <2>3 DEF JobOk, Timely, Placed
  <2>6. Wrote(o)'
    BY <2>1, <2>4 DEF JobOk, Wrote
  <2>7. ReadOk(o) => ReadOk(o)'
    <3>1. o.read \in EvidenceRows => DOMAIN o.read \subseteq EvidenceIds
      BY DEF EvidenceRows
    <3> QED
      BY <1>3, <3>1 DEF ReadOk
  <2>8. ScoredOk(o) => ScoredOk(o)'
    BY <2>3 DEF ScoredOk, Seen
  <2>9. Did(o) => Did(o)'
    BY <1>4, <2>7, <2>8 DEF Did
  <2> QED
    BY <2>1, <2>5, <2>6, <2>9 DEF JobOk
<1>8. JobsInv'
  <2>1. \A k \in Working' : \A l \in Working' \ {k} : Apart(job'[k], job'[l])
    BY <1>5 DEF IInv, JobsInv
  <2> QED
    BY <1>5, <1>7, <2>1 DEF JobsInv, Apart
<1>9. \A a \in analyses : AnalysisOk(a)'
  <2> SUFFICES ASSUME NEW a \in analyses PROVE AnalysisOk(a)'
    OBVIOUS
  <2>1. AnalysisOk(a) /\ a.room \in Rooms /\ a.used \in SUBSET EvidenceIds
    BY DEF IInv, IntelTypeOK, Analysis
  <2>2. rooms'[a.room] = rooms[a.room] /\ \A e \in a.used : evidence'[e] = evidence[e]
    BY <1>2, <1>3, <2>1 DEF AnalysisOk
  <2>3. Frozen(a)' = Frozen(a)
    BY <2>2 DEF Frozen
  <2> QED
    BY <2>1, <2>2, <2>3 DEF AnalysisOk
<1>10. ASSUME NEW a, a = q.result, a # Absent PROVE AnalysisOk(a)'
  <2>1. ScoredOk(q) /\ ReadOk(q)
    BY <1>1, <1>10 DEF Did, ScoredOk
  <2>2. /\ a.room = q.id /\ a.used = DOMAIN q.read
        /\ q.asOf <= a.at /\ a.at - q.asOf <= Timeout
        /\ a.scores = ConfidenceBreakdown(Seen(q), q.read, a.conflicts, q.asOf)
    BY <1>10, <2>1 DEF ScoredOk
  <2>3. \A e \in DOMAIN q.read : evidence'[e] = q.read[e] /\ q.read[e] # Absent
    <3>1. /\ DOMAIN q.read \subseteq EvidenceIds
          /\ \A e \in DOMAIN q.read : q.read[e] \in EvidenceRow
      BY <2>1 DEF ReadOk, EvidenceRows
    <3>2. Absent \notin EvidenceRow /\ Absent \notin EvidenceIds
      BY AbsentIsNoRow
    <3> QED
      BY <1>1, <1>3, <2>1, <3>1, <3>2 DEF ReadOk
  <2>4. q.read = [e \in DOMAIN q.read |-> q.read[e]]
    BY <2>1 DEF ReadOk, EvidenceRows
  <2>5. Frozen(a)' = q.read
    BY <2>2, <2>3, <2>4 DEF Frozen
  <2>6. q.asOf \in 0..MaxClock
    BY <1>1 DEF Job
  <2>7. rooms'[a.room] = Seen(q) /\ rooms'[a.room] # Absent
    BY <1>1, <2>2
  <2>8. \A e \in a.used : evidence'[e] # Absent
    BY <2>2, <2>3
  <2> HIDE DEF q
  <2> QED
    BY <2>2, <2>5, <2>6, <2>7, <2>8 DEF AnalysisOk
<1>11. \A a \in analyses' : AnalysisOk(a)'
  BY <1>4, <1>9, <1>10
<1>12. ScenarioWhole'
  <2> SUFFICES ASSUME NEW i \in Rooms, rooms'[i] # Absent, rooms'[i].by \in Scenarios
               PROVE  LET scripted == {e \in EvidenceIds :
                                         evidence'[e] # Absent /\ evidence'[e].room = i
                                         /\ evidence'[e].category = ScenarioCategory[rooms'[i].by]}
                      IN  /\ scripted # {}
                          /\ rooms'[i].by = "CLOUD_OUTAGE_PARTIAL_EVIDENCE" =>
                                \E a \in analyses' : a.room = i /\ a.used \cap scripted # {}
    BY DEF ScenarioWhole
  <2>1. CASE rooms[i] # Absent
    <3>1. rooms'[i] = rooms[i]
      BY <1>2, <2>1
    <3>2. \A e \in EvidenceIds : evidence[e] # Absent => evidence'[e] = evidence[e]
      BY <1>3
    <3>3. analyses \subseteq analyses'
      BY <1>4
    <3>4. LET scripted == {e \in EvidenceIds : evidence[e] # Absent /\ evidence[e].room = i
                             /\ evidence[e].category = ScenarioCategory[rooms[i].by]}
          IN  /\ scripted # {}
              /\ rooms[i].by = "CLOUD_OUTAGE_PARTIAL_EVIDENCE" =>
                    \E a \in analyses : a.room = i /\ a.used \cap scripted # {}
      BY <2>1, <3>1 DEF IInv, ScenarioWhole
    <3> QED
      BY <3>1, <3>2, <3>3, <3>4
  <2>2. CASE rooms[i] = Absent
    <3>1. i = q.id /\ rooms'[i] = Seen(q)
      BY <1>1, <1>2, <2>2
    <3>2. q.room # Absent /\ rooms'[i].by = q.kind
      BY <2>2, <3>1, <1>1 DEF Seen, JobOk, Wrote
    <3>3. /\ q.eid \in EvidenceIds /\ evidence'[q.eid] = q.row /\ q.row # Absent
          /\ q.row.room = i /\ q.row.category = ScenarioCategory[q.kind]
      BY <1>1, <1>6, <3>1, <3>2 DEF JobOk, Wrote
    <3>4. q.kind = "CLOUD_OUTAGE_PARTIAL_EVIDENCE" =>
             /\ q.result \in analyses' /\ q.result.room = i
             /\ q.eid \in q.result.used
      <4> SUFFICES ASSUME q.kind = "CLOUD_OUTAGE_PARTIAL_EVIDENCE"
                   PROVE  /\ q.result \in analyses' /\ q.result.room = i
                          /\ q.eid \in q.result.used
        OBVIOUS
      <4>1. q.result # Absent
        BY <1>1
      <4>2. Did(q)
        BY <1>1
      <4>3. ScoredOk(q) /\ (Past(q, "read") => ReadOk(q))
        BY <4>1, <4>2 DEF Did
      <4>4. ReadOk(q) /\ q.result.room = q.id /\ q.result.used = DOMAIN q.read
        BY <4>3 DEF ScoredOk
      <4>5. q.eid # Absent
        BY <3>3, AbsentIsNoRow
      <4>6. q.eid \in DOMAIN q.read
        BY <4>4, <4>5 DEF ReadOk
      <4>7. q.result \in analyses'
        BY <1>4, <4>1
      <4> QED
        BY <3>1, <4>4, <4>6, <4>7
    <3> HIDE DEF q
    <3> QED
      BY <3>2, <3>3, <3>4
  <2> QED
    BY <2>1, <2>2
<1> QED
  BY <1>1, <1>8, <1>11, <1>12 DEF IInv

------------------------------------------------------------------------------
LEMMA Start == IntelInit => IInv
<1> SUFFICES ASSUME IntelInit PROVE IInv
  OBVIOUS
<1>1. /\ clock = 0 /\ analyses = {}
      /\ rooms = [i \in Rooms |-> Absent] /\ evidence = [e \in EvidenceIds |-> Absent]
      /\ job = [j \in Jobs |-> Free]
  BY DEF IntelInit
<1>2. 0 \in 0..MaxClock
  BY ClockBounds
<1>3. IntelTypeOK
  BY <1>1, <1>2 DEF IntelTypeOK
<1>4. JobsInv
  BY <1>1 DEF JobsInv, Working
<1>5. ScenarioWhole
  BY <1>1 DEF ScenarioWhole
<1> QED
  BY <1>1, <1>3, <1>4, <1>5 DEF IInv

LEMMA BeginsStep ==
    ASSUME IInv, NEW j \in Jobs, NEW id \in Rooms,
           \/ \E type \in Types, severity \in Severities :
                 Begin(j, "incident", id, [type |-> type, severity |-> severity])
           \/ \E category \in Categories : Begin(j, "evidence", id, [category |-> category])
           \/ \E p \in Providers :
                 Begin(j, "evidence", id, [category |-> PROVIDER_TO_SOURCE_CATEGORY[p]])
           \/ \E kind \in Scenarios \cup {"analyze"} : Begin(j, kind, id, Absent)
    PROVE  IInv'
<1>1. ASSUME NEW type \in Types, NEW severity \in Severities,
             Begin(j, "incident", id, [type |-> type, severity |-> severity])
      PROVE  IInv'
  <2> DEFINE about == [type |-> type, severity |-> severity]
  <2>1. about \in [type : IncidentType, severity : IncidentSeverity]
    BY UserInput
  <2> HIDE DEF about
  <2>2. about \in About /\ "incident" \in DOMAIN Program
    BY <2>1, Kinds DEF About
  <2>3. Begin(j, "incident", id, about)
    BY <1>1 DEF about
  <2> QED
    BY <2>1, <2>2, <2>3, BeginStep
<1>2. ASSUME NEW category \in EvidenceSourceCategory,
             Begin(j, "evidence", id, [category |-> category])
      PROVE  IInv'
  <2> DEFINE about == [category |-> category]
  <2>1. about \in [category : EvidenceSourceCategory]
    OBVIOUS
  <2> HIDE DEF about
  <2>2. about \in About /\ "evidence" \in DOMAIN Program
    BY <2>1, Kinds DEF About
  <2>3. Begin(j, "evidence", id, about)
    BY <1>2 DEF about
  <2> QED
    BY <2>1, <2>2, <2>3, BeginStep
<1>3. ASSUME NEW kind \in Scenarios \cup {"analyze"}, Begin(j, kind, id, Absent)
      PROVE  IInv'
  <2>1. kind \in DOMAIN Program /\ kind # "incident" /\ kind # "evidence" /\ Absent \in About
    BY Kinds DEF Scenarios, About
  <2> QED
    BY <1>3, <2>1, BeginStep
<1>4. Categories \subseteq EvidenceSourceCategory
  BY UserInput
<1>5. \A p \in Providers : PROVIDER_TO_SOURCE_CATEGORY[p] \in EvidenceSourceCategory
  BY UserInput DEF PROVIDER_TO_SOURCE_CATEGORY, EvidenceSourceCategory
<1> QED
  BY <1>1, <1>2, <1>3, <1>4, <1>5

LEMMA NextStep == IInv /\ [IntelNext]_intelVars => IInv'
<1> SUFFICES ASSUME IInv, [IntelNext]_intelVars PROVE IInv'
  OBVIOUS
<1>1. CASE UNCHANGED intelVars
  <2>1. UNCHANGED <<clock, rooms, evidence, analyses, job>>
    BY <1>1 DEF intelVars
  <2>2. IntelTypeOK'
    BY <2>1 DEF IInv, IntelTypeOK
  <2>3. JobsInv'
    BY <2>1, SameTables DEF IInv, JobsInv, Working, Apart
  <2>4. \A a \in analyses' : AnalysisOk(a)'
    BY <2>1, SameTables DEF IInv
  <2>5. ScenarioWhole'
    BY <2>1 DEF IInv, ScenarioWhole
  <2> QED
    BY <2>2, <2>3, <2>4, <2>5 DEF IInv
<1>2. ASSUME NEW d \in Ticks, Passes(d) PROVE IInv'
  BY <1>2, PassesStep
<1>3. ASSUME NEW j \in Jobs,
             CreateIncident(j) \/ CreateEvidence(j) \/ Proceed(j) \/ TakeClock(j)
      PROVE  IInv'
  BY <1>3, CreateIncidentStep, CreateEvidenceStep, ProceedStep, TakeClockStep
<1>4. ASSUME NEW j \in Jobs, ReadEvidence(j) \/ CreateAnalysis(j) PROVE IInv'
  BY <1>4, ReadEvidenceStep, CreateAnalysisStep
<1>5. ASSUME NEW j \in Jobs, Undo(j) \/ FailAnalysis(j) \/ Commit(j) PROVE IInv'
  BY <1>5, UndoStep, FailAnalysisStep, CommitStep
<1> QED
  BY <1>1, <1>2, <1>3, <1>4, <1>5, BeginsStep DEF IntelNext

LEMMA Invariant == IntelSpec => []IInv
<1> QED
  BY Start, NextStep, PTL DEF IntelSpec

------------------------------------------------------------------------------
\* Every row, every open transaction and every stored breakdown is well formed:
\* a stored dimension is a percentage, whatever the clock and the evidence.
THEOREM IntelTypes == IntelSpec => []IntelTypeOK
<1>1. IInv => IntelTypeOK
  BY DEF IInv
<1> QED
  BY <1>1, Invariant, PTL

\* However late it is listed, an analysis shows the numbers it stored, but for
\* the freshness that one request's time costs: the evidence it used is frozen
\* when it commits, and the clock analyze took is at most one timeout before the
\* createdAt that list scores it at.
THEOREM ScoresStandAgain == IntelSpec => []ScoresStand
  BY Invariant, InvScoresStand, PTL

\* A scenario is seen whole or not at all, wherever it failed and whatever it caught.
THEOREM ScenariosWhole == IntelSpec => []ScenarioWhole
<1>1. IInv => ScenarioWhole
  BY DEF IInv
<1> QED
  BY <1>1, Invariant, PTL

------------------------------------------------------------------------------
\* A mean lies between its bounds, also when it is rounded.
LEMMA RoundWithin ==
    ASSUME NEW n \in Int, NEW d \in Nat \ {0}, NEW a \in Int, NEW b \in Int,
           a * d <= n, n <= b * d
    PROVE  Round(n, d) \in a..b
<1> DEFINE r == (2 * n + d) \div (2 * d)
<1>1. 2 * d \in Nat \ {0} /\ 2 * n + d \in Int
  OBVIOUS
<1>2. r \in Int /\ (2 * d) * r <= 2 * n + d /\ 2 * n + d < (2 * d) * (r + 1)
  BY <1>1
<1> HIDE DEF r
<1>3. a <= r
  <2> SUFFICES ASSUME r + 1 <= a PROVE FALSE
    BY <1>2
  <2>1. (2 * d) * (r + 1) <= (2 * d) * a
    BY <1>2
  <2>2. (2 * d) * a = 2 * (a * d)
    OBVIOUS
  <2> DEFINE x == (2 * d) * (r + 1)
             y == (2 * d) * a
             ad == a * d
  <2>3. x \in Int /\ y \in Int /\ ad \in Int /\ x <= y /\ y = 2 * ad /\ 2 * n + d < x /\ ad <= n
    BY <1>2, <2>1, <2>2
  <2> HIDE DEF x, y, ad
  <2> QED
    BY <2>3
<1>4. r <= b
  <2> SUFFICES ASSUME b + 1 <= r PROVE FALSE
    BY <1>2
  <2>1. (2 * d) * (b + 1) <= (2 * d) * r
    BY <1>2
  <2>2. (2 * d) * (b + 1) = 2 * (b * d) + 2 * d
    OBVIOUS
  <2> DEFINE x == (2 * d) * (b + 1)
             y == (2 * d) * r
             bd == b * d
  <2>3. x \in Int /\ y \in Int /\ bd \in Int /\ x <= y /\ x = 2 * bd + 2 * d /\ y <= 2 * n + d
        /\ n <= bd
    BY <1>2, <2>1, <2>2
  <2> HIDE DEF x, y, bd
  <2> QED
    BY <2>3
<1> QED
  BY <1>2, <1>3, <1>4 DEF Round, r

\* The rows of evidence of the categories C.
Within(C, rows) == {e \in DOMAIN rows : rows[e].category \in C}

LEMMA RowsAreFinite ==
    ASSUME NEW rows \in EvidenceRows, NEW C
    PROVE  /\ IsFiniteSet(DOMAIN rows) /\ IsFiniteSet(Within(C, rows))
           /\ Cardinality(Within(C, rows)) \in Nat
           /\ \A e \in DOMAIN rows : rows[e] \in EvidenceRow
<1>1. DOMAIN rows \subseteq EvidenceIds /\ \A e \in DOMAIN rows : rows[e] \in EvidenceRow
  BY DEF EvidenceRows
<1>2. IsFiniteSet(DOMAIN rows)
  BY <1>1, EvidenceIsFinite, FS_Subset
<1>3. IsFiniteSet(Within(C, rows))
  BY <1>2, FS_Subset DEF Within
<1> QED
  BY <1>1, <1>2, <1>3, FS_CardinalityType

\* One more category adds its rows.
LEMMA OneMore ==
    ASSUME NEW rows \in EvidenceRows, NEW C, NEW c, c \notin C
    PROVE  /\ CountOf(c, rows) \in Nat
           /\ Cardinality(Within(C \cup {c}, rows)) = Cardinality(Within(C, rows)) + CountOf(c, rows)
<1>1. /\ IsFiniteSet(Within(C, rows)) /\ IsFiniteSet(Within({c}, rows))
      /\ Cardinality(Within(C, rows)) \in Nat /\ Cardinality(Within({c}, rows)) \in Nat
  BY RowsAreFinite
<1>2. Within(C \cup {c}, rows) = Within(C, rows) \cup Within({c}, rows)
      /\ Within(C, rows) \cap Within({c}, rows) = {}
  BY DEF Within
<1>3. CountOf(c, rows) = Cardinality(Within({c}, rows))
  <2>1. {e \in DOMAIN rows : rows[e].category = c} = Within({c}, rows)
    BY DEF Within
  <2> QED
    BY <2>1 DEF CountOf
<1>4. Cardinality(Within(C, rows) \cup Within({c}, rows)) =
         Cardinality(Within(C, rows)) + Cardinality(Within({c}, rows)) - Cardinality({})
  BY <1>1, <1>2, FS_Union
<1>5. Cardinality({}) = 0
  BY FS_EmptySet
<1> DEFINE x == Cardinality(Within(C, rows))
           y == Cardinality(Within({c}, rows))
<1>6. x \in Nat /\ y \in Nat /\ Cardinality(Within(C \cup {c}, rows)) = x + y - 0
      /\ CountOf(c, rows) = y
  BY <1>1, <1>2, <1>3, <1>4, <1>5
<1> HIDE DEF x, y
<1>7. CountOf(c, rows) \in Nat /\ Cardinality(Within(C \cup {c}, rows)) = x + y
  BY <1>6
<1> QED
  BY <1>6, <1>7 DEF x

\* All rows are counted by their categories.
LEMMA CountByCategory ==
    ASSUME NEW rows \in EvidenceRows
    PROVE  /\ Count(rows) \in Nat /\ (DOMAIN rows # {} => Count(rows) > 0)
           /\ \A c : CountOf(c, rows) \in Nat
           /\ Count(rows) = CountOf("CLOUD_PROVIDER", rows) + CountOf("MONITORING", rows)
                            + CountOf("LOG_AGGREGATOR", rows) + CountOf("TICKETING", rows)
                            + CountOf("HUMAN", rows) + CountOf("CHAT", rows) + CountOf("OTHER", rows)
<1> DEFINE N(C) == Cardinality(Within(C, rows))
           n(c) == CountOf(c, rows)
<1>1. ASSUME NEW c PROVE n(c) \in Nat
  <2>1. c \notin {}
    OBVIOUS
  <2> QED
    BY <2>1, OneMore
<1>2. N({}) = 0
  <2>1. Within({}, rows) = {}
    BY DEF Within
  <2> QED
    BY <2>1, FS_EmptySet
<1>3. \A C, c : c \notin C => N(C \cup {c}) = N(C) + n(c)
  BY OneMore
<1>4. \A C : N(C) \in Nat
  BY RowsAreFinite
<1>5. Count(rows) = N(EvidenceSourceCategory)
  <2>1. DOMAIN rows = Within(EvidenceSourceCategory, rows)
    BY RowsAreFinite DEF Within, EvidenceRow
  <2> QED
    BY <2>1 DEF Count
<1>6. DOMAIN rows # {} => Count(rows) > 0
  BY RowsAreFinite, FS_EmptySet, FS_CardinalityType DEF Count
<1> HIDE DEF N, n
<1>7. N({"CLOUD_PROVIDER"}) = n("CLOUD_PROVIDER")
  <2>1. N({} \cup {"CLOUD_PROVIDER"}) = N({}) + n("CLOUD_PROVIDER")
    BY <1>3
  <2>2. {} \cup {"CLOUD_PROVIDER"} = {"CLOUD_PROVIDER"}
    OBVIOUS
  <2> QED
    BY <1>1, <1>2, <2>1, <2>2
<1>8. N({"CLOUD_PROVIDER", "MONITORING"}) = n("CLOUD_PROVIDER") + n("MONITORING")
  <2>1. {"CLOUD_PROVIDER"} \cup {"MONITORING"} = {"CLOUD_PROVIDER", "MONITORING"}
    OBVIOUS
  <2> QED
    BY <1>3, <1>7, <2>1
<1>9. N({"CLOUD_PROVIDER", "MONITORING", "LOG_AGGREGATOR"}) =
         n("CLOUD_PROVIDER") + n("MONITORING") + n("LOG_AGGREGATOR")
  <2>1. {"CLOUD_PROVIDER", "MONITORING"} \cup {"LOG_AGGREGATOR"} =
           {"CLOUD_PROVIDER", "MONITORING", "LOG_AGGREGATOR"}
    OBVIOUS
  <2> QED
    BY <1>3, <1>8, <2>1
<1>10. N({"CLOUD_PROVIDER", "MONITORING", "LOG_AGGREGATOR", "TICKETING"}) =
         n("CLOUD_PROVIDER") + n("MONITORING") + n("LOG_AGGREGATOR") + n("TICKETING")
  <2>1. {"CLOUD_PROVIDER", "MONITORING", "LOG_AGGREGATOR"} \cup {"TICKETING"} =
           {"CLOUD_PROVIDER", "MONITORING", "LOG_AGGREGATOR", "TICKETING"}
    OBVIOUS
  <2> QED
    BY <1>3, <1>9, <2>1
<1>11. N({"CLOUD_PROVIDER", "MONITORING", "LOG_AGGREGATOR", "TICKETING", "HUMAN"}) =
         n("CLOUD_PROVIDER") + n("MONITORING") + n("LOG_AGGREGATOR") + n("TICKETING") + n("HUMAN")
  <2>1. {"CLOUD_PROVIDER", "MONITORING", "LOG_AGGREGATOR", "TICKETING"} \cup {"HUMAN"} =
           {"CLOUD_PROVIDER", "MONITORING", "LOG_AGGREGATOR", "TICKETING", "HUMAN"}
    OBVIOUS
  <2> QED
    BY <1>3, <1>10, <2>1
<1>12. N({"CLOUD_PROVIDER", "MONITORING", "LOG_AGGREGATOR", "TICKETING", "HUMAN", "CHAT"}) =
         n("CLOUD_PROVIDER") + n("MONITORING") + n("LOG_AGGREGATOR") + n("TICKETING") + n("HUMAN")
            + n("CHAT")
  <2>1. {"CLOUD_PROVIDER", "MONITORING", "LOG_AGGREGATOR", "TICKETING", "HUMAN"} \cup {"CHAT"} =
           {"CLOUD_PROVIDER", "MONITORING", "LOG_AGGREGATOR", "TICKETING", "HUMAN", "CHAT"}
    OBVIOUS
  <2> QED
    BY <1>3, <1>11, <2>1
<1>13. N(EvidenceSourceCategory) =
         n("CLOUD_PROVIDER") + n("MONITORING") + n("LOG_AGGREGATOR") + n("TICKETING") + n("HUMAN")
            + n("CHAT") + n("OTHER")
  <2>1. {"CLOUD_PROVIDER", "MONITORING", "LOG_AGGREGATOR", "TICKETING", "HUMAN", "CHAT"}
           \cup {"OTHER"} = EvidenceSourceCategory
    BY DEF EvidenceSourceCategory
  <2> QED
    BY <1>3, <1>12, <2>1
<1> QED
  BY <1>1, <1>4, <1>5, <1>6, <1>13 DEF n

LEMMA CategoriesAreFinite == IsFiniteSet(EvidenceSourceCategory)
<1>1. IsFiniteSet({})
  BY FS_EmptySet
<1>2. \A S, c : IsFiniteSet(S) => IsFiniteSet(S \cup {c})
  BY FS_AddElement
<1>3. IsFiniteSet({} \cup {"CLOUD_PROVIDER"} \cup {"MONITORING"} \cup {"LOG_AGGREGATOR"}
                     \cup {"TICKETING"} \cup {"HUMAN"} \cup {"CHAT"} \cup {"OTHER"})
  BY <1>1, <1>2
<1>4. {} \cup {"CLOUD_PROVIDER"} \cup {"MONITORING"} \cup {"LOG_AGGREGATOR"}
         \cup {"TICKETING"} \cup {"HUMAN"} \cup {"CHAT"} \cup {"OTHER"} = EvidenceSourceCategory
  BY DEF EvidenceSourceCategory
<1> QED
  BY <1>3, <1>4

\* EvidenceCompleteness: no more of the required sources are covered than there are.
LEMMA CompletenessWithin ==
    ASSUME NEW type \in IncidentType, NEW rows \in EvidenceRows
    PROVE  EvidenceCompleteness(type, rows) \in 0..100
<1> DEFINE required == REQUIRED_EVIDENCE_SOURCES[type]
           n == Cardinality(required)
           k == Cardinality(required \cap CategoriesOf(rows))
<1>1. required \subseteq EvidenceSourceCategory
  BY DEF REQUIRED_EVIDENCE_SOURCES, IncidentType, EvidenceSourceCategory
<1>2. IsFiniteSet(required)
  BY <1>1, CategoriesAreFinite, FS_Subset
<1>3. n \in Nat /\ k \in Nat /\ k <= n /\ (required # {} => n # 0)
  BY <1>2, FS_Subset, FS_CardinalityType, FS_EmptySet
<1>4. EvidenceCompleteness(type, rows) = IF required = {} THEN 100 ELSE Round(100 * k, n)
  BY DEF EvidenceCompleteness
<1> HIDE DEF required, n, k
<1>5. CASE required # {}
  <2> DEFINE low == 0
             high == 100
             points == 100 * k
  <2>1. /\ points \in Int /\ n \in Nat \ {0} /\ low \in Int /\ high \in Int
        /\ low * n <= points /\ points <= high * n
    BY <1>3, <1>5
  <2> HIDE DEF low, high, points
  <2>2. Round(points, n) \in low..high
    BY <2>1, RoundWithin
  <2> QED
    BY <1>4, <1>5, <2>2 DEF low, high, points
<1> QED
  BY <1>4, <1>5

\* SourceReliability: the mean of what lies between 40 and 95.
LEMMA ReliabilityWithin ==
    ASSUME NEW rows \in EvidenceRows
    PROVE  SourceReliability(rows) \in {0} \cup 40..95
<1> DEFINE of(category) == RELIABILITY_BY_SOURCE_CATEGORY[category] * CountOf(category, rows)
           sum == of("CLOUD_PROVIDER") + of("MONITORING") + of("LOG_AGGREGATOR")
                     + of("TICKETING") + of("HUMAN") + of("CHAT") + of("OTHER")
           a == CountOf("CLOUD_PROVIDER", rows)
           b == CountOf("MONITORING", rows)
           c == CountOf("LOG_AGGREGATOR", rows)
           d == CountOf("TICKETING", rows)
           e == CountOf("HUMAN", rows)
           f == CountOf("CHAT", rows)
           g == CountOf("OTHER", rows)
           n == Count(rows)
<1>1. sum = 95 * a + 90 * b + 85 * c + 70 * d + 60 * e + 40 * f + 50 * g
  BY DEF RELIABILITY_BY_SOURCE_CATEGORY, EvidenceSourceCategory
<1>2. /\ {a, b, c, d, e, f, g, n} \subseteq Nat /\ n = a + b + c + d + e + f + g
      /\ DOMAIN rows # {} => n > 0
  BY CountByCategory
<1>3. SourceReliability(rows) = IF DOMAIN rows = {} THEN 0 ELSE Round(sum, n)
  BY DEF SourceReliability
<1> HIDE DEF of, sum, a, b, c, d, e, f, g, n
<1>4. sum \in Int /\ 40 * n <= sum /\ sum <= 95 * n
  BY <1>1, <1>2
<1>5. ASSUME DOMAIN rows # {} PROVE Round(sum, n) \in 40..95
  <2> DEFINE low == 40
             high == 95
  <2>1. /\ n \in Nat \ {0} /\ low \in Int /\ high \in Int
        /\ low * n <= sum /\ sum <= high * n
    BY <1>2, <1>4, <1>5
  <2> HIDE DEF low, high
  <2>2. Round(sum, n) \in low..high
    BY <1>4, <2>1, RoundWithin
  <2> QED
    BY <2>2 DEF low, high
<1> QED
  BY <1>3, <1>5

\* AiCertainty: volume and diversity give at most 90, conflicts only take.
LEMMA CertaintyWithin ==
    ASSUME NEW rows \in EvidenceRows, NEW conflicts \in Nat
    PROVE  AiCertainty(rows, conflicts) \in 0..90
<1> DEFINE n == Count(rows)
           k == Cardinality(CategoriesOf(rows))
           v == AtMost(70, 15 * n)
           w == AtMost(20, 7 * k)
<1>1. n \in Nat
  BY CountByCategory
<1>2. k \in Nat
  <2>1. CategoriesOf(rows) \subseteq EvidenceSourceCategory
    BY RowsAreFinite DEF CategoriesOf, EvidenceRow
  <2> QED
    BY <2>1, CategoriesAreFinite, FS_Subset, FS_CardinalityType
<1>3. AiCertainty(rows, conflicts) = AtLeast0(AtMost(100, v + w - 15 * conflicts))
  BY DEF AiCertainty
<1> HIDE DEF n, k
<1>4. v \in 0..70 /\ w \in 0..20
  BY <1>1, <1>2 DEF AtMost
<1> HIDE DEF v, w
<1>5. AtLeast0(AtMost(100, v + w - 15 * conflicts)) \in 0..90
  BY <1>4 DEF AtLeast0, AtMost
<1> QED
  BY <1>3, <1>5

\* DataFreshness: never negative, and over 100 only for a row stamped after `at`.
LEMMA FreshnessWithin ==
    ASSUME NEW severity \in IncidentSeverity, NEW rows \in EvidenceRows, NEW at \in 0..MaxClock,
           \A e \in DOMAIN rows : rows[e].at <= at
    PROVE  DataFreshness(severity, rows, at) \in 0..100
<1> DEFINE f == FRESHNESS_DEGRADATION_FACTOR[severity]
           latest == CHOOSE t \in {rows[e].at : e \in DOMAIN rows} :
                       \A e \in DOMAIN rows : rows[e].at <= t
           x == 60000 - (at - latest) * f
<1>1. MaxClock \in Nat /\ at \in Nat /\ f \in {50, 20, 10, 3}
  BY ClockBounds DEF FRESHNESS_DEGRADATION_FACTOR, IncidentSeverity
<1>2. CASE DOMAIN rows = {}
  BY <1>2 DEF DataFreshness
<1>3. CASE DOMAIN rows # {}
  <2>1. latest \in Int /\ latest <= at
    <3> DEFINE T == {rows[e].at : e \in DOMAIN rows}
    <3>1. \A e \in DOMAIN rows : rows[e].at \in 0..MaxClock
      BY RowsAreFinite DEF EvidenceRow
    <3>2. T \in SUBSET (0..MaxClock) /\ T # {}
      BY <1>3, <3>1
    <3>3. \E t \in T : \A u \in T : u <= t
      <4> HIDE DEF T
      <4> QED
        BY <3>2, LatestExists
    <3>4. \E t \in T : \A e \in DOMAIN rows : rows[e].at <= t
      BY <3>3
    <3>5. latest \in T
      BY <3>4
    <3> HIDE DEF latest
    <3>6. PICK e \in DOMAIN rows : latest = rows[e].at
      BY <3>5
    <3> QED
      BY <1>1, <3>1, <3>6
  <2>2. DataFreshness(severity, rows, at) = AtLeast0(Round(x, 600))
    BY <1>3 DEF DataFreshness
  <2>3. x \in Int /\ x <= 60000
    <3> HIDE DEF latest, f
    <3>1. CASE f = 50
      BY <1>1, <2>1, <3>1
    <3>2. CASE f = 20
      BY <1>1, <2>1, <3>2
    <3>3. CASE f = 10
      BY <1>1, <2>1, <3>3
    <3>4. CASE f = 3
      BY <1>1, <2>1, <3>4
    <3> QED
      BY <1>1, <3>1, <3>2, <3>3, <3>4
  <2> HIDE DEF x
  <2>4. AtLeast0(Round(x, 600)) \in 0..100
    <3> DEFINE u == (2 * x + 600) \div 1200
    <3>1. u \in Int /\ 1200 * u <= 2 * x + 600 /\ Round(x, 600) = u
      BY <2>3 DEF Round
    <3> HIDE DEF u
    <3> QED
      BY <2>3, <3>1 DEF AtLeast0
  <2> QED
    BY <2>2, <2>4
<1> QED
  BY <1>2, <1>3

\* So a breakdown meets the contract, unless a row is stamped after its time.
THEOREM ContractMet ==
    ASSUME NEW room \in Room, NEW rows \in EvidenceRows, NEW conflicts \in Nat,
           NEW at \in 0..MaxClock, \A e \in DOMAIN rows : rows[e].at <= at
    PROVE  /\ ConfidenceBreakdown(room, rows, conflicts, at) \in Scores
           /\ ValidContract(ConfidenceBreakdown(room, rows, conflicts, at))
<1>1. room.type \in IncidentType /\ room.severity \in IncidentSeverity
  BY DEF Room
<1>2. /\ EvidenceCompleteness(room.type, rows) \in 0..100
      /\ SourceReliability(rows) \in 0..100
      /\ DataFreshness(room.severity, rows, at) \in 0..100
      /\ AiCertainty(rows, conflicts) \in 0..100
  BY <1>1, CompletenessWithin, ReliabilityWithin, FreshnessWithin, CertaintyWithin
<1> QED
  BY <1>2 DEF ConfidenceBreakdown, Scores, ValidContract

------------------------------------------------------------------------------
\* What an open transaction stamps, it stamps between its start and now.
Stamped(q) ==
    /\ q.asOf <= clock
    /\ q.room # Absent /\ q.kind \in Scenarios =>
          /\ q.room.type = ScenarioRoom[q.kind].type
          /\ q.room.severity = ScenarioRoom[q.kind].severity
    /\ q.eid # Absent => /\ q.kind \in {"evidence"} \cup Scenarios
                         /\ q.since <= q.row.at /\ q.row.at <= clock
    /\ q.result # Absent =>
          /\ q.kind \in {"analyze", "CLOUD_OUTAGE_PARTIAL_EVIDENCE"}
          /\ q.kind = "analyze" => q.result.conflicts \in Conflicts
          /\ q.kind # "analyze" => q.result.conflicts = 0
          /\ q.since <= q.result.at /\ q.result.at <= clock

\* What it read is evidence of its incident: of a scenario its own at most, and
\* all that was added more than a transaction before its clock.
ReadAll(q) ==
    /\ \A e \in DOMAIN q.read : q.read[e].room = q.id
    /\ q.kind \in Scenarios => DOMAIN q.read \subseteq {q.eid}
    /\ \A e \in EvidenceIds :
          evidence[e] # Absent /\ evidence[e].room = q.id /\ evidence[e].at + Timeout < q.asOf =>
             e \in DOMAIN q.read

Informed(q) ==
    /\ Past(q, "read") => ReadAll(q)
    /\ Past(q, "clock") /\ q.kind \in Scenarios /\ q.eid # Absent => q.row.at <= q.asOf

\* Evidence is of an incident that exists.
Attached == \A e \in EvidenceIds : evidence[e] # Absent => rooms[evidence[e].room] # Absent

SInv ==
    /\ Attached
    /\ \A j \in Working : Stamped(job[j]) /\ (~job[j].poisoned => Informed(job[j]))

LEMMA SameStamps ==
    ASSUME UNCHANGED <<clock, rooms, evidence>>
    PROVE  /\ \A q : Stamped(q)' <=> Stamped(q)
           /\ \A q : Informed(q)' <=> Informed(q)
           /\ Attached' <=> Attached
<1>1. \A q : Stamped(q)' <=> Stamped(q)
  BY DEF Stamped
<1>2. \A q : Informed(q)' <=> Informed(q)
  <2>1. \A q : ReadAll(q)' <=> ReadAll(q)
    BY DEF ReadAll
  <2> QED
    BY <2>1 DEF Informed
<1>3. Attached' <=> Attached
  BY DEF Attached
<1> QED
  BY <1>1, <1>2, <1>3

\* One job changes, and no table does.
LEMMA StampsChange ==
    ASSUME IInv, SInv, NEW j \in Jobs, NEW x,
           job' = [job EXCEPT ![j] = x], UNCHANGED <<clock, rooms, evidence>>,
           x # Free => Stamped(x) /\ (~x.poisoned => Informed(x))
    PROVE  SInv'
<1>1. \A k \in Working' : /\ k = j => job'[k] = x /\ x # Free
                          /\ k # j => k \in Working /\ job'[k] = job[k]
  BY DEF IInv, IntelTypeOK, Working
<1>2. \A k \in Working' : Stamped(job'[k]) /\ (~job'[k].poisoned => Informed(job'[k]))
  BY <1>1 DEF SInv
<1>3. \A k \in Working' : \A q : q = job'[k] => Stamped(q)' /\ (~q.poisoned => Informed(q)')
  BY <1>2, SameStamps
<1>4. Attached'
  BY SameStamps DEF SInv
<1> QED
  BY <1>3, <1>4 DEF SInv

LEMMA BeginStamps ==
    ASSUME IInv, SInv, NEW j \in Jobs, NEW kind, NEW id, NEW about,
           Begin(j, kind, id, about)
    PROVE  SInv'
<1> DEFINE x == [kind |-> kind, id |-> id, about |-> about, done |-> 0, since |-> clock,
                 room |-> Absent, eid |-> Absent, row |-> Absent,
                 asOf |-> 0, read |-> Absent, result |-> Absent, poisoned |-> FALSE]
<1>1. job' = [job EXCEPT ![j] = x] /\ UNCHANGED <<clock, rooms, evidence>>
  BY DEF Begin
<1>2. /\ x.done = 0 /\ x.room = Absent /\ x.eid = Absent /\ x.result = Absent /\ x.asOf = 0
  OBVIOUS
<1> HIDE DEF x
<1>3. Stamped(x)
  <2>1. 0 <= clock
    BY ClockBounds DEF IInv, IntelTypeOK
  <2> QED
    BY <1>2, <2>1 DEF Stamped
<1>4. Informed(x)
  BY <1>2 DEF Informed, Past
<1> QED
  BY <1>1, <1>3, <1>4, StampsChange

\* A job does its next statement.
LEMMA StampsAtStep ==
    ASSUME IInv, SInv, NEW j \in Jobs, NEW step, NextIs(j, step)
    PROVE  Stamped(job[j]) /\ Informed(job[j])
<1>1. j \in Working /\ ~job[j].poisoned
  BY AtStep
<1> QED
  BY <1>1 DEF SInv

LEMMA CreateIncidentStamps ==
    ASSUME IInv, SInv, NEW j \in Jobs, CreateIncident(j)
    PROVE  SInv'
<1> DEFINE q == job[j]
           what == IF q.kind \in Scenarios THEN ScenarioRoom[q.kind] ELSE q.about
           room == [type |-> what.type, severity |-> what.severity, by |-> q.kind]
           x == [q EXCEPT !.room = room, !.done = q.done + 1]
<1>1. /\ NextIs(j, "incident") /\ job' = [job EXCEPT ![j] = x]
      /\ UNCHANGED <<clock, rooms, evidence>>
  BY DEF CreateIncident, Does
<1>2. /\ q \in Job /\ \A s : ~Past(q, s)
      /\ \A y : y.kind = q.kind /\ y.done = q.done + 1 => \A s : Past(y, s) => s = "incident"
  BY <1>1, AtStep
<1>3. Stamped(q)
  BY <1>1, StampsAtStep
<1>4. /\ x.kind = q.kind /\ x.done = q.done + 1 /\ x.room = room /\ x.asOf = q.asOf
      /\ x.eid = q.eid /\ x.row = q.row /\ x.since = q.since /\ x.result = q.result
  BY <1>2 DEF Job
<1>5. room.type = what.type /\ room.severity = what.severity
  OBVIOUS
<1>6. q.kind \in Scenarios => /\ room.type = ScenarioRoom[q.kind].type
                              /\ room.severity = ScenarioRoom[q.kind].severity
  BY <1>5
<1> HIDE DEF x, room, q
<1>7. Stamped(x)
  BY <1>3, <1>4, <1>6 DEF Stamped
<1>8. Informed(x)
  BY <1>2, <1>4 DEF Informed
<1> QED
  BY <1>1, <1>7, <1>8, StampsChange DEF q

LEMMA CreateEvidenceStamps ==
    ASSUME IInv, SInv, NEW j \in Jobs, CreateEvidence(j)
    PROVE  SInv'
<1>1. PICK e \in EvidenceIds :
        /\ NextIs(j, "evidence")
        /\ Does(j, [job[j] EXCEPT !.eid = e, !.row =
              [room |-> job[j].id, at |-> clock,
               category |-> IF job[j].kind \in Scenarios THEN ScenarioCategory[job[j].kind]
                            ELSE job[j].about.category]])
  BY DEF CreateEvidence
<1> DEFINE q == job[j]
           row == [room |-> q.id, at |-> clock,
                   category |-> IF q.kind \in Scenarios THEN ScenarioCategory[q.kind]
                                ELSE q.about.category]
           x == [q EXCEPT !.eid = e, !.row = row, !.done = q.done + 1]
<1>2. job' = [job EXCEPT ![j] = x] /\ UNCHANGED <<clock, rooms, evidence>>
  BY <1>1 DEF Does
<1>3. /\ q \in Job /\ JobOk(q) /\ q.kind \in {"evidence"} \cup Scenarios
      /\ \A s \in {"evidence", "clock", "read"} : ~Past(q, s)
      /\ \A y : y.kind = q.kind /\ y.done = q.done + 1 =>
            \A s : Past(y, s) => Past(q, s) \/ s = "evidence"
  BY <1>1, AtStep
<1>4. Stamped(q)
  BY <1>1, StampsAtStep
<1>5. row.at = clock /\ q.since <= clock /\ clock \in 0..MaxClock /\ MaxClock \in Nat
  BY <1>3, ClockBounds DEF JobOk, Timely, IInv, IntelTypeOK
<1> HIDE DEF row
<1>6. /\ x.kind = q.kind /\ x.done = q.done + 1 /\ x.room = q.room /\ x.asOf = q.asOf
      /\ x.row = row /\ x.since = q.since /\ x.result = q.result
  BY <1>3 DEF Job
<1> HIDE DEF x, q
<1>7. Stamped(x)
  <2>1. clock <= clock
    BY <1>5
  <2> QED
    BY <1>3, <1>4, <1>5, <1>6, <2>1 DEF Stamped
<1>8. Informed(x)
  <2>1. ~Past(x, "read") /\ ~Past(x, "clock")
    BY <1>3, <1>6
  <2> QED
    BY <2>1 DEF Informed
<1> QED
  BY <1>2, <1>7, <1>8, StampsChange DEF q

LEMMA ProceedStamps ==
    ASSUME IInv, SInv, NEW j \in Jobs, Proceed(j)
    PROVE  SInv'
<1>1. PICK step \in {"decisions", "configure", "trip"} : NextIs(j, step)
  BY DEF Proceed
<1> DEFINE q == job[j]
           x == [q EXCEPT !.done = q.done + 1]
<1>2. job' = [job EXCEPT ![j] = x] /\ UNCHANGED <<clock, rooms, evidence>>
  BY DEF Proceed, Does
<1>3. /\ q \in Job
      /\ \A y : y.kind = q.kind /\ y.done = q.done + 1 =>
            \A s : Past(y, s) => Past(q, s) \/ s = step
  BY <1>1, AtStep
<1>4. Stamped(q) /\ Informed(q)
  BY <1>1, StampsAtStep
<1>5. /\ x.kind = q.kind /\ x.done = q.done + 1 /\ x.id = q.id /\ x.room = q.room
      /\ x.asOf = q.asOf /\ x.eid = q.eid /\ x.row = q.row /\ x.since = q.since
      /\ x.read = q.read /\ x.result = q.result
  BY <1>3 DEF Job
<1> HIDE DEF x, q
<1>6. Stamped(x)
  BY <1>4, <1>5 DEF Stamped
<1>7. Informed(x)
  <2>1. (Past(x, "read") => Past(q, "read")) /\ (Past(x, "clock") => Past(q, "clock"))
    BY <1>1, <1>3, <1>5
  <2>2. ReadAll(q) => ReadAll(x)
    BY <1>5 DEF ReadAll
  <2> QED
    BY <1>4, <1>5, <2>1, <2>2 DEF Informed
<1> QED
  BY <1>2, <1>6, <1>7, StampsChange DEF q

LEMMA TakeClockStamps ==
    ASSUME IInv, SInv, NEW j \in Jobs, TakeClock(j)
    PROVE  SInv'
<1> DEFINE q == job[j]
           x == [q EXCEPT !.asOf = clock, !.done = q.done + 1]
<1>1. /\ NextIs(j, "clock") /\ job' = [job EXCEPT ![j] = x]
      /\ UNCHANGED <<clock, rooms, evidence>>
  BY DEF TakeClock, Does
<1>2. /\ q \in Job /\ ~Past(q, "read")
      /\ \A y : y.kind = q.kind /\ y.done = q.done + 1 =>
            \A s : Past(y, s) => Past(q, s) \/ s = "clock"
  BY <1>1, AtStep
<1>3. Stamped(q)
  BY <1>1, StampsAtStep
<1>4. /\ x.kind = q.kind /\ x.done = q.done + 1 /\ x.room = q.room
      /\ x.asOf = clock /\ x.eid = q.eid /\ x.row = q.row /\ x.since = q.since
      /\ x.result = q.result
  BY <1>2 DEF Job
<1>5. clock <= clock
  BY ClockBounds DEF IInv, IntelTypeOK
<1> HIDE DEF x, q
<1>6. Stamped(x)
  BY <1>3, <1>4, <1>5 DEF Stamped
<1>7. Informed(x)
  <2>1. ~Past(x, "read")
    BY <1>2, <1>4
  <2> QED
    BY <1>3, <1>4, <2>1 DEF Informed, Stamped
<1> QED
  BY <1>1, <1>6, <1>7, StampsChange DEF q

LEMMA ReadEvidenceStamps ==
    ASSUME IInv, SInv, NEW j \in Jobs, ReadEvidence(j)
    PROVE  SInv'
<1> DEFINE q == job[j]
           read == EvidenceSeen(j)
           x == [q EXCEPT !.read = read, !.done = q.done + 1]
<1>1. /\ NextIs(j, "read") /\ job' = [job EXCEPT ![j] = x]
      /\ UNCHANGED <<clock, rooms, evidence>>
  BY DEF ReadEvidence, Does
<1>2. /\ q \in Job /\ JobOk(q) /\ Past(q, "clock")
      /\ \A y : y.kind = q.kind /\ y.done = q.done + 1 =>
            \A s : Past(y, s) => Past(q, s) \/ s = "read"
  BY <1>1, AtStep
<1>3. Stamped(q) /\ Informed(q)
  BY <1>1, StampsAtStep
<1>4. /\ \A e \in DOMAIN read : read[e].room = q.id
      /\ q.kind \in Scenarios => DOMAIN read \subseteq {q.eid}
      /\ \A e \in EvidenceIds :
            evidence[e] # Absent /\ evidence[e].room = q.id => e \in DOMAIN read
  <2> DEFINE own == IF q.row = Absent THEN {} ELSE {q.eid}
             ids == own \cup {e \in EvidenceIds : evidence[e] # Absent /\ evidence[e].room = q.id}
  <2>1. read = [e \in ids |-> IF e \in own THEN q.row ELSE evidence[e]]
    BY DEF EvidenceSeen
  <2>2. q.row # Absent => q.row.room = q.id
    BY <1>2 DEF JobOk, Wrote
  <2>3. q.kind \in Scenarios => ids = own
    <3>1. q.kind \in Scenarios => rooms[q.id] = Absent
      BY <1>2 DEF JobOk, Placed, Creating
    <3> QED
      BY <3>1 DEF SInv, Attached
  <2> HIDE DEF read, q
  <2>4. DOMAIN read = ids
    BY <2>1
  <2>5. \A e \in ids : read[e].room = q.id
    BY <2>1, <2>2
  <2> QED
    BY <2>3, <2>4, <2>5
<1> HIDE DEF read
<1>5. /\ x.kind = q.kind /\ x.done = q.done + 1 /\ x.id = q.id /\ x.room = q.room
      /\ x.asOf = q.asOf /\ x.eid = q.eid /\ x.row = q.row /\ x.since = q.since
      /\ x.read = read /\ x.result = q.result
  BY <1>2 DEF Job
<1> HIDE DEF x, q
<1>6. Stamped(x)
  BY <1>3, <1>5 DEF Stamped
<1>7. Informed(x)
  <2>1. ReadAll(x)
    BY <1>4, <1>5 DEF ReadAll
  <2> QED
    BY <1>2, <1>3, <1>5, <2>1 DEF Informed
<1> QED
  BY <1>1, <1>6, <1>7, StampsChange DEF q

LEMMA CreateAnalysisStamps ==
    ASSUME IInv, SInv, NEW j \in Jobs, CreateAnalysis(j)
    PROVE  SInv'
<1>1. PICK c \in (IF job[j].kind = "analyze" THEN Conflicts ELSE {0}) :
        /\ NextIs(j, "analysis")
        /\ Does(j, [job[j] EXCEPT !.result =
              [room |-> job[j].id, used |-> DOMAIN job[j].read, conflicts |-> c,
               scores |-> ScoresOf(j, c), at |-> clock]])
  BY DEF CreateAnalysis
<1> DEFINE q == job[j]
           a == [room |-> q.id, used |-> DOMAIN q.read, conflicts |-> c,
                 scores |-> ScoresOf(j, c), at |-> clock]
           x == [q EXCEPT !.result = a, !.done = q.done + 1]
<1>2. job' = [job EXCEPT ![j] = x] /\ UNCHANGED <<clock, rooms, evidence>>
  BY <1>1 DEF Does
<1>3. /\ q \in Job /\ JobOk(q) /\ Past(q, "read") /\ Past(q, "clock")
      /\ q.done < Len(Program[q.kind]) /\ Program[q.kind][q.done + 1] = "analysis"
      /\ \A y : y.kind = q.kind /\ y.done = q.done + 1 =>
            \A s : Past(y, s) => Past(q, s) \/ s = "analysis"
  BY <1>1, AtStep DEF NextIs, Steps
<1>4. Stamped(q) /\ Informed(q)
  BY <1>1, StampsAtStep
<1>5. a.at = clock /\ a.conflicts = c /\ q.since <= clock /\ clock <= clock
  BY <1>3, ClockBounds DEF JobOk, Timely, IInv, IntelTypeOK
<1>6. q.kind \in {"analyze", "CLOUD_OUTAGE_PARTIAL_EVIDENCE"}
  <2> DEFINE k == q.kind
             n == q.done
  <2>1. k \in DOMAIN Program /\ n \in 0..7
    BY <1>3 DEF Job
  <2>2. n < Len(Program[k]) /\ Program[k][n + 1] = "analysis"
    BY <1>3
  <2> HIDE DEF q, k, n
  <2>3. k # "incident" /\ k # "evidence"
    <3>1. k \in {"incident", "evidence"} => Program[k] = <<k>>
      BY DEF Program
    <3> QED
      BY <2>1, <2>2, <3>1
  <2>4. k # "CYBER_RANSOMWARE"
    <3>1. ASSUME k = "CYBER_RANSOMWARE"
          PROVE  /\ Len(Program[k]) = 3 /\ Program[k][1] = "incident"
                 /\ Program[k][2] = "evidence" /\ Program[k][3] = "decisions"
      BY <3>1 DEF Program
    <3>2. ASSUME k = "CYBER_RANSOMWARE" PROVE n \in {0, 1, 2}
      BY <2>1, <2>2, <3>1, <3>2
    <3> QED
      BY <2>2, <3>1, <3>2
  <2> QED
    BY <2>1, <2>3, <2>4, Kinds DEF Scenarios, k
<1> HIDE DEF a
<1>7. /\ x.kind = q.kind /\ x.done = q.done + 1 /\ x.id = q.id /\ x.room = q.room
      /\ x.asOf = q.asOf /\ x.eid = q.eid /\ x.row = q.row /\ x.since = q.since
      /\ x.read = q.read /\ x.result = a
  BY <1>3 DEF Job
<1>8. (q.kind = "analyze" => c \in Conflicts) /\ (q.kind # "analyze" => c = 0)
  BY <1>1
<1> HIDE DEF x, q
<1>9. Stamped(x)
  BY <1>4, <1>5, <1>6, <1>7, <1>8 DEF Stamped
<1>10. Informed(x)
  <2>1. (Past(x, "read") => Past(q, "read")) /\ (Past(x, "clock") => Past(q, "clock"))
    BY <1>3, <1>7
  <2>2. ReadAll(q) => ReadAll(x)
    BY <1>7 DEF ReadAll
  <2> QED
    BY <1>4, <1>7, <2>1, <2>2 DEF Informed
<1> QED
  BY <1>2, <1>9, <1>10, StampsChange DEF q

LEMMA UndoStamps ==
    ASSUME IInv, SInv, NEW j \in Jobs, Undo(j)
    PROVE  SInv'
  BY StampsChange DEF Undo

LEMMA FailAnalysisStamps ==
    ASSUME IInv, SInv, NEW j \in Jobs, FailAnalysis(j)
    PROVE  SInv'
<1> DEFINE q == job[j]
           x == [q EXCEPT !.done = Len(Steps(j)), !.poisoned = TRUE]
<1>1. q \in Job /\ Stamped(q)
  BY AtStep, StampsAtStep DEF FailAnalysis
<1>2. job' = [job EXCEPT ![j] = x] /\ UNCHANGED <<clock, rooms, evidence>>
  BY DEF FailAnalysis
<1>3. /\ x.kind = q.kind /\ x.room = q.room /\ x.asOf = q.asOf /\ x.eid = q.eid
      /\ x.row = q.row /\ x.since = q.since /\ x.result = q.result /\ x.poisoned
  BY <1>1 DEF Job
<1> HIDE DEF x, q
<1>4. Stamped(x)
  BY <1>1, <1>3 DEF Stamped
<1> QED
  BY <1>2, <1>3, <1>4, StampsChange DEF q

LEMMA PassesStamps ==
    ASSUME IInv, SInv, NEW d \in Ticks, Passes(d)
    PROVE  SInv'
<1>1. /\ clock \in 0..MaxClock /\ MaxClock \in Nat /\ clock' = clock + d /\ d \in Nat
      /\ UNCHANGED <<rooms, evidence, job>>
  BY ClockBounds DEF IInv, IntelTypeOK, Passes
<1>2. clock <= clock' /\ Working' = Working /\ clock' \in Int
  BY <1>1 DEF Working
<1>3. \A j \in Working : \A q : q = job[j] => Stamped(q)' /\ (~q.poisoned => Informed(q)')
  <2> SUFFICES ASSUME NEW j \in Working, NEW q, q = job[j]
               PROVE  Stamped(q)' /\ (~q.poisoned => Informed(q)')
    OBVIOUS
  <2>1. q \in Job /\ JobOk(q) /\ Stamped(q) /\ (~q.poisoned => Informed(q))
    BY OpenJob DEF SInv
  <2>2. q.asOf \in Int /\ (q.row # Absent => q.row.at \in Int)
        /\ (q.result # Absent => q.result.at \in Int)
    BY <2>1, <1>1 DEF Job, EvidenceRow, Analysis
  <2>3. q.eid # Absent => q.row # Absent
    BY <2>1 DEF JobOk, Wrote
  <2>4. \A t \in Int : t <= clock => t <= clock'
    BY <1>1, <1>2
  <2>5. Stamped(q)'
    BY <1>1, <2>1, <2>2, <2>3, <2>4 DEF Stamped
  <2>6. Informed(q)' <=> Informed(q)
    <3>1. ReadAll(q)' <=> ReadAll(q)
      BY <1>1 DEF ReadAll
    <3> QED
      BY <3>1 DEF Informed
  <2> QED
    BY <2>1, <2>5, <2>6
<1>4. Attached'
  BY <1>1 DEF SInv, Attached
<1> QED
  BY <1>1, <1>2, <1>3, <1>4 DEF SInv

LEMMA CommitStamps ==
    ASSUME IInv, SInv, NEW j \in Jobs, Commit(j)
    PROVE  SInv'
<1> DEFINE q == job[j]
<1>1. /\ j \in Working /\ q \in Job /\ JobOk(q) /\ rooms'[q.id] # Absent
      /\ q.eid # Absent => evidence'[q.eid] = q.row
  BY AtCommit
<1>2. /\ \A i \in Rooms : rooms[i] # Absent => rooms'[i] = rooms[i]
      /\ \A e \in EvidenceIds : e # q.eid => evidence'[e] = evidence[e]
  BY AtCommit
<1>3. job' = [job EXCEPT ![j] = Free] /\ clock' = clock
  BY DEF Commit
<1>4. \A k \in Working' : k \in Working \ {j} /\ job'[k] = job[k]
  BY <1>3 DEF IInv, IntelTypeOK, Working
<1>5. Stamped(q)
  BY <1>1 DEF SInv
<1>6. q.eid # Absent => q.row # Absent /\ q.row.room = q.id
  BY <1>1 DEF JobOk, Wrote
<1>7. Attached'
  <2> SUFFICES ASSUME NEW e \in EvidenceIds, evidence'[e] # Absent
               PROVE  rooms'[evidence'[e].room] # Absent
    BY DEF Attached
  <2>1. CASE e = q.eid
    <3>1. e # Absent
      BY AbsentIsNoRow
    <3> QED
      BY <1>1, <1>6, <2>1, <3>1
  <2>2. CASE e # q.eid
    <3>1. evidence'[e] = evidence[e]
      BY <1>2, <2>2
    <3>2. evidence[e] \in EvidenceRow /\ rooms[evidence[e].room] # Absent
      BY <3>1 DEF SInv, Attached, IInv, IntelTypeOK
    <3>3. evidence[e].room \in Rooms
      BY <3>2 DEF EvidenceRow
    <3> QED
      BY <1>2, <3>1, <3>2, <3>3
  <2> QED
    BY <2>1, <2>2
<1>8. \A k \in Working' : \A o : o = job[k] => Stamped(o)' /\ (~o.poisoned => Informed(o)')
  <2> SUFFICES ASSUME NEW k \in Working', NEW o, o = job[k]
               PROVE  Stamped(o)' /\ (~o.poisoned => Informed(o)')
    OBVIOUS
  <2>1. o \in Job /\ Stamped(o) /\ (~o.poisoned => Informed(o))
    BY <1>4, OpenJob DEF SInv
  <2>2. Stamped(o)'
    BY <1>3, <2>1 DEF Stamped
  <2>3. ReadAll(o) => ReadAll(o)'
    <3> SUFFICES ASSUME ReadAll(o), NEW e \in EvidenceIds, evidence'[e] # Absent,
                        evidence'[e].room = o.id, evidence'[e].at + Timeout < o.asOf
                 PROVE  e \in DOMAIN o.read
      BY DEF ReadAll
    <3>1. CASE e # q.eid
      BY <1>2, <3>1 DEF ReadAll
    <3>2. CASE e = q.eid
      <4>1. evidence'[e] = q.row /\ q.row # Absent /\ q.since <= q.row.at
        BY <1>1, <1>5, <1>6, <3>2, AbsentIsNoRow DEF Stamped
      <4>2. /\ q.since \in Int /\ q.row.at \in Int /\ o.asOf \in Int
            /\ clock \in Int /\ Timeout \in Int
        <5>1. q.row \in EvidenceRow
          BY <1>1, <4>1 DEF Job
        <5> QED
          BY <1>1, <2>1, <5>1, ClockBounds DEF Job, EvidenceRow, IInv, IntelTypeOK
      <4>3. clock - q.since <= Timeout /\ o.asOf <= clock
        BY <1>1, <2>1 DEF JobOk, Timely, Stamped
      <4>4. ~(q.row.at + Timeout < o.asOf)
        BY <4>1, <4>2, <4>3
      <4> QED
        BY <4>1, <4>4
    <3> QED
      BY <3>1, <3>2
  <2>4. Informed(o) => Informed(o)'
    BY <2>3 DEF Informed
  <2> QED
    BY <2>1, <2>2, <2>4
<1> QED
  BY <1>4, <1>7, <1>8 DEF SInv

LEMMA StampsStart == IntelInit => SInv
  BY DEF IntelInit, SInv, Attached, Working

LEMMA StampsNext == IInv /\ SInv /\ [IntelNext]_intelVars => SInv'
<1> SUFFICES ASSUME IInv, SInv, [IntelNext]_intelVars PROVE SInv'
  OBVIOUS
<1>1. CASE UNCHANGED intelVars
  <2>1. UNCHANGED <<clock, rooms, evidence, job>>
    BY <1>1 DEF intelVars
  <2> QED
    BY <2>1, SameStamps DEF SInv, Working
<1>2. ASSUME NEW d \in Ticks, Passes(d) PROVE SInv'
  BY <1>2, PassesStamps
<1>3. ASSUME NEW j \in Jobs, NEW kind, NEW id, NEW about, Begin(j, kind, id, about) PROVE SInv'
  BY <1>3, BeginStamps
<1>4. ASSUME NEW j \in Jobs,
             CreateIncident(j) \/ CreateEvidence(j) \/ Proceed(j) \/ TakeClock(j)
      PROVE  SInv'
  BY <1>4, CreateIncidentStamps, CreateEvidenceStamps, ProceedStamps, TakeClockStamps
<1>5. ASSUME NEW j \in Jobs, ReadEvidence(j) \/ CreateAnalysis(j) PROVE SInv'
  BY <1>5, ReadEvidenceStamps, CreateAnalysisStamps
<1>6. ASSUME NEW j \in Jobs, Undo(j) \/ FailAnalysis(j) \/ Commit(j) PROVE SInv'
  BY <1>6, UndoStamps, FailAnalysisStamps, CommitStamps
<1> QED
  BY <1>1, <1>2, <1>3, <1>4, <1>5, <1>6 DEF IntelNext

LEMMA StampsInvariant == IntelSpec => [](IInv /\ SInv)
<1> QED
  BY Start, NextStep, StampsStart, StampsNext, PTL DEF IntelSpec

\* The scores meet the contract unless a row the engine read is later than its clock.
LEMMA InvContract ==
    ASSUME IInv, SInv PROVE ScoresMeetContract
<1> SUFFICES ASSUME NEW j \in Working, NextIs(j, "analysis")
             PROVE  LET late == \E e \in DOMAIN job[j].read : job[j].read[e].at > job[j].asOf
                    IN  /\ \A c \in Conflicts \cup {0} : late \/ ValidContract(ScoresOf(j, c))
                        /\ job[j].kind \in Scenarios => ~late
  BY DEF ScoresMeetContract
<1> DEFINE q == job[j]
<1>1. /\ q \in Job /\ JobOk(q) /\ Did(q) /\ Past(q, "clock") /\ Past(q, "read")
      /\ Stamped(q) /\ Informed(q)
  BY AtStep, StampsAtStep DEF Working
<1>2. /\ ReadOk(q) /\ q.read \in EvidenceRows /\ q.asOf \in 0..MaxClock /\ MaxClock \in Nat
  BY <1>1, ClockBounds DEF Did, ReadOk, Job
<1>3. \A e \in DOMAIN q.read : q.read[e] \in EvidenceRow /\ q.read[e].at \in 0..MaxClock
  BY <1>2, RowsAreFinite DEF EvidenceRow
<1>4. Seen(q) \in Room
  <2>1. q.room # Absent \/ rooms[q.id] # Absent
    <3>1. \A k \in Creating : Program[k][1] = "incident"
      BY DEF Creating, Scenarios, Program
    <3>2. 1 \in 1..q.done
      BY <1>1 DEF Past, Job
    <3>3. q.kind \in Creating => Past(q, "incident")
      BY <3>1, <3>2 DEF Past
    <3> QED
      BY <1>1, <3>3 DEF JobOk, Placed, Did
  <2>2. q.room \in Room \cup {Absent} /\ rooms[q.id] \in Room \cup {Absent}
    BY <1>1 DEF Job, IInv, IntelTypeOK
  <2> HIDE DEF q
  <2> QED
    BY <2>1, <2>2 DEF Seen
<1>5. ASSUME NEW c \in Conflicts \cup {0}, \A e \in DOMAIN q.read : ~(q.read[e].at > q.asOf)
      PROVE  ValidContract(ScoresOf(j, c))
  <2>1. c \in Nat
    BY ConflictCounts
  <2>2. \A e \in DOMAIN q.read : q.read[e].at <= q.asOf
    BY <1>2, <1>3, <1>5
  <2>3. ScoresOf(j, c) = ConfidenceBreakdown(Seen(q), q.read, c, q.asOf)
    BY DEF ScoresOf, RoomSeen, Seen
  <2> HIDE DEF q
  <2> QED
    BY <1>2, <1>4, <2>1, <2>2, <2>3, ContractMet
<1>6. ASSUME q.kind \in Scenarios, NEW e \in DOMAIN q.read PROVE ~(q.read[e].at > q.asOf)
  <2>1. e = q.eid
    BY <1>1, <1>6 DEF Informed, ReadAll
  <2>2. e \in EvidenceIds /\ e # Absent
    BY <1>2, AbsentIsNoRow DEF EvidenceRows
  <2>3. q.read[e] = q.row
    BY <1>1, <1>2, <2>1, <2>2 DEF ReadOk, JobOk, Wrote
  <2>4. q.row.at <= q.asOf
    BY <1>1, <1>6, <2>1, <2>2 DEF Informed
  <2> QED
    BY <1>2, <1>3, <2>3, <2>4
<1> HIDE DEF q
<1> QED
  BY <1>5, <1>6 DEF q

------------------------------------------------------------------------------
LEMMA SameTypes ==
    /\ Promised!IncidentType = IncidentType /\ Promised!IncidentSeverity = IncidentSeverity
    /\ Promised!EvidenceSourceCategory = EvidenceSourceCategory
  BY DEF Promised!IncidentType, IncidentType, Promised!IncidentSeverity, IncidentSeverity,
         Promised!EvidenceSourceCategory, EvidenceSourceCategory

LEMMA SameCount == \A S : Promised!Cardinality(S) = Cardinality(S)
  BY DEF Promised!Cardinality, Cardinality

LEMMA SamePoints ==
    /\ Promised!REQUIRED_EVIDENCE_SOURCES = REQUIRED_EVIDENCE_SOURCES
    /\ Promised!RELIABILITY_BY_SOURCE_CATEGORY = RELIABILITY_BY_SOURCE_CATEGORY
    /\ Promised!FRESHNESS_DEGRADATION_FACTOR = FRESHNESS_DEGRADATION_FACTOR
  BY SameTypes DEF Promised!REQUIRED_EVIDENCE_SOURCES, REQUIRED_EVIDENCE_SOURCES,
         Promised!RELIABILITY_BY_SOURCE_CATEGORY, RELIABILITY_BY_SOURCE_CATEGORY,
         Promised!FRESHNESS_DEGRADATION_FACTOR, FRESHNESS_DEGRADATION_FACTOR

LEMMA SameScores ==
    ASSUME NEW room, NEW rows, NEW c, NEW at
    PROVE  Promised!ConfidenceBreakdown(room, rows, c, at) = ConfidenceBreakdown(room, rows, c, at)
<1>1. \A n, d : Promised!Round(n, d) = Round(n, d)
  BY DEF Promised!Round, Round
<1>2. \A n : Promised!AtLeast0(n) = AtLeast0(n)
  BY DEF Promised!AtLeast0, AtLeast0
<1>3. \A m, n : Promised!AtMost(m, n) = AtMost(m, n)
  BY DEF Promised!AtMost, AtMost
<1>4. Promised!CategoriesOf(rows) = CategoriesOf(rows)
  BY DEF Promised!CategoriesOf, CategoriesOf
<1>5. Promised!Count(rows) = Count(rows)
  BY SameCount DEF Promised!Count, Count
<1>6. \A k : Promised!CountOf(k, rows) = CountOf(k, rows)
  BY SameCount DEF Promised!CountOf, CountOf
<1>7. Promised!EvidenceCompleteness(room.type, rows) = EvidenceCompleteness(room.type, rows)
  BY <1>1, <1>4, SameCount, SamePoints DEF Promised!EvidenceCompleteness, EvidenceCompleteness
<1>8. Promised!SourceReliability(rows) = SourceReliability(rows)
  BY <1>1, <1>5, <1>6, SamePoints DEF Promised!SourceReliability, SourceReliability
<1>9. Promised!DataFreshness(room.severity, rows, at) = DataFreshness(room.severity, rows, at)
  BY <1>1, <1>2, SamePoints DEF Promised!DataFreshness, DataFreshness
<1>10. Promised!AiCertainty(rows, c) = AiCertainty(rows, c)
  BY <1>2, <1>3, <1>4, <1>5, SameCount DEF Promised!AiCertainty, AiCertainty
<1> QED
  BY <1>7, <1>8, <1>9, <1>10 DEF Promised!ConfidenceBreakdown, ConfidenceBreakdown

\* What a transaction stamped is recent when it commits.
LEMMA RecentAtCommit ==
    ASSUME IInv, NEW j \in Working, NEW t \in 0..MaxClock,
           job[j].since <= t, t <= clock
    PROVE  t \in Promised!Recent
<1>1. job[j] \in Job /\ clock - job[j].since <= Timeout
  BY OpenJob DEF JobOk, Timely
<1>2. /\ job[j].since \in 0..MaxClock /\ clock \in 0..MaxClock /\ MaxClock \in Nat /\ Timeout \in Nat
  BY <1>1, ClockBounds DEF Job, IInv, IntelTypeOK
<1> HIDE DEF Working
<1>3. t \in 0..clock /\ clock - t <= Timeout
  BY <1>1, <1>2
<1> QED
  BY <1>3 DEF Promised!Recent

\* The commit of an incident, of a row of evidence and of an analysis.
LEMMA RoomPromised ==
    ASSUME IInv, SInv, NEW j \in Jobs, Commit(j), job[j].kind \in Creating
    PROVE  /\ job[j].kind = "incident" =>
                 \E type \in Promised!IncidentType, severity \in Promised!IncidentSeverity :
                    Promised!AddRoom(job[j].id, type, severity, "incident")
           /\ job[j].kind \in Scenarios =>
                 Promised!AddRoom(job[j].id, ScenarioRoom[job[j].kind].type,
                                  ScenarioRoom[job[j].kind].severity, job[j].kind)
<1> DEFINE q == job[j]
<1>1. /\ j \in Working /\ q \in Job /\ JobOk(q) /\ q.room # Absent
  BY AtCommit DEF Creating
<1>2. rooms' = [rooms EXCEPT ![q.id] = q.room]
  BY <1>1 DEF Commit
<1>3. rooms[q.id] = Absent /\ q.room.by = q.kind /\ q.room \in Room
  BY <1>1 DEF JobOk, Placed, Wrote, Job
<1>4. q.room = [type |-> q.room.type, severity |-> q.room.severity, by |-> q.kind]
      /\ q.room.type \in IncidentType /\ q.room.severity \in IncidentSeverity
  BY <1>3 DEF Room
<1>5. Stamped(q)
  BY <1>1 DEF SInv
<1>6. q.kind \in Scenarios => /\ q.room.type = ScenarioRoom[q.kind].type
                              /\ q.room.severity = ScenarioRoom[q.kind].severity
  BY <1>1, <1>5 DEF Stamped
<1>7. Promised!AddRoom(q.id, q.room.type, q.room.severity, q.kind)
  <2> HIDE DEF q
  <2>1. rooms' = [rooms EXCEPT ![q.id] =
                     [type |-> q.room.type, severity |-> q.room.severity, by |-> q.kind]]
    BY <1>2, <1>4
  <2> QED
    BY <1>3, <2>1 DEF Promised!AddRoom
<1> HIDE DEF q
<1>8. q.kind = "incident" =>
         \E type \in Promised!IncidentType, severity \in Promised!IncidentSeverity :
            Promised!AddRoom(q.id, type, severity, "incident")
  BY <1>4, <1>7, SameTypes
<1>9. q.kind \in Scenarios =>
         Promised!AddRoom(q.id, ScenarioRoom[q.kind].type, ScenarioRoom[q.kind].severity, q.kind)
  BY <1>6, <1>7
<1> QED
  BY <1>8, <1>9 DEF q

LEMMA RowPromised ==
    ASSUME IInv, SInv, NEW j \in Jobs, Commit(j), job[j].eid # Absent
    PROVE  /\ job[j].eid \in EvidenceIds
           /\ job[j].row.category \in EvidenceSourceCategory
           /\ Promised!AddRow(job[j].id, job[j].eid, job[j].row.category)
<1> DEFINE q == job[j]
<1>1. /\ j \in Working /\ q \in Job /\ JobOk(q) /\ Stamped(q)
  BY AtCommit DEF SInv
<1>2. evidence[q.eid] = Absent /\ q.row # Absent /\ q.row.room = q.id
  BY <1>1 DEF JobOk, Wrote
<1>3. q.row \in EvidenceRow /\ q.eid \in EvidenceIds
  BY <1>1, <1>2 DEF Job
<1>4. evidence' = [evidence EXCEPT ![q.eid] = q.row]
  BY <1>2 DEF Commit
<1>5. /\ q.row = [room |-> q.id, category |-> q.row.category, at |-> q.row.at]
      /\ q.row.category \in EvidenceSourceCategory /\ q.row.at \in 0..MaxClock
  BY <1>2, <1>3 DEF EvidenceRow
<1>6. q.row.at \in Promised!Recent
  <2>1. q.since <= q.row.at /\ q.row.at <= clock
    BY <1>1 DEF Stamped
  <2> QED
    BY <1>1, <1>5, <2>1, RecentAtCommit
<1> HIDE DEF q
<1>7. evidence' = [evidence EXCEPT ![q.eid] =
                      [room |-> q.id, category |-> q.row.category, at |-> q.row.at]]
  BY <1>4, <1>5
<1>8. Promised!AddRow(q.id, q.eid, q.row.category)
  BY <1>2, <1>6, <1>7 DEF Promised!AddRow
<1> QED
  BY <1>3, <1>5, <1>8 DEF q

LEMMA AnalysisPromised ==
    ASSUME IInv, SInv, NEW j \in Jobs, Commit(j),
           job[j].result # Absent, job[j].result \notin analyses
    PROVE  Promised!AddAnalysis(job[j].id, job[j].result.used, job[j].result.conflicts)
<1> DEFINE q == job[j]
           a == q.result
<1>1. /\ j \in Working /\ q \in Job /\ JobOk(q) /\ Did(q) /\ rooms'[q.id] = Seen(q)
      /\ q.eid # Absent => evidence'[q.eid] = q.row
  BY AtCommit
<1>2. \A e \in EvidenceIds : evidence[e] # Absent => evidence'[e] = evidence[e]
  BY AtCommit
<1>3. analyses' = analyses \cup {a} /\ ~q.poisoned
  BY DEF Commit, Sound
<1>4. /\ ScoredOk(q) /\ ReadOk(q) /\ Stamped(q) /\ Informed(q) /\ ReadAll(q)
  BY <1>1, <1>3 DEF Did, ScoredOk, SInv, Informed
<1>5. /\ a.room = q.id /\ a.used = DOMAIN q.read /\ q.asOf <= a.at /\ a.at - q.asOf <= Timeout
      /\ a.scores = ConfidenceBreakdown(Seen(q), q.read, a.conflicts, q.asOf)
  BY <1>4 DEF ScoredOk
<1>6. a \in Analysis /\ q.asOf \in 0..MaxClock
  BY <1>1 DEF Job
<1>7. a.at \in 0..MaxClock /\ (\A d \in DOMAIN a.scores : a.scores[d] \in 0..100)
  BY <1>6 DEF Analysis, Scores
<1>8. a.at \in Promised!Recent
  <2>1. q.since <= a.at /\ a.at <= clock
    BY <1>4 DEF Stamped
  <2> QED
    BY <1>1, <1>7, <2>1, RecentAtCommit
<1>9. q.asOf \in 0..a.at
  BY <1>5, <1>6, <1>7, ClockBounds
<1>10. \A e \in Promised!EvidenceOf(q.id) : evidence[e].at + Timeout < q.asOf => e \in a.used
  BY <1>4, <1>5 DEF ReadAll, Promised!EvidenceOf
<1>11. q.read = [e \in a.used |-> evidence'[e]]
  <2>1. /\ DOMAIN q.read \subseteq EvidenceIds
        /\ q.read = [e \in DOMAIN q.read |-> q.read[e]]
    BY <1>4 DEF ReadOk, EvidenceRows
  <2>2. \A e \in DOMAIN q.read : evidence'[e] = q.read[e]
    BY <1>1, <1>2, <1>4, <2>1, AbsentIsNoRow DEF ReadOk
  <2> HIDE DEF q
  <2> QED
    BY <1>5, <2>1, <2>2
<1>12. a.scores = Promised!ConfidenceBreakdown(rooms'[q.id], [e \in a.used |-> evidence'[e]],
                                               a.conflicts, q.asOf)
  <2>1. a.scores = ConfidenceBreakdown(rooms'[q.id], [e \in a.used |-> evidence'[e]],
                                       a.conflicts, q.asOf)
    BY <1>1, <1>5, <1>11
  <2> HIDE DEF q, a
  <2> QED
    BY <2>1, SameScores
<1> HIDE DEF q, a
<1>13. a \in analyses' \ analyses
  BY <1>3 DEF a, q
<1> QED
  BY <1>3, <1>5, <1>7, <1>8, <1>9, <1>10, <1>12, <1>13 DEF Promised!AddAnalysis, q, a

\* A commit is one step of the promise, or changes nothing a user sees.
LEMMA CommitPromised ==
    ASSUME IInv, SInv, NEW j \in Jobs, Commit(j)
    PROVE  Promised!Next \/ UNCHANGED <<clock, rooms, evidence, analyses>>
<1> DEFINE q == job[j]
<1>1. /\ j \in Working /\ q \in Job /\ JobOk(q) /\ Did(q) /\ Stamped(q)
      /\ q.kind \in Scenarios => q.eid # Absent
      /\ q.kind = "CLOUD_OUTAGE_PARTIAL_EVIDENCE" => q.result # Absent
  BY AtCommit DEF SInv
<1>2. /\ rooms' = IF q.room = Absent THEN rooms ELSE [rooms EXCEPT ![q.id] = q.room]
      /\ evidence' = IF q.row = Absent THEN evidence ELSE [evidence EXCEPT ![q.eid] = q.row]
      /\ analyses' = IF q.result = Absent THEN analyses ELSE analyses \cup {q.result}
      /\ clock' = clock
  BY DEF Commit
<1>3. q.id \in Rooms /\ q.kind \in {"incident", "evidence", "analyze"} \cup Scenarios
  BY <1>1, Kinds DEF Job
<1>4. /\ q.eid = Absent => evidence' = evidence
      /\ q.kind \notin {"evidence"} \cup Scenarios => evidence' = evidence
      /\ q.kind \notin Creating => rooms' = rooms
      /\ q.kind \notin {"analyze", "CLOUD_OUTAGE_PARTIAL_EVIDENCE"} => analyses' = analyses
  BY <1>1, <1>2 DEF JobOk, Wrote, Stamped
<1>5. q.kind \notin Creating => rooms[q.id] # Absent
  BY <1>1 DEF JobOk, Placed
<1>6. CASE q.kind = "incident"
  <2>1. Promised!OpenIncident(q.id)
    BY <1>2, <1>4, <1>6, RoomPromised DEF Promised!OpenIncident, Creating, Scenarios
  <2> QED
    BY <1>3, <2>1 DEF Promised!Next
<1>7. CASE q.kind = "evidence"
  <2>1. rooms' = rooms /\ analyses' = analyses
    BY <1>4, <1>7 DEF Creating, Scenarios
  <2>2. CASE q.eid # Absent
    <3>1. Promised!AddEvidence(q.id, q.eid)
      BY <1>2, <1>5, <1>7, <2>1, <2>2, RowPromised, SameTypes
         DEF Promised!AddEvidence, Creating, Scenarios
    <3> QED
      BY <1>3, <2>2, <3>1, RowPromised DEF Promised!Next
  <2> QED
    BY <1>2, <1>4, <2>1, <2>2
<1>8. CASE q.kind = "analyze"
  <2>1. rooms' = rooms /\ evidence' = evidence /\ rooms[q.id] # Absent /\ q.eid = Absent
    BY <1>1, <1>4, <1>5, <1>8 DEF Creating, Scenarios, Stamped
  <2>2. CASE q.result # Absent /\ q.result \notin analyses
    <3>1. ReadOk(q) /\ ReadAll(q) /\ q.result.used = DOMAIN q.read /\ q.result.conflicts \in Conflicts
      <4>1. ~q.poisoned /\ Informed(q)
        BY <1>1 DEF Commit, Sound, SInv
      <4> QED
        BY <1>1, <1>8, <2>2, <4>1 DEF Did, ScoredOk, Informed, Stamped
    <3>2. q.result.used \in SUBSET Promised!EvidenceOf(q.id)
      <4>1. DOMAIN q.read \subseteq EvidenceIds
        BY <3>1 DEF ReadOk, EvidenceRows
      <4>2. \A e \in DOMAIN q.read : evidence[e] # Absent /\ evidence[e].room = q.id
        BY <2>1, <3>1, <4>1, AbsentIsNoRow DEF ReadOk, ReadAll
      <4> QED
        BY <3>1, <4>1, <4>2 DEF Promised!EvidenceOf
    <3>3. Promised!AddAnalysis(q.id, q.result.used, q.result.conflicts)
      BY <2>2, AnalysisPromised
    <3>4. Promised!Analyze(q.id)
      BY <1>2, <2>1, <3>1, <3>2, <3>3 DEF Promised!Analyze
    <3> QED
      BY <1>3, <3>4 DEF Promised!Next
  <2>3. CASE q.result = Absent \/ q.result \in analyses
    <3>1. analyses' = analyses
      BY <1>2, <2>3
    <3> QED
      BY <1>2, <2>1, <3>1
  <2> QED
    BY <2>2, <2>3
<1>9. CASE q.kind = "CYBER_RANSOMWARE"
  <2>1. q.row.category = "MONITORING"
    BY <1>1, <1>9 DEF JobOk, Wrote, Scenarios, ScenarioCategory
  <2>2. Promised!AddRoom(q.id, "SECURITY_BREACH", "CRITICAL", "CYBER_RANSOMWARE")
    BY <1>9, RoomPromised DEF Creating, Scenarios, ScenarioRoom
  <2>3. analyses' = analyses /\ q.eid # Absent
    BY <1>1, <1>4, <1>9 DEF Scenarios
  <2>4. Promised!PlayRansomware(q.id, q.eid) /\ q.eid \in EvidenceIds
    BY <1>2, <2>1, <2>2, <2>3, RowPromised DEF Promised!PlayRansomware
  <2> QED
    BY <1>3, <2>4 DEF Promised!Next
<1>10. CASE q.kind = "CLOUD_OUTAGE_PARTIAL_EVIDENCE"
  <2>1. q.row.category = "CLOUD_PROVIDER" /\ q.eid # Absent /\ q.result # Absent
    BY <1>1, <1>10 DEF JobOk, Wrote, Scenarios, ScenarioCategory
  <2>2. Promised!AddRoom(q.id, "CLOUD_OUTAGE", "HIGH", "CLOUD_OUTAGE_PARTIAL_EVIDENCE")
    BY <1>10, RoomPromised DEF Creating, Scenarios, ScenarioRoom
  <2>3. q.result.used = {q.eid} /\ q.result.conflicts = 0
    <3>1. ~q.poisoned /\ Informed(q)
      BY <1>1 DEF Commit, Sound, SInv
    <3>2. ReadOk(q) /\ ReadAll(q) /\ q.result.used = DOMAIN q.read
      BY <1>1, <2>1, <3>1 DEF Did, ScoredOk, Informed
    <3>3. DOMAIN q.read = {q.eid}
      BY <1>10, <2>1, <3>2 DEF ReadOk, ReadAll, Scenarios
    <3> QED
      BY <1>1, <1>10, <2>1, <3>2, <3>3 DEF Stamped
  <2>4. Promised!AddAnalysis(q.id, {q.eid}, 0)
    <3>1. rooms[q.id] = Absent /\ q.result.room = q.id
      BY <1>1, <1>10, <2>1 DEF JobOk, Placed, Creating, Scenarios, Did, ScoredOk
    <3>2. q.result \notin analyses
      BY <3>1 DEF IInv, AnalysisOk
    <3> QED
      BY <2>1, <2>3, <3>2, AnalysisPromised
  <2>5. Promised!PlayCloudOutage(q.id, q.eid) /\ q.eid \in EvidenceIds
    BY <1>2, <2>1, <2>2, <2>4, RowPromised DEF Promised!PlayCloudOutage
  <2> QED
    BY <1>3, <2>5 DEF Promised!Next
<1> QED
  BY <1>3, <1>6, <1>7, <1>8, <1>9, <1>10 DEF Scenarios

LEMMA StepPromised ==
    ASSUME IInv, SInv, [IntelNext]_intelVars
    PROVE  [Promised!Next]_Promised!vars
<1>1. CASE UNCHANGED <<clock, rooms, evidence, analyses>>
  BY <1>1 DEF Promised!vars
<1>2. ASSUME NEW d \in Ticks, Passes(d) PROVE Promised!Next
  BY <1>2 DEF Passes, Promised!Next, Promised!Tick
<1>3. ASSUME NEW j \in Jobs, Commit(j) PROVE Promised!Next \/ UNCHANGED <<clock, rooms, evidence, analyses>>
  BY <1>3, CommitPromised
<1>4. ASSUME NEW j \in Jobs,
             \/ \E id \in Rooms :
                   \/ \E type \in Types, severity \in Severities :
                         Begin(j, "incident", id, [type |-> type, severity |-> severity])
                   \/ \E category \in Categories :
                         Begin(j, "evidence", id, [category |-> category])
                   \/ \E p \in Providers :
                         Begin(j, "evidence", id, [category |-> PROVIDER_TO_SOURCE_CATEGORY[p]])
                   \/ \E kind \in Scenarios \cup {"analyze"} : Begin(j, kind, id, Absent)
             \/ CreateIncident(j) \/ CreateEvidence(j) \/ Proceed(j)
             \/ TakeClock(j) \/ ReadEvidence(j) \/ CreateAnalysis(j)
             \/ Undo(j) \/ FailAnalysis(j)
      PROVE  UNCHANGED <<clock, rooms, evidence, analyses>>
  BY <1>4, Zenon DEF Begin, CreateIncident, CreateEvidence, Proceed, TakeClock, ReadEvidence,
                     CreateAnalysis, Undo, FailAnalysis, Does
<1>5. [Promised!Next]_Promised!vars <=> Promised!Next \/ UNCHANGED <<clock, rooms, evidence, analyses>>
  BY DEF Promised!vars
<1>6. UNCHANGED intelVars => UNCHANGED <<clock, rooms, evidence, analyses>>
  BY DEF intelVars
<1> QED
  BY <1>2, <1>3, <1>4, <1>5, <1>6 DEF IntelNext

------------------------------------------------------------------------------
\* A user of the API sees what a service in one step each would show.
THEOREM ImplementsIntelligence == IntelSpec => KeepsIntelligence
<1>1. IntelInit => Promised!Init
  BY DEF IntelInit, Promised!Init
<1>2. IInv /\ SInv /\ [IntelNext]_intelVars => [Promised!Next]_Promised!vars
  BY StepPromised
<1> QED
  BY <1>1, <1>2, StampsInvariant, PTL DEF IntelSpec, KeepsIntelligence, Promised!Spec

THEOREM ContractHolds == IntelSpec => []ScoresMeetContract
  BY StampsInvariant, InvContract, PTL
=============================================================================
