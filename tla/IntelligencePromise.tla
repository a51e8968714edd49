-------------------------- MODULE IntelligencePromise --------------------------
(***************************************************************************)
(* Incidents, their evidence and its analyses as the API's users see them: *)
(* rows appear whole, once and for good, and a scenario's rows together.   *)
(* Intelligence, with its open transactions, implements this               *)
(* specification.                                                          *)
(*                                                                         *)
(* An analysis scores evidence of its own incident, as of a time at most   *)
(* one transaction ago, and overlooks nothing that was added more than a   *)
(* transaction before that.                                                *)
(***************************************************************************)
EXTENDS Scoring

CONSTANTS Rooms, EvidenceIds, Conflicts, Ticks, Timeout, Absent

VARIABLES clock, rooms, evidence, analyses

vars == <<clock, rooms, evidence, analyses>>

EvidenceOf(i) == {e \in EvidenceIds : evidence[e] # Absent /\ evidence[e].room = i}

\* Stamped by a transaction that ends now.
Recent == {t \in 0..clock : clock - t <= Timeout}

AddRoom(i, type, severity, by) ==
    /\ rooms[i] = Absent
    /\ rooms' = [rooms EXCEPT ![i] = [type |-> type, severity |-> severity, by |-> by]]

AddRow(i, e, category) ==
    /\ evidence[e] = Absent
    /\ \E t \in Recent :
          evidence' = [evidence EXCEPT ![e] = [room |-> i, category |-> category, at |-> t]]

AddAnalysis(i, used, conflicts) ==
    \E a \in analyses' \ analyses :
        /\ analyses' = analyses \cup {a}
        /\ a.room = i /\ a.used = used /\ a.conflicts = conflicts /\ a.at \in Recent
        /\ \A d \in DOMAIN a.scores : a.scores[d] \in 0..100
        /\ \E asOf \in 0..a.at :
              /\ a.at - asOf <= Timeout
              /\ \A e \in EvidenceOf(i) : evidence[e].at + Timeout < asOf => e \in used
              /\ a.scores = ConfidenceBreakdown(rooms'[i], [e \in used |-> evidence'[e]],
                                                conflicts, asOf)

OpenIncident(i) ==
    /\ \E type \in IncidentType, severity \in IncidentSeverity :
          AddRoom(i, type, severity, "incident")
    /\ UNCHANGED <<clock, evidence, analyses>>

AddEvidence(i, e) ==
    /\ rooms[i] # Absent
    /\ \E category \in EvidenceSourceCategory : AddRow(i, e, category)
    /\ UNCHANGED <<clock, rooms, analyses>>

Analyze(i) ==
    /\ rooms[i] # Absent
    /\ UNCHANGED <<clock, rooms, evidence>>
    /\ \E used \in SUBSET EvidenceOf(i), conflicts \in Conflicts : AddAnalysis(i, used, conflicts)

PlayRansomware(i, e) ==
    /\ AddRoom(i, "SECURITY_BREACH", "CRITICAL", "CYBER_RANSOMWARE")
    /\ AddRow(i, e, "MONITORING")
    /\ UNCHANGED <<clock, analyses>>

PlayCloudOutage(i, e) ==
    /\ AddRoom(i, "CLOUD_OUTAGE", "HIGH", "CLOUD_OUTAGE_PARTIAL_EVIDENCE")
    /\ AddRow(i, e, "CLOUD_PROVIDER")
    /\ AddAnalysis(i, {e}, 0)
    /\ UNCHANGED clock

Tick ==
    /\ \E d \in Ticks : clock' = clock + d
    /\ UNCHANGED <<rooms, evidence, analyses>>

Init ==
    /\ clock = 0 /\ analyses = {}
    /\ rooms = [i \in Rooms |-> Absent] /\ evidence = [e \in EvidenceIds |-> Absent]

Next ==
    \/ Tick
    \/ \E i \in Rooms :
          \/ OpenIncident(i) \/ Analyze(i)
          \/ \E e \in EvidenceIds :
                AddEvidence(i, e) \/ PlayRansomware(i, e) \/ PlayCloudOutage(i, e)

Spec == Init /\ [][Next]_vars
================================================================================
