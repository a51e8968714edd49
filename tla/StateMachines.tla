---------------------------- MODULE StateMachines ----------------------------
(***************************************************************************)
(* The status maps of apps/api: which transition of which entity is        *)
(* structurally legal.  assertValidTransition(entity, map, from, to)       *)
(* accepts exactly the listed pairs; a pair <<s, s>> is never listed, so   *)
(* repeating a status is rejected like any other illegal move.  A map is   *)
(* the set of its pairs.  "ABSENT" is the status of a row not inserted     *)
(* yet; no map mentions it.                                                *)
(***************************************************************************)
CONSTANTS
    Incidents, Decisions, Actions   \* identifiers rows may be given (uuids)

Rows == Incidents \cup Decisions \cup Actions

ASSUME RowKindsDisjoint ==
    /\ Incidents \cap Decisions = {}
    /\ Incidents \cap Actions = {}
    /\ Decisions \cap Actions = {}

\* Faulty variant: an incident may skip a stage.
IncidentMovesSkipping ==
    { <<"OPEN", "MITIGATED">>, <<"OPEN", "RESOLVED">>, <<"MITIGATED", "RESOLVED">>,
      <<"RESOLVED", "CLOSED">> }

IncidentMoves ==
    { <<"OPEN", "MITIGATED">>, <<"MITIGATED", "RESOLVED">>,
      <<"RESOLVED", "CLOSED">> }

\* Faulty variant: deciding again passes for a no-op.
DecisionMovesRepeated ==
    { <<"OPEN", "DECIDED">>, <<"OPEN", "CANCELLED">>, <<"DECIDED", "DECIDED">> }

DecisionMoves ==
    { <<"OPEN", "DECIDED">>, <<"OPEN", "CANCELLED">> }

ActionMoves ==
    { <<"PENDING", "IN_PROGRESS">>, <<"PENDING", "CANCELLED">>,
      <<"IN_PROGRESS", "DONE">>, <<"IN_PROGRESS", "CANCELLED">> }

Moves(x) == IF x \in Incidents THEN IncidentMoves
            ELSE IF x \in Decisions THEN DecisionMoves
            ELSE ActionMoves

\* The status column's default.
InitialStatus(x) == IF x \in Actions THEN "PENDING" ELSE "OPEN"

Statuses ==
    { "ABSENT", "OPEN", "MITIGATED", "RESOLVED", "CLOSED", "DECIDED",
      "CANCELLED", "PENDING", "IN_PROGRESS", "DONE" }

\* The position of an incident status in its linear lifecycle.
Rank(s) == CASE s = "OPEN"      -> 1
             [] s = "MITIGATED" -> 2
             [] s = "RESOLVED"  -> 3
             [] s = "CLOSED"    -> 4
             [] OTHER           -> 0

==============================================================================
