--------------------------- MODULE MCRetrospective ---------------------------
(***************************************************************************)
(* Small instances for TLC: every decision belongs to the one incident.    *)
(***************************************************************************)
EXTENDS Retrospective, TLC

MCIncidentOf == [d \in Decisions |-> CHOOSE i \in Incidents : TRUE]

\* Requests differ in nothing but their names, and only safety is checked.
Interchangeable == Permutations(Requests)

==============================================================================
