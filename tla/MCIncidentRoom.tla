---------------------------- MODULE MCIncidentRoom ----------------------------
(***************************************************************************)
(* Small rooms for TLC: one row of each kind is enough for the races on a  *)
(* row, since requests on different rows share only the timeline's order.  *)
(***************************************************************************)
EXTENDS IncidentRoom

==============================================================================
