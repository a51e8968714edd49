------------------------ MODULE MCIntegrationsRegistry ------------------------
(* One tenant, one provider key, a few requests, for TLC. *)
EXTENDS IntegrationsRegistry

==============================================================================
