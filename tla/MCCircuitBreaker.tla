--------------------------- MODULE MCCircuitBreaker ---------------------------
(* A provider shared by a few concurrent broadcasts, for TLC. *)
EXTENDS CircuitBreaker

==============================================================================
