------------------------------ MODULE MCServices ------------------------------
(***************************************************************************)
(* The API's services that share no row with one another: sessions,        *)
(* evidence and its analyses, and the knowledge graph.  A behaviour drives *)
(* one of them, chosen at the start, and leaves the others as they are.    *)
(***************************************************************************)
EXTENDS Sessions, Intelligence, KnowledgeGraph, TLC

VARIABLE driven     \* the service this behaviour drives

allVars == <<sessionVars, intelVars, graphVars, driven>>

Init ==
    /\ driven \in {"sessions", "intelligence", "graph"}
    /\ SessionsInit /\ IntelInit /\ GraphInit

Next ==
    /\ \/ driven = "sessions" /\ SessionsNext /\ UNCHANGED <<intelVars, graphVars>>
       \/ driven = "intelligence" /\ IntelNext /\ UNCHANGED <<sessionVars, graphVars>>
       \/ driven = "graph" /\ GraphNext /\ UNCHANGED <<sessionVars, intelVars>>
    /\ UNCHANGED driven

Spec == Init /\ [][Next]_allVars

\* Interchangeable ids: no definition tells two of them apart.
Ids == UNION {Permutations(S) : S \in {Requests, Tenants, Jobs, EvidenceIds, Visits}}
==============================================================================
