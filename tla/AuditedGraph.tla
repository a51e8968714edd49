----------------------------- MODULE AuditedGraph -----------------------------
(***************************************************************************)
(* The intelligence graph as it promises to be: every request that changes *)
(* or shows anything is one atomic step that leaves one record, and its    *)
(* answer comes with or after it, or never.  KnowledgeGraph, with its open *)
(* transactions, implements this specification.                            *)
(*                                                                         *)
(* Rows are only added, edges join nodes that are there and never others,  *)
(* and what is shown is no more than there is.  Two reviews that overlap   *)
(* may both settle an edge.                                                *)
(***************************************************************************)
EXTENDS Integers, FiniteSets, Sequences

CONSTANTS Analysts, Entities, Edges, Nothing

VARIABLES
    entities, edges,    \* the rows
    auditLog,           \* what was done
    shown               \* what reached an analyst

vars == <<entities, edges, auditLog, shown>>

EdgesOf(node) ==
    {e \in Edges : edges[e] # Nothing /\ node \in {edges[e].from, edges[e].to}}

Does(by, action, target, count) ==
    LET entry == [by |-> by, action |-> action, target |-> target, count |-> count]
    IN  /\ auditLog' = Append(auditLog, entry)
        /\ shown' \in {shown, Append(shown, entry)}

List(by, action) ==
    /\ \E n \in 0..Cardinality(entities) : Does(by, action, Nothing, n)
    /\ UNCHANGED <<entities, edges>>

View(by, node) ==
    /\ node \in entities
    /\ Does(by, "VIEW_ENTITY", node, 0)
    /\ UNCHANGED <<entities, edges>>

ViewGraph(by, node) ==
    /\ node \in entities
    /\ \E n \in 0..Cardinality(EdgesOf(node)) : Does(by, "VIEW_GRAPH", node, n)
    /\ UNCHANGED <<entities, edges>>

AddNode(by, node) ==
    /\ node \notin entities
    /\ entities' = entities \cup {node}
    /\ Does(by, "CREATE_ENTITY", node, 0)
    /\ UNCHANGED edges

Suggest(by, e, from, to) ==
    /\ edges[e] = Nothing
    /\ edges' = [edges EXCEPT ![e] = [status |-> "SUGGESTED", from |-> from, to |-> to]]
    /\ Does(by, "CREATE_RELATIONSHIP", e, 0)
    /\ UNCHANGED entities

Settle(by, e, action, status) ==
    /\ edges[e] # Nothing
    /\ edges' = [edges EXCEPT ![e].status = status]
    /\ Does(by, action, e, 0)
    /\ UNCHANGED entities

Init ==
    /\ entities = {} /\ edges = [e \in Edges |-> Nothing]
    /\ auditLog = <<>> /\ shown = <<>>

Next ==
    \E by \in Analysts :
        \/ \E action \in {"SEARCH", "VIEW_MAP"} : List(by, action)
        \/ \E node \in Entities :
              View(by, node) \/ ViewGraph(by, node) \/ AddNode(by, node)
        \/ \E e \in Edges :
              \/ \E from, to \in entities : Suggest(by, e, from, to)
              \/ Settle(by, e, "CONFIRM_RELATIONSHIP", "CONFIRMED")
              \/ Settle(by, e, "REJECT_RELATIONSHIP", "REJECTED")

Spec == Init /\ [][Next]_vars
===============================================================================
