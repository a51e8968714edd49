----------------------------- MODULE KnowledgeGraph -----------------------------
(***************************************************************************)
(* The intelligence graph and its audit log: EntitiesService,              *)
(* RelationshipsService and AuditLogService.                               *)
(*                                                                         *)
(* Every route reads, perhaps writes one row, records what the analyst did *)
(* and answers, in one READ COMMITTED transaction: nothing of it is seen   *)
(* before it commits, the answer leaves after it has, and an update waits  *)
(* for the row lock of another open transaction.  confirm and reject check *)
(* the status they read and update by id alone.                            *)
(***************************************************************************)
EXTENDS Integers, FiniteSets, Sequences

CONSTANTS
    Analysts,
    Entities, Edges,    \* the ids entities and relationships can get
    Visits,             \* requests that can be in flight at once
    MaxLog,             \* bound on the records of the audit log
    Nothing             \* no row, no target

ASSUME LogBound == MaxLog \in Nat
ASSUME RowIds == /\ IsFiniteSet(Entities) /\ IsFiniteSet(Edges)
                 /\ Entities \cap Edges = {}

VARIABLES
    entities,       \* entities: the rows of the nodes
    edges,          \* relationships: [status, from, to], or Nothing
    auditLog,       \* audit_log_entries, in the order of their commits
    visits,         \* one open transaction, or NoVisit, per request
    shown           \* history: the answers that reached their analyst

graphVars == <<entities, edges, auditLog, visits, shown>>

Settled == {"CONFIRMED", "REJECTED"}
Reviews == {"CONFIRM_RELATIONSHIP", "REJECT_RELATIONSHIP"}
Lists == {"SEARCH", "VIEW_MAP"}
Lookups == {"VIEW_ENTITY", "VIEW_GRAPH"}
Creates == {"CREATE_ENTITY", "CREATE_RELATIONSHIP"}
AuditAction == Reviews \cup Lists \cup Lookups \cup Creates

Edge == [status : Settled \cup {"SUGGESTED"}, from : Entities, to : Entities]
Target == Entities \cup Edges \cup {Nothing}

ASSUME NothingIsNone == Nothing \notin Entities \cup Edges \cup Edge \cup Settled

\* What a review makes of an edge.
Verdict == [a \in Reviews |-> IF a = "CONFIRM_RELATIONSHIP" THEN "CONFIRMED" ELSE "REJECTED"]

\* A record of the log: who did what to what, and how many rows were returned.
AuditLogEntry == [by : Analysts, action : AuditAction, target : Target, count : Nat]

\* A request: `row` is the edge it writes, `opened` the status its edge had when
\* it started.
Visit == [pc : {"read", "write", "record", "commit"}, entry : AuditLogEntry,
          row : Edge \cup {Nothing}, opened : Settled \cup {"SUGGESTED", Nothing}]
NoVisit == [pc |-> "idle"]

GraphTypeOK ==
    /\ entities \subseteq Entities
    /\ edges \in [Edges -> Edge \cup {Nothing}]
    /\ auditLog \in Seq(AuditLogEntry) /\ shown \in Seq(AuditLogEntry)
    /\ visits \in [Visits -> Visit \cup {NoVisit}]

------------------------------------------------------------------------------
Visiting == {v \in Visits : visits[v] # NoVisit}
Doing(v) == visits[v].entry.action
On(v) == visits[v].entry.target

At(v, pc) == v \in Visiting /\ visits[v].pc = pc
Goes(v, pc) == visits' = [visits EXCEPT ![v].pc = pc]

\* The row is updated or created by a transaction that has not ended.
LockedEdge(e) == \E v \in Visiting : visits[v].pc \in {"record", "commit"} /\ On(v) = e

\* An id no row has and no open transaction is about to give.
Fresh(id) ==
    /\ id \notin entities \cup {e \in Edges : edges[e] # Nothing}
    /\ \A v \in Visiting : Doing(v) \in Creates => On(v) # id

\* The route is called: the interceptor opens the transaction.
Open(v, by, action, target) ==
    /\ visits[v] = NoVisit
    /\ Len(auditLog) + Cardinality(Visiting) < MaxLog
    /\ visits' = [visits EXCEPT ![v] =
          [pc |-> "read", row |-> Nothing,
           entry |-> [by |-> by, action |-> action, target |-> target, count |-> 0],
           opened |-> IF target \in Edges /\ edges[target] # Nothing
                      THEN edges[target].status ELSE Nothing]]
    /\ UNCHANGED <<entities, edges, auditLog, shown>>

\* search, searchNearby and getMap return the nodes that match.
List(v) ==
    /\ At(v, "read") /\ Doing(v) \in Lists
    /\ \E n \in 0..Cardinality(entities) :
          visits' = [visits EXCEPT ![v].pc = "record", ![v].entry.count = n]
    /\ UNCHANGED <<entities, edges, auditLog, shown>>

\* findOne and getGraph: the node, and the edges it is a party to.
LookUp(v) ==
    /\ At(v, "read") /\ Doing(v) \in Lookups /\ On(v) \in entities
    /\ visits' = [visits EXCEPT ![v].pc = "record", ![v].entry.count =
          IF Doing(v) = "VIEW_ENTITY" THEN 0
          ELSE Cardinality({e \in Edges : /\ edges[e] # Nothing
                                          /\ On(v) \in {edges[e].from, edges[e].to}})]
    /\ UNCHANGED <<entities, edges, auditLog, shown>>

\* Faulty variant: the nodes are not looked up.
AnyNodes == Entities

NodesFound == entities

\* The evidence cited, and the nodes an edge joins, are found; then the row.
Create(v) ==
    /\ At(v, "read") /\ Doing(v) \in Creates
    /\ \/ Doing(v) = "CREATE_ENTITY" /\ Goes(v, "record")
       \/ \E from, to \in NodesFound :
             /\ Doing(v) = "CREATE_RELATIONSHIP"
             /\ visits' = [visits EXCEPT ![v].pc = "record",
                   ![v].row = [status |-> "SUGGESTED", from |-> from, to |-> to]]
    /\ UNCHANGED <<entities, edges, auditLog, shown>>

\* Faulty variant: the transition is not checked.
AnyReview(status) == TRUE

\* RELATIONSHIP_TRANSITIONS: both verdicts only from SUGGESTED.
Reviewable(status) == status = "SUGGESTED"

\* confirm and reject read the edge and assert the transition ...
Review(v) ==
    /\ At(v, "read") /\ Doing(v) \in Reviews /\ edges[On(v)] # Nothing
    /\ Reviewable(edges[On(v)].status)
    /\ Goes(v, "write")
    /\ UNCHANGED <<entities, edges, auditLog, shown>>

\* ... and update by id, once no other open transaction holds the row.
Judge(v) ==
    /\ At(v, "write") /\ ~LockedEdge(On(v))
    /\ visits' = [visits EXCEPT ![v].pc = "record",
          ![v].row = [edges[On(v)] EXCEPT !.status = Verdict[Doing(v)]]]
    /\ UNCHANGED <<entities, edges, auditLog, shown>>

\* Faulty variant: the record is committed by itself, before the request is.
RecordedAlone(v) == /\ Goes(v, "commit")
                    /\ auditLog' = Append(auditLog, visits[v].entry)

Recorded(v) == Goes(v, "commit") /\ UNCHANGED auditLog

\* auditLog.record, awaited in the same transaction.
Record(v) ==
    /\ At(v, "record")
    /\ Recorded(v)
    /\ UNCHANGED <<entities, edges, shown>>

\* Faulty variant: lists are returned without a record.
LookupsOnly(v) == IF Doing(v) \in Lists THEN auditLog ELSE Append(auditLog, visits[v].entry)

Logged(v) == Append(auditLog, visits[v].entry)

\* Commit; the answer reaches the analyst, or is lost on the way.
Deliver(v, arrives) ==
    /\ At(v, "commit")
    /\ entities' = IF Doing(v) = "CREATE_ENTITY" THEN entities \cup {On(v)} ELSE entities
    /\ edges' = IF visits[v].row = Nothing THEN edges
                ELSE [edges EXCEPT ![On(v)] = visits[v].row]
    /\ auditLog' = Logged(v)
    /\ shown' = IF arrives THEN Append(shown, visits[v].entry) ELSE shown
    /\ visits' = [visits EXCEPT ![v] = NoVisit]

\* 404, 400, a failed statement, a timeout or a crash: all is rolled back.
RollBack(v) ==
    /\ v \in Visiting
    /\ visits' = [visits EXCEPT ![v] = NoVisit]
    /\ UNCHANGED <<entities, edges, auditLog, shown>>

------------------------------------------------------------------------------
GraphInit ==
    /\ entities = {} /\ edges = [e \in Edges |-> Nothing]
    /\ auditLog = <<>> /\ shown = <<>>
    /\ visits = [v \in Visits |-> NoVisit]

\* What an analyst can ask: a list, a node or an edge, or a new one.
Asks(v, by) ==
    \/ \E action \in Lists : Open(v, by, action, Nothing)
    \/ \E action \in Lookups, id \in Entities : Open(v, by, action, id)
    \/ \E action \in Reviews, id \in Edges : Open(v, by, action, id)
    \/ \E id \in Entities : Fresh(id) /\ Open(v, by, "CREATE_ENTITY", id)
    \/ \E id \in Edges : Fresh(id) /\ Open(v, by, "CREATE_RELATIONSHIP", id)

GraphNext ==
    \E v \in Visits :
        \/ \E by \in Analysts : Asks(v, by)
        \/ List(v) \/ LookUp(v) \/ Create(v) \/ Review(v) \/ Judge(v) \/ Record(v)
        \/ \E arrives \in BOOLEAN : Deliver(v, arrives)
        \/ RollBack(v)

GraphSpec == GraphInit /\ [][GraphNext]_graphVars

Audited == INSTANCE AuditedGraph

------------------------------------------------------------------------------
\* "Re-reviewing it means creating a new suggestion, not silently flipping the
\* old one": only a request that was under way before an edge was settled can
\* still change its verdict (two such requests can, the later one wins).
SettledStaysSettled ==
    [][\A e \in Edges :
          (edges[e] # Nothing /\ edges[e].status \in Settled /\ edges'[e] # edges[e]) =>
             \E v \in Visiting : On(v) = e /\ visits[v].opened \notin Settled]_graphVars

\* Logs what the analyst did, not just what the system found: for everything an
\* analyst was shown, with the number of rows returned, the log holds a record
\* of its own, even though an answer can be lost after its commit.
EveryAccessAudited ==
    LET times(x, list) == Cardinality({i \in DOMAIN list : list[i] = x})
    IN  \A i \in DOMAIN shown : times(shown[i], shown) <= times(shown[i], auditLog)

\* The action that gives an edge its status.
Explains(action, status) ==
    \/ action = "CREATE_RELATIONSHIP" /\ status = "SUGGESTED"
    \/ action \in Reviews /\ status = Verdict[action]

\* The log explains every edge: the last record about it is the one that gave it
\* the status it has, whichever reviews raced or were rolled back.
AuditExplainsStatus ==
    \A e \in Edges : edges[e] # Nothing =>
        \E i \in DOMAIN auditLog :
            /\ auditLog[i].target = e /\ Explains(auditLog[i].action, edges[e].status)
            /\ \A j \in DOMAIN auditLog : j > i => auditLog[j].target # e

\* Whatever transactions overlap, are rolled back or lose their answer, the graph
\* is one whose every change and every answer is one step with one record; no
\* edge loses its ends, and none is counted that is not there.
ActsAudited == Audited!Spec
=============================================================================
