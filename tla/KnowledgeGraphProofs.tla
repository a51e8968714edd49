------------------------- MODULE KnowledgeGraphProofs -------------------------
(***************************************************************************)
(* Theorems about KnowledgeGraph, for any analysts, ids and requests.      *)
(*                                                                         *)
(* The row a request holds is the one its action calls for, no two open    *)
(* requests create one id, and an edge that was settled when a request     *)
(* started is settled still.  So a commit changes an edge together with    *)
(* the record that explains it, and only for a request that was under way  *)
(* before the edge was settled.  For the refinement: what a request read   *)
(* or counted stands until it commits, as rows are only added and edges    *)
(* keep their ends.                                                        *)
(***************************************************************************)
EXTENDS KnowledgeGraph, TLAPS, FiniteSetTheorems

OnEdge == Reviews \cup {"CREATE_RELATIONSHIP"}

\* What the action of request q is about.
About(q) ==
    /\ q.entry.action \in OnEdge => q.entry.target \in Edges
    /\ q.entry.action \notin OnEdge => q.entry.target \notin Edges
    /\ q.entry.action = "CREATE_ENTITY" => q.entry.target \in Entities

\* The row request q is about to commit.
RowOf(q) ==
    /\ q.pc \in {"read", "write"} => q.row = Nothing
    /\ q.pc = "write" => q.entry.action \in Reviews
    /\ q.pc \in {"record", "commit"} =>
          /\ q.entry.action \in Reviews =>
                q.row \in Edge /\ q.row.status = Verdict[q.entry.action]
          /\ q.entry.action = "CREATE_RELATIONSHIP" =>
                q.row \in Edge /\ q.row.status = "SUGGESTED"
          /\ q.entry.action \notin OnEdge => q.row = Nothing

\* A review goes on only with an edge that was not settled when it started; an
\* edge that was, is.
OpenedAt(q) ==
    /\ q.entry.action \in Reviews /\ q.pc # "read" =>
          edges[q.entry.target] # Nothing /\ q.opened \notin Settled
    /\ q.opened \in Settled =>
          /\ q.entry.target \in Edges /\ edges[q.entry.target] # Nothing
          /\ edges[q.entry.target].status \in Settled

VisitInv ==
    \A v \in Visiting : About(visits[v]) /\ RowOf(visits[v]) /\ OpenedAt(visits[v])

\* An id that is being given has no row and is given once.
FreshInv ==
    \A v \in Visiting :
        Doing(v) = "CREATE_RELATIONSHIP" =>
            /\ edges[On(v)] = Nothing
            /\ \A w \in Visiting \ {v} :
                  Doing(w) = "CREATE_RELATIONSHIP" => On(w) # On(v)

IInv == GraphTypeOK /\ VisitInv /\ FreshInv /\ AuditExplainsStatus

------------------------------------------------------------------------------
\* An open request is a record whose fields have their types.
LEMMA OpenVisit ==
    ASSUME GraphTypeOK, NEW v \in Visiting
    PROVE  /\ v \in Visits /\ visits[v] \in Visit
           /\ Doing(v) \in AuditAction /\ On(v) \in Target
  BY DEF GraphTypeOK, Visiting, Visit, AuditLogEntry, Doing, On

\* A request that opens is no other request's twin and holds nothing yet.
LEMMA OpenStep ==
    ASSUME IInv, NEW v \in Visits, NEW by \in Analysts,
           NEW action \in AuditAction, NEW target \in Target,
           action \in OnEdge => target \in Edges,
           action \notin OnEdge => target \notin Edges,
           action = "CREATE_ENTITY" => target \in Entities,
           action = "CREATE_RELATIONSHIP" => Fresh(target),
           Open(v, by, action, target)
    PROVE  IInv'
<1> DEFINE q == [pc |-> "read", row |-> Nothing,
                 entry |-> [by |-> by, action |-> action, target |-> target, count |-> 0],
                 opened |-> IF target \in Edges /\ edges[target] # Nothing
                            THEN edges[target].status ELSE Nothing]
<1>1. /\ visits' = [visits EXCEPT ![v] = q] /\ visits[v] = NoVisit
      /\ UNCHANGED <<entities, edges, auditLog, shown>>
  BY DEF Open
<1>2. GraphTypeOK
  BY DEF IInv
<1>3. q.opened \in Settled \cup {"SUGGESTED", Nothing}
  BY <1>2 DEF GraphTypeOK, Edge
<1>4. q \in Visit /\ q # NoVisit
  BY <1>3 DEF Visit, AuditLogEntry, NoVisit
<1>5. GraphTypeOK'
  BY <1>1, <1>2, <1>4 DEF GraphTypeOK
<1>6. /\ visits'[v] = q /\ \A w \in Visits \ {v} : visits'[w] = visits[w]
      /\ Visiting' = Visiting \cup {v} /\ v \notin Visiting
  BY <1>1, <1>2, <1>4 DEF GraphTypeOK, Visiting
<1>7. About(q) /\ RowOf(q) /\ OpenedAt(q)
  BY NothingIsNone DEF About, RowOf, OpenedAt, Settled, OnEdge
<1> HIDE DEF q
<1>8. VisitInv'
  <2> SUFFICES ASSUME NEW w \in Visiting'
               PROVE  (About(visits[w]) /\ RowOf(visits[w]) /\ OpenedAt(visits[w]))'
    BY DEF VisitInv
  <2>1. CASE w = v
    BY <2>1, <1>1, <1>6, <1>7 DEF About, RowOf, OpenedAt
  <2>2. CASE w # v
    BY <2>2, <1>1, <1>6 DEF IInv, VisitInv, About, RowOf, OpenedAt, Visiting
  <2> QED
    BY <2>1, <2>2
<1>9. FreshInv'
  <2>1. q.entry.action = action /\ q.entry.target = target
    BY DEF q
  <2>2. \A w \in Visiting : Doing(w)' = Doing(w) /\ On(w)' = On(w)
    BY <1>1, <1>6 DEF Doing, On, Visiting
  <2>3. Doing(v)' = action /\ On(v)' = target
    BY <2>1, <1>6 DEF Doing, On
  <2>4. action = "CREATE_RELATIONSHIP" =>
           /\ edges[target] = Nothing
           /\ \A w \in Visiting : Doing(w) = "CREATE_RELATIONSHIP" => On(w) # target
    BY DEF Fresh, OnEdge, Creates
  <2> QED
    BY <1>1, <1>6, <2>2, <2>3, <2>4 DEF IInv, FreshInv
<1> QED
  BY <1>1, <1>5, <1>8, <1>9 DEF IInv, AuditExplainsStatus

\* A request that goes on to x, about what it was about, with the row and the
\* edge that x calls for, while no row changes.
LEMMA GoesOn ==
    ASSUME IInv, NEW v \in Visiting, NEW x \in Visit,
           visits' = [visits EXCEPT ![v] = x],
           UNCHANGED <<entities, edges, auditLog, shown>>,
           x.entry.action = Doing(v), x.entry.target = On(v),
           RowOf(x), OpenedAt(x)
    PROVE  IInv'
<1>1. GraphTypeOK
  BY DEF IInv
<1>2. /\ visits'[v] = x /\ \A w \in Visits \ {v} : visits'[w] = visits[w]
      /\ v \in Visits /\ x # NoVisit
  BY <1>1 DEF GraphTypeOK, Visiting, Visit, NoVisit
<1>3. Visiting' = Visiting
  BY <1>2 DEF Visiting
<1>4. GraphTypeOK'
  BY <1>1 DEF GraphTypeOK
<1>5. \A w \in Visiting : Doing(w)' = Doing(w) /\ On(w)' = On(w)
  BY <1>2 DEF Doing, On, Visiting
<1>6. VisitInv'
  <2> SUFFICES ASSUME NEW w \in Visiting
               PROVE  (About(visits[w]) /\ RowOf(visits[w]) /\ OpenedAt(visits[w]))'
    BY <1>3 DEF VisitInv
  <2>1. CASE w = v
    BY <2>1, <1>2 DEF IInv, VisitInv, About, RowOf, OpenedAt, Doing, On
  <2>2. CASE w # v
    BY <2>2, <1>2 DEF IInv, VisitInv, About, RowOf, OpenedAt, Visiting
  <2> QED
    BY <2>1, <2>2
<1>7. FreshInv'
  BY <1>3, <1>5 DEF IInv, FreshInv
<1> QED
  BY <1>4, <1>6, <1>7 DEF IInv, AuditExplainsStatus

\* A list or a lookup is counted and goes on to its record.
LEMMA ReadingStep ==
    ASSUME IInv, NEW v \in Visits, List(v) \/ LookUp(v)
    PROVE  IInv'
<1>1. v \in Visiting /\ visits[v].pc = "read" /\ visits[v].row = Nothing
      /\ Doing(v) \notin OnEdge /\ visits[v] \in Visit
  BY OpenVisit DEF List, LookUp, At, IInv, VisitInv, RowOf, OnEdge, Lists, Lookups, Reviews
<1>2. PICK n \in Nat :
        /\ visits' = [visits EXCEPT ![v].pc = "record", ![v].entry.count = n]
        /\ UNCHANGED <<entities, edges, auditLog, shown>>
  <2>1. CASE List(v)
    <3>1. Cardinality(entities) \in Nat
      BY RowIds, FS_Subset, FS_CardinalityType DEF IInv, GraphTypeOK
    <3>2. PICK n \in 0..Cardinality(entities) :
             visits' = [visits EXCEPT ![v].pc = "record", ![v].entry.count = n]
      BY <2>1, Zenon DEF List
    <3>3. n \in Nat
      BY <3>1
    <3> QED
      BY <2>1, <3>2, <3>3, Zenon DEF List
  <2>2. CASE LookUp(v)
    <3> DEFINE party == {e \in Edges : /\ edges[e] # Nothing
                                       /\ On(v) \in {edges[e].from, edges[e].to}}
    <3>1. Cardinality(party) \in Nat
      BY RowIds, FS_Subset, FS_CardinalityType
    <3> QED
      BY <2>2, <3>1 DEF LookUp
  <2> QED
    BY <2>1, <2>2
<1> DEFINE x == [visits[v] EXCEPT !.pc = "record", !.entry.count = n]
<1>3. x \in Visit
  BY <1>1 DEF Visit, AuditLogEntry
<1>4. visits' = [visits EXCEPT ![v] = x]
  BY <1>2 DEF IInv, GraphTypeOK
<1>5. /\ x.entry.action = Doing(v) /\ x.entry.target = On(v) /\ x.row = Nothing
      /\ x.pc = "record" /\ x.opened = visits[v].opened
  BY <1>1 DEF Visit, AuditLogEntry, Doing, On
<1> HIDE DEF x
<1>6. RowOf(x) /\ OpenedAt(x)
  BY <1>1, <1>5 DEF RowOf, OpenedAt, OnEdge, IInv, VisitInv, On
<1> QED
  BY <1>1, <1>2, <1>3, <1>4, <1>5, <1>6, GoesOn

\* An id is taken for a row whose status is SUGGESTED.
LEMMA CreateStep ==
    ASSUME IInv, NEW v \in Visits, Create(v)
    PROVE  IInv'
<1>1. v \in Visiting /\ visits[v].pc = "read" /\ visits[v].row = Nothing
      /\ Doing(v) \in Creates /\ visits[v] \in Visit
  BY OpenVisit DEF Create, At, IInv, VisitInv, RowOf
<1>2. PICK row \in Edge \cup {Nothing} :
        /\ visits' = [visits EXCEPT ![v].pc = "record", ![v].row = row]
        /\ Doing(v) = "CREATE_RELATIONSHIP" => row \in Edge /\ row.status = "SUGGESTED"
        /\ Doing(v) = "CREATE_ENTITY" => row = Nothing
  <2>1. CASE Doing(v) = "CREATE_ENTITY" /\ Goes(v, "record")
    <3>1. visits' = [visits EXCEPT ![v].pc = "record", ![v].row = Nothing]
      BY <1>1, <2>1 DEF Goes, IInv, GraphTypeOK, Visit
    <3> QED
      BY <2>1, <3>1
  <2>2. CASE \E from, to \in entities :
               /\ Doing(v) = "CREATE_RELATIONSHIP"
               /\ visits' = [visits EXCEPT ![v].pc = "record",
                     ![v].row = [status |-> "SUGGESTED", from |-> from, to |-> to]]
    <3>1. PICK from, to \in entities :
               visits' = [visits EXCEPT ![v].pc = "record",
                     ![v].row = [status |-> "SUGGESTED", from |-> from, to |-> to]]
      BY <2>2
    <3>2. [status |-> "SUGGESTED", from |-> from, to |-> to] \in Edge
      BY DEF Edge, IInv, GraphTypeOK
    <3> QED
      BY <2>2, <3>1, <3>2
  <2> QED
    BY <2>1, <2>2 DEF Create, NodesFound
<1> DEFINE x == [visits[v] EXCEPT !.pc = "record", !.row = row]
<1>3. x \in Visit
  BY <1>1 DEF Visit
<1>4. visits' = [visits EXCEPT ![v] = x] /\ UNCHANGED <<entities, edges, auditLog, shown>>
  BY <1>2 DEF Create, IInv, GraphTypeOK
<1>5. /\ x.entry.action = Doing(v) /\ x.entry.target = On(v) /\ x.row = row
      /\ x.pc = "record" /\ x.opened = visits[v].opened
  BY <1>1 DEF Visit, Doing, On
<1> HIDE DEF x
<1>6. RowOf(x) /\ OpenedAt(x)
  BY <1>1, <1>2, <1>5 DEF RowOf, OpenedAt, OnEdge, Creates, Reviews, IInv, VisitInv, On
<1> QED
  BY <1>1, <1>3, <1>4, <1>5, <1>6, GoesOn

\* A review goes on with an edge that is SUGGESTED: it was not settled before.
LEMMA ReviewStep ==
    ASSUME IInv, NEW v \in Visits, Review(v)
    PROVE  IInv'
<1>1. v \in Visiting /\ visits[v].pc = "read" /\ visits[v].row = Nothing
      /\ Doing(v) \in Reviews /\ visits[v] \in Visit
      /\ edges[On(v)] # Nothing /\ edges[On(v)].status = "SUGGESTED"
  BY OpenVisit DEF Review, Reviewable, At, IInv, VisitInv, RowOf
<1> DEFINE x == [visits[v] EXCEPT !.pc = "write"]
<1>2. x \in Visit
  BY <1>1 DEF Visit
<1>3. visits' = [visits EXCEPT ![v] = x] /\ UNCHANGED <<entities, edges, auditLog, shown>>
  BY DEF Review, Goes, IInv, GraphTypeOK
<1>4. /\ x.entry.action = Doing(v) /\ x.entry.target = On(v) /\ x.row = Nothing
      /\ x.pc = "write" /\ x.opened = visits[v].opened
  BY <1>1 DEF Visit, Doing, On
<1> HIDE DEF x
<1>5. visits[v].opened \notin Settled
  BY <1>1 DEF IInv, VisitInv, OpenedAt, Settled, On
<1>6. RowOf(x) /\ OpenedAt(x)
  BY <1>1, <1>4, <1>5 DEF RowOf, OpenedAt
<1> QED
  BY <1>1, <1>2, <1>3, <1>4, <1>6, GoesOn

\* The verdict is the one the action stands for.
LEMMA JudgeStep ==
    ASSUME IInv, NEW v \in Visits, Judge(v)
    PROVE  IInv'
<1>1. v \in Visiting /\ visits[v].pc = "write" /\ Doing(v) \in Reviews
      /\ visits[v] \in Visit /\ On(v) \in Edges
      /\ edges[On(v)] # Nothing /\ visits[v].opened \notin Settled
  BY OpenVisit DEF Judge, At, IInv, VisitInv, RowOf, About, OpenedAt, OnEdge, Doing, On
<1> DEFINE row == [edges[On(v)] EXCEPT !.status = Verdict[Doing(v)]]
           x == [visits[v] EXCEPT !.pc = "record", !.row = row]
<1>2. row \in Edge /\ row.status = Verdict[Doing(v)]
  BY <1>1 DEF Edge, IInv, GraphTypeOK, Verdict, Settled
<1>3. x \in Visit
  BY <1>1, <1>2 DEF Visit
<1>4. visits' = [visits EXCEPT ![v] = x] /\ UNCHANGED <<entities, edges, auditLog, shown>>
  BY DEF Judge, IInv, GraphTypeOK
<1>5. /\ x.entry.action = Doing(v) /\ x.entry.target = On(v) /\ x.row = row
      /\ x.pc = "record" /\ x.opened = visits[v].opened
  BY <1>1 DEF Visit, Doing, On
<1> HIDE DEF x, row
<1>6. RowOf(x) /\ OpenedAt(x)
  BY <1>1, <1>2, <1>5 DEF RowOf, OpenedAt, OnEdge, Reviews
<1> QED
  BY <1>1, <1>3, <1>4, <1>5, <1>6, GoesOn

\* The record is written: only the request's place changes.
LEMMA RecordStep ==
    ASSUME IInv, NEW v \in Visits, Record(v)
    PROVE  IInv'
<1>1. v \in Visiting /\ visits[v].pc = "record" /\ visits[v] \in Visit
  BY OpenVisit DEF Record, At, IInv
<1> DEFINE x == [visits[v] EXCEPT !.pc = "commit"]
<1>2. x \in Visit
  BY <1>1 DEF Visit
<1>3. visits' = [visits EXCEPT ![v] = x] /\ UNCHANGED <<entities, edges, auditLog, shown>>
  BY DEF Record, Recorded, Goes, IInv, GraphTypeOK
<1>4. /\ x.entry = visits[v].entry /\ x.row = visits[v].row
      /\ x.pc = "commit" /\ x.opened = visits[v].opened
  BY <1>1 DEF Visit
<1> HIDE DEF x
<1>5. RowOf(x) /\ OpenedAt(x)
  BY <1>1, <1>4 DEF RowOf, OpenedAt, IInv, VisitInv
<1> QED
  BY <1>1, <1>2, <1>3, <1>4, <1>5, GoesOn DEF Doing, On

\* A request that ends leaves the others as they were.
LEMMA RollBackStep ==
    ASSUME IInv, NEW v \in Visits, RollBack(v)
    PROVE  IInv'
<1>1. /\ visits' = [visits EXCEPT ![v] = NoVisit]
      /\ UNCHANGED <<entities, edges, auditLog, shown>>
  BY DEF RollBack
<1>2. /\ \A w \in Visits \ {v} : visits'[w] = visits[w]
      /\ visits'[v] = NoVisit
  BY <1>1 DEF IInv, GraphTypeOK
<1>3. Visiting' = Visiting \ {v}
  BY <1>2 DEF Visiting
<1>4. GraphTypeOK'
  BY <1>1 DEF IInv, GraphTypeOK
<1>5. \A w \in Visiting' : w \in Visiting /\ visits'[w] = visits[w]
  BY <1>2, <1>3 DEF Visiting
<1>6. VisitInv' /\ FreshInv'
  BY <1>1, <1>5 DEF IInv, VisitInv, FreshInv, About, RowOf, OpenedAt, Doing, On
<1> QED
  BY <1>1, <1>4, <1>6 DEF IInv, AuditExplainsStatus

\* What a commit does: it changes the edge its record is about, or no edge and
\* then its record is about none.
LEMMA Commits ==
    ASSUME IInv, NEW v \in Visits, NEW arrives \in BOOLEAN, Deliver(v, arrives)
    PROVE  /\ v \in Visiting /\ visits[v] \in Visit /\ visits[v].pc = "commit"
           /\ \/ /\ visits[v].row = Nothing /\ edges' = edges
                 /\ Doing(v) \notin OnEdge /\ On(v) \notin Edges
              \/ /\ visits[v].row \in Edge /\ On(v) \in Edges /\ Doing(v) \in OnEdge
                 /\ edges' = [edges EXCEPT ![On(v)] = visits[v].row]
                 /\ Explains(Doing(v), visits[v].row.status)
                 /\ Doing(v) \in Reviews =>
                       /\ visits[v].row.status \in Settled
                       /\ edges[On(v)] # Nothing /\ visits[v].opened \notin Settled
<1>1. v \in Visiting /\ visits[v] \in Visit /\ visits[v].pc = "commit"
  BY OpenVisit DEF Deliver, At, IInv
<1>2. About(visits[v]) /\ RowOf(visits[v]) /\ OpenedAt(visits[v])
  BY <1>1 DEF IInv, VisitInv
<1>3. CASE Doing(v) \notin OnEdge
  BY <1>1, <1>2, <1>3 DEF Deliver, About, RowOf, Doing, On
<1>4. CASE Doing(v) = "CREATE_RELATIONSHIP"
  <2>1. visits[v].row \in Edge /\ visits[v].row.status = "SUGGESTED" /\ On(v) \in Edges
    BY <1>1, <1>2, <1>4 DEF About, RowOf, OnEdge, Doing, On
  <2>2. edges' = [edges EXCEPT ![On(v)] = visits[v].row]
    BY <2>1, NothingIsNone DEF Deliver
  <2> QED
    BY <1>1, <1>4, <2>1, <2>2 DEF Explains, OnEdge, Reviews
<1>5. CASE Doing(v) \in Reviews
  <2>1. visits[v].row \in Edge /\ visits[v].row.status = Verdict[Doing(v)] /\ On(v) \in Edges
    BY <1>1, <1>2, <1>5 DEF About, RowOf, OnEdge, Doing, On
  <2>2. edges' = [edges EXCEPT ![On(v)] = visits[v].row]
    BY <2>1, NothingIsNone DEF Deliver
  <2>3. Verdict[Doing(v)] \in Settled
    BY <1>5 DEF Verdict, Settled
  <2>4. edges[On(v)] # Nothing /\ visits[v].opened \notin Settled
    BY <1>1, <1>2, <1>5 DEF OpenedAt, Doing, On
  <2> QED
    BY <1>1, <1>5, <2>1, <2>2, <2>3, <2>4 DEF Explains, OnEdge
<1> QED
  BY <1>3, <1>4, <1>5 DEF OnEdge

\* The record of a commit is the last about its edge, and about no other.
LEMMA LogGrows ==
    ASSUME IInv, NEW v \in Visits, NEW arrives \in BOOLEAN, Deliver(v, arrives)
    PROVE  AuditExplainsStatus'
<1> DEFINE n == Len(auditLog)
<1>1. /\ visits[v] \in Visit /\ v \in Visiting /\ auditLog \in Seq(AuditLogEntry)
      /\ visits[v].entry \in AuditLogEntry /\ auditLog' = Append(auditLog, visits[v].entry)
  BY Commits DEF Deliver, Logged, Visit, IInv, GraphTypeOK
<1>2. /\ n \in Nat /\ DOMAIN auditLog = 1..n /\ DOMAIN auditLog' = 1..(n + 1)
      /\ auditLog'[n + 1] = visits[v].entry
      /\ \A i \in 1..n : auditLog'[i] = auditLog[i]
  BY <1>1
<1> SUFFICES ASSUME NEW e \in Edges, edges'[e] # Nothing
             PROVE  \E i \in DOMAIN auditLog' :
                       /\ auditLog'[i].target = e
                       /\ Explains(auditLog'[i].action, edges'[e].status)
                       /\ \A j \in DOMAIN auditLog' : j > i => auditLog'[j].target # e
  BY DEF AuditExplainsStatus, Explains
<1>3. CASE On(v) = e
  <2>1. visits[v].row \in Edge /\ edges' = [edges EXCEPT ![On(v)] = visits[v].row]
        /\ Explains(Doing(v), visits[v].row.status)
    BY <1>3, Commits
  <2>2. edges'[e] = visits[v].row
    BY <1>3, <2>1 DEF IInv, GraphTypeOK
  <2>3. auditLog'[n + 1].target = e /\ auditLog'[n + 1].action = Doing(v)
    BY <1>2, <1>3 DEF Doing, On
  <2>4. Explains(auditLog'[n + 1].action, edges'[e].status)
    BY <2>1, <2>2, <2>3
  <2> QED
    BY <1>2, <2>3, <2>4
<1>4. CASE On(v) # e
  <2>1. edges'[e] = edges[e]
    BY <1>4, Commits DEF IInv, GraphTypeOK
  <2>2. PICK i \in 1..n : /\ auditLog[i].target = e
                          /\ Explains(auditLog[i].action, edges[e].status)
                          /\ \A j \in 1..n : j > i => auditLog[j].target # e
    BY <1>2, <2>1 DEF IInv, AuditExplainsStatus
  <2>3. auditLog'[n + 1].target # e
    BY <1>2, <1>4 DEF On
  <2>4. /\ i \in 1..(n + 1) /\ auditLog'[i].target = e
        /\ Explains(auditLog'[i].action, edges'[e].status)
    BY <1>2, <2>1, <2>2
  <2>5. \A j \in 1..(n + 1) : j > i => auditLog'[j].target # e
    BY <1>2, <2>2, <2>3
  <2> QED
    BY <1>2, <2>4, <2>5
<1> QED
  BY <1>3, <1>4

LEMMA DeliverStep ==
    ASSUME IInv, NEW v \in Visits, NEW arrives \in BOOLEAN, Deliver(v, arrives)
    PROVE  IInv'
<1>1. /\ visits' = [visits EXCEPT ![v] = NoVisit]
      /\ \A w \in Visits \ {v} : visits'[w] = visits[w]
      /\ visits'[v] = NoVisit
  BY DEF Deliver, IInv, GraphTypeOK
<1>2. Visiting' = Visiting \ {v} /\ \A w \in Visiting' : visits'[w] = visits[w]
  BY <1>1 DEF Visiting
<1>3. v \in Visiting /\ visits[v] \in Visit
  BY Commits
<1>4. GraphTypeOK'
  <2>1. visits[v].entry \in AuditLogEntry /\ On(v) \in Target
    BY <1>3 DEF Visit, AuditLogEntry, On
  <2>2. auditLog' \in Seq(AuditLogEntry) /\ shown' \in Seq(AuditLogEntry)
    BY <2>1 DEF Deliver, Logged, IInv, GraphTypeOK
  <2>3. edges' \in [Edges -> Edge \cup {Nothing}]
    BY Commits DEF IInv, GraphTypeOK
  <2>4. entities' \subseteq Entities
    <3>1. Doing(v) = "CREATE_ENTITY" => On(v) \in Entities
      BY <1>3 DEF IInv, VisitInv, About, Doing, On
    <3> QED
      BY <3>1 DEF Deliver, IInv, GraphTypeOK
  <2>5. visits' \in [Visits -> Visit \cup {NoVisit}]
    BY <1>1 DEF IInv, GraphTypeOK
  <2> QED
    BY <2>2, <2>3, <2>4, <2>5 DEF GraphTypeOK
<1>5. VisitInv'
  <2> SUFFICES ASSUME NEW w \in Visiting'
               PROVE  /\ w \in Visiting /\ w \in Visits /\ w # v
                      /\ OpenedAt(visits[w])'
    BY <1>2 DEF VisitInv, IInv, About, RowOf, Visiting
  <2>1. w \in Visiting /\ w \in Visits /\ w # v /\ visits'[w] = visits[w]
    BY <1>2 DEF Visiting
  <2>2. OpenedAt(visits[w])
    BY <2>1 DEF IInv, VisitInv
  <2>3. /\ edges[On(w)] # Nothing => edges'[On(w)] # Nothing
        /\ On(w) \in Edges /\ edges[On(w)] # Nothing /\ edges[On(w)].status \in Settled =>
              edges'[On(w)].status \in Settled
    <3>1. CASE edges' = edges
      BY <3>1
    <3>2. CASE edges' # edges
      <4>1. /\ visits[v].row \in Edge /\ On(v) \in Edges /\ Doing(v) \in OnEdge
            /\ edges' = [edges EXCEPT ![On(v)] = visits[v].row]
            /\ Doing(v) \in Reviews => visits[v].row.status \in Settled
        BY <3>2, Commits
      <4>2. Doing(v) \notin Reviews => edges[On(v)] = Nothing
        BY <1>3, <4>1 DEF IInv, FreshInv, OnEdge
      <4> QED
        BY <4>1, <4>2, NothingIsNone DEF IInv, GraphTypeOK
    <3> QED
      BY <3>1, <3>2
  <2> QED
    BY <2>1, <2>2, <2>3 DEF OpenedAt, On
<1>6. FreshInv'
  <2> SUFFICES ASSUME NEW w \in Visiting', Doing(w)' = "CREATE_RELATIONSHIP"
               PROVE  /\ edges'[On(w)'] = Nothing
                      /\ \A x \in Visiting' \ {w} :
                            Doing(x)' = "CREATE_RELATIONSHIP" => On(x)' # On(w)'
    BY DEF FreshInv
  <2>1. \A x \in Visiting' : x \in Visiting \ {v} /\ Doing(x)' = Doing(x) /\ On(x)' = On(x)
    BY <1>2 DEF Doing, On
  <2>2. On(w) \in Edges /\ edges[On(w)] = Nothing
    BY <2>1 DEF IInv, FreshInv, VisitInv, About, OnEdge, Doing, On
  <2>3. edges'[On(w)] = Nothing
    <3>1. CASE edges' = edges
      BY <2>2, <3>1
    <3>2. CASE edges' # edges
      <4>1. /\ Doing(v) \in OnEdge /\ edges' = [edges EXCEPT ![On(v)] = visits[v].row]
            /\ Doing(v) \in Reviews => edges[On(v)] # Nothing
        BY <3>2, Commits
      <4>2. On(v) # On(w)
        BY <1>3, <2>1, <2>2, <4>1 DEF IInv, FreshInv, OnEdge
      <4> QED
        BY <2>2, <4>1, <4>2 DEF IInv, GraphTypeOK
    <3> QED
      BY <3>1, <3>2
  <2> QED
    BY <2>1, <2>3 DEF IInv, FreshInv
<1> QED
  BY <1>4, <1>5, <1>6, LogGrows DEF IInv

LEMMA InitIInv == GraphInit => IInv
<1> SUFFICES ASSUME GraphInit PROVE IInv
  OBVIOUS
<1>1. Visiting = {}
  BY DEF GraphInit, Visiting
<1> QED
  BY <1>1 DEF GraphInit, IInv, GraphTypeOK, VisitInv, FreshInv, AuditExplainsStatus

\* Whatever an analyst asks is about an id of the right kind.
LEMMA AskStep ==
    ASSUME IInv, NEW v \in Visits, NEW by \in Analysts, Asks(v, by)
    PROVE  IInv'
<1>1. CASE \E action \in Lists : Open(v, by, action, Nothing)
  <2>1. PICK action \in Lists : Open(v, by, action, Nothing)
    BY <1>1
  <2>2. action \in AuditAction /\ action \notin OnEdge \cup {"CREATE_ENTITY"}
        /\ Nothing \in Target /\ Nothing \notin Edges
    BY NothingIsNone DEF AuditAction, Lists, OnEdge, Reviews, Target
  <2> QED
    BY <2>1, <2>2, OpenStep DEF OnEdge
<1>2. CASE \E action \in Lookups, id \in Entities : Open(v, by, action, id)
  <2>1. PICK action \in Lookups, id \in Entities : Open(v, by, action, id)
    BY <1>2
  <2>2. action \in AuditAction /\ action \notin OnEdge /\ id \in Target /\ id \notin Edges
    BY RowIds DEF AuditAction, Lookups, OnEdge, Reviews, Target
  <2> QED
    BY <2>1, <2>2, OpenStep DEF OnEdge
<1>3. CASE \E action \in Reviews, id \in Edges : Open(v, by, action, id)
  <2>1. PICK action \in Reviews, id \in Edges : Open(v, by, action, id)
    BY <1>3
  <2>2. action \in AuditAction /\ action \in OnEdge /\ id \in Target
        /\ action \notin {"CREATE_ENTITY", "CREATE_RELATIONSHIP"}
    BY DEF AuditAction, OnEdge, Reviews, Target
  <2> QED
    BY <2>1, <2>2, OpenStep
<1>4. CASE \E id \in Entities : Fresh(id) /\ Open(v, by, "CREATE_ENTITY", id)
  <2>1. PICK id \in Entities : Open(v, by, "CREATE_ENTITY", id)
    BY <1>4
  <2>2. "CREATE_ENTITY" \in AuditAction /\ "CREATE_ENTITY" \notin OnEdge
        /\ id \in Target /\ id \notin Edges
    BY RowIds DEF AuditAction, Creates, OnEdge, Reviews, Target
  <2> QED
    BY <2>1, <2>2, OpenStep
<1>5. CASE \E id \in Edges : Fresh(id) /\ Open(v, by, "CREATE_RELATIONSHIP", id)
  <2>1. PICK id \in Edges : Fresh(id) /\ Open(v, by, "CREATE_RELATIONSHIP", id)
    BY <1>5
  <2>2. "CREATE_RELATIONSHIP" \in AuditAction /\ "CREATE_RELATIONSHIP" \in OnEdge
        /\ id \in Target
    BY DEF AuditAction, Creates, OnEdge, Target
  <2> QED
    BY <2>1, <2>2, OpenStep
<1> QED
  BY <1>1, <1>2, <1>3, <1>4, <1>5 DEF Asks

\* Every step keeps the invariant.
LEMMA NextIInv == IInv /\ [GraphNext]_graphVars => IInv'
<1> SUFFICES ASSUME IInv, [GraphNext]_graphVars PROVE IInv'
  OBVIOUS
<1>1. CASE UNCHANGED graphVars
  BY <1>1 DEF graphVars, IInv, GraphTypeOK, VisitInv, FreshInv, AuditExplainsStatus,
     Visiting, About, RowOf, OpenedAt, Doing, On
<1>2. CASE GraphNext
  <2>1. PICK v \in Visits :
          \/ \E by \in Analysts : Asks(v, by)
          \/ List(v) \/ LookUp(v) \/ Create(v) \/ Review(v) \/ Judge(v) \/ Record(v)
          \/ \E arrives \in BOOLEAN : Deliver(v, arrives)
          \/ RollBack(v)
    BY <1>2 DEF GraphNext
  <2> QED
    BY <2>1, AskStep, ReadingStep, CreateStep, ReviewStep, JudgeStep, RecordStep,
       DeliverStep, RollBackStep
<1> QED
  BY <1>1, <1>2

LEMMA IInvHolds == GraphSpec => []IInv
<1> QED
  BY InitIInv, NextIInv, PTL DEF GraphSpec

\* Rows, records, answers and open requests have their types.
THEOREM GraphTypes == GraphSpec => []GraphTypeOK
<1>1. IInv => GraphTypeOK
  BY DEF IInv
<1> QED
  BY <1>1, IInvHolds, PTL

\* The last record of the audit log about an edge is the action that gave it its
\* status, whichever confirm and reject raced or were rolled back.
THEOREM LogExplainsEdges == GraphSpec => []AuditExplainsStatus
<1>1. IInv => AuditExplainsStatus
  BY DEF IInv
<1> QED
  BY <1>1, IInvHolds, PTL

\* The verdict on a settled edge is changed only by a confirm or reject that was
\* under way before it was settled.
THEOREM SettledEdges == GraphSpec => SettledStaysSettled
<1>1. ASSUME IInv, [GraphNext]_graphVars, NEW e \in Edges,
             edges[e] # Nothing, edges[e].status \in Settled, edges'[e] # edges[e]
      PROVE  \E v \in Visiting : On(v) = e /\ visits[v].opened \notin Settled
  <2>1. PICK v \in Visits, arrives \in BOOLEAN : Deliver(v, arrives)
    BY <1>1, Zenon DEF GraphNext, Asks, graphVars, Open, List, LookUp, Create, Review, Judge,
       Record, RollBack
  <2>2. /\ v \in Visiting /\ On(v) \in Edges /\ Doing(v) \in OnEdge
        /\ edges' = [edges EXCEPT ![On(v)] = visits[v].row]
        /\ Doing(v) \in Reviews => visits[v].opened \notin Settled
    BY <1>1, <2>1, Commits
  <2>3. On(v) = e
    BY <1>1, <2>2 DEF IInv, GraphTypeOK
  <2>4. Doing(v) \in Reviews
    BY <1>1, <2>2, <2>3 DEF IInv, FreshInv, OnEdge
  <2> QED
    BY <2>2, <2>3, <2>4
<1>2. IInv /\ [GraphNext]_graphVars =>
        [\A e \in Edges :
           (edges[e] # Nothing /\ edges[e].status \in Settled /\ edges'[e] # edges[e]) =>
              \E v \in Visiting : On(v) = e /\ visits[v].opened \notin Settled]_graphVars
  BY <1>1
<1> QED
  BY <1>2, IInvHolds, PTL DEF GraphSpec, SettledStaysSettled

------------------------------------------------------------------------------
Times(x, list) == Cardinality({i \in DOMAIN list : list[i] = x})

\* One more entry is counted once, where it is the one asked for.
LEMMA TimesAppend ==
    ASSUME NEW list \in Seq(AuditLogEntry), NEW x, NEW y \in AuditLogEntry
    PROVE  /\ Times(x, list) \in Nat
           /\ Times(x, Append(list, y)) = Times(x, list) + IF x = y THEN 1 ELSE 0
<1> DEFINE n == Len(list)
           at == {i \in DOMAIN list : list[i] = x}
           longer == Append(list, y)
<1>1. n \in Nat /\ DOMAIN list = 1..n /\ DOMAIN longer = 1..(n + 1)
      /\ longer[n + 1] = y /\ \A i \in 1..n : longer[i] = list[i]
  OBVIOUS
<1>2. IsFiniteSet(at) /\ Cardinality(at) \in Nat /\ n + 1 \notin at
  <2>1. IsFiniteSet(1..n)
    <3>1. 1 \in Int /\ n \in Int
      BY <1>1
    <3> HIDE DEF n
    <3> QED
      BY <3>1, FS_Interval
  <2>2. at \subseteq 1..n
    BY <1>1
  <2>3. n + 1 \notin 1..n
    BY <1>1
  <2> QED
    BY <2>1, <2>2, <2>3, FS_Subset, FS_CardinalityType
<1>3. {i \in DOMAIN longer : longer[i] = x} = IF x = y THEN at \cup {n + 1} ELSE at
  BY <1>1
<1>4. Cardinality(at \cup {n + 1}) = Cardinality(at) + 1
  BY <1>2, FS_AddElement
<1>5. Times(x, list) = Cardinality(at)
      /\ Times(x, longer) = Cardinality({i \in DOMAIN longer : longer[i] = x})
  BY DEF Times
<1>6. CASE x = y
  BY <1>2, <1>3, <1>4, <1>5, <1>6
<1>7. CASE x # y
  <2>1. Times(x, longer) = Cardinality(at)
    BY <1>3, <1>5, <1>7
  <2> HIDE DEF at, longer
  <2>2. Times(x, longer) = Times(x, list) /\ Times(x, list) \in Nat
    BY <1>2, <1>5, <2>1
  <2> QED
    BY <1>7, <2>2 DEF longer
<1> QED
  BY <1>6, <1>7

TimesInv == \A x \in AuditLogEntry : Times(x, shown) <= Times(x, auditLog)

\* Everything an analyst was shown, with the number of rows returned, has a
\* record of its own in the audit log, although an answer can be lost after the
\* commit and requests are rolled back.
THEOREM AccessAudited == GraphSpec => []EveryAccessAudited
<1>1. GraphInit => TimesInv
  <2> SUFFICES ASSUME GraphInit, NEW x \in AuditLogEntry
               PROVE  Times(x, shown) <= Times(x, auditLog)
    BY DEF TimesInv
  <2>1. shown = <<>> /\ auditLog = <<>> /\ <<>> \in Seq(AuditLogEntry)
    BY DEF GraphInit
  <2>2. Times(x, <<>>) \in Nat
    BY <2>1, TimesAppend
  <2> QED
    BY <2>1, <2>2
<1>2. IInv /\ TimesInv /\ [GraphNext]_graphVars => TimesInv'
  <2> SUFFICES ASSUME IInv, TimesInv, [GraphNext]_graphVars, NEW x \in AuditLogEntry
               PROVE  Times(x, shown') <= Times(x, auditLog')
    BY DEF TimesInv, Times
  <2>1. CASE UNCHANGED <<auditLog, shown>>
    BY <2>1 DEF TimesInv
  <2>2. CASE ~UNCHANGED <<auditLog, shown>>
    <3>1. PICK v \in Visits, arrives \in BOOLEAN : Deliver(v, arrives)
      BY <2>2, Zenon DEF GraphNext, Asks, graphVars, Open, List, LookUp, Create, Review,
         Judge, Record, Recorded, RollBack
    <3>2. /\ visits[v].entry \in AuditLogEntry
          /\ auditLog \in Seq(AuditLogEntry) /\ shown \in Seq(AuditLogEntry)
      BY <3>1, Commits DEF Visit, IInv, GraphTypeOK
    <3>3. /\ auditLog' = Append(auditLog, visits[v].entry)
          /\ shown' = Append(shown, visits[v].entry) \/ shown' = shown
      BY <3>1 DEF Deliver, Logged
    <3> DEFINE one == IF x = visits[v].entry THEN 1 ELSE 0
    <3>4. /\ Times(x, shown) \in Nat /\ Times(x, auditLog) \in Nat
          /\ Times(x, auditLog') = Times(x, auditLog) + one
          /\ Times(x, shown') \in {Times(x, shown), Times(x, shown) + one}
      BY <3>2, <3>3, TimesAppend
    <3>5. Times(x, shown) <= Times(x, auditLog)
      BY DEF TimesInv
    <3> QED
      BY <3>4, <3>5
  <2> QED
    BY <2>1, <2>2
<1>3. IInv /\ TimesInv => EveryAccessAudited
  BY DEF IInv, GraphTypeOK, TimesInv, Times, EveryAccessAudited
<1> QED
  BY <1>1, <1>2, <1>3, IInvHolds, PTL DEF GraphSpec

------------------------------------------------------------------------------
\* The refinement of AuditedGraph.

\* What request q holds stands until it commits: its nodes are there, an edge
\* keeps its ends, and no more was counted than there is.
Stands(q) ==
    LET e == q.entry IN
    /\ e.action \in Lists => e.target = Nothing
    /\ e.action \in Lookups \cup {"CREATE_ENTITY"} => e.target \in Entities
    /\ q.pc \in {"read", "write"} \/ e.action \notin Lists \cup {"VIEW_GRAPH"} => e.count = 0
    /\ q.pc \in {"record", "commit"} =>
          /\ e.action \in Lists => e.count <= Cardinality(entities)
          /\ e.action \in Lookups => e.target \in entities
          /\ e.action = "VIEW_GRAPH" => e.count <= Cardinality(Audited!EdgesOf(e.target))
          /\ e.action = "CREATE_RELATIONSHIP" => {q.row.from, q.row.to} \subseteq entities
          /\ e.action \in Reviews =>
                q.row.from = edges[e.target].from /\ q.row.to = edges[e.target].to

StandInv == \A v \in Visiting : Stands(visits[v])

\* An id that is being given to a node has no row and is given once.
NodeInv ==
    \A v \in Visiting :
        Doing(v) = "CREATE_ENTITY" =>
            /\ On(v) \notin entities
            /\ \A w \in Visiting \ {v} : Doing(w) = "CREATE_ENTITY" => On(w) # On(v)

PInv == IInv /\ StandInv /\ NodeInv

\* Rows are only added, and edges keep their ends.
Grows ==
    /\ entities \subseteq entities'
    /\ \A e \in Edges : edges[e] # Nothing =>
          edges'[e] # Nothing /\ edges'[e].from = edges[e].from /\ edges'[e].to = edges[e].to

\* More rows are no fewer to count.
LEMMA CountsGrow ==
    ASSUME IInv, IInv', Grows
    PROVE  /\ Cardinality(entities) \in Nat /\ Cardinality(entities') \in Nat
           /\ Cardinality(entities) <= Cardinality(entities')
           /\ \A n : /\ Cardinality(Audited!EdgesOf(n)) \in Nat
                     /\ Cardinality(Audited!EdgesOf(n)') \in Nat
                     /\ Cardinality(Audited!EdgesOf(n)) <= Cardinality(Audited!EdgesOf(n)')
<1>1. IsFiniteSet(entities') /\ entities \subseteq entities'
  BY RowIds, FS_Subset DEF IInv, GraphTypeOK, Grows
<1>2. ASSUME NEW n
      PROVE IsFiniteSet(Audited!EdgesOf(n)') /\ Audited!EdgesOf(n) \subseteq Audited!EdgesOf(n)'
  <2>1. Audited!EdgesOf(n)' \subseteq Edges
    BY DEF Audited!EdgesOf
  <2>2. Audited!EdgesOf(n) \subseteq Audited!EdgesOf(n)'
    BY DEF Audited!EdgesOf, Grows
  <2> QED
    BY <2>1, <2>2, RowIds, FS_Subset
<1> QED
  BY <1>1, <1>2, FS_Subset, FS_CardinalityType

\* While rows are only added, what a request holds stands.
LEMMA StandsOn ==
    ASSUME IInv, IInv', Grows, NEW v \in Visiting, v \in Visiting',
           visits'[v] = visits[v], Stands(visits[v])
    PROVE  Stands(visits[v])'
<1> DEFINE q == visits[v]
<1>1. q \in Visit /\ RowOf(q) /\ OpenedAt(q) /\ About(q)
  BY OpenVisit DEF IInv, VisitInv
<1>2. q.entry.count \in Nat
  BY <1>1 DEF Visit, AuditLogEntry
<1>3. q.pc \in {"record", "commit"} /\ q.entry.action \in Lists =>
         q.entry.count <= Cardinality(entities')
  BY <1>2, CountsGrow DEF Stands
<1>4. q.pc \in {"record", "commit"} /\ q.entry.action = "VIEW_GRAPH" =>
         q.entry.count <= Cardinality(Audited!EdgesOf(q.entry.target)')
  BY <1>2, CountsGrow DEF Stands
<1>5. q.pc \in {"record", "commit"} /\ q.entry.action \in Reviews =>
         q.row.from = edges'[q.entry.target].from /\ q.row.to = edges'[q.entry.target].to
  BY <1>1 DEF Stands, Grows, OpenedAt, About, OnEdge
<1> QED
  BY <1>3, <1>4, <1>5 DEF Stands, Grows

\* Where no row changes, rows are only added.
LEMMA NothingGrows == ASSUME UNCHANGED <<entities, edges>> PROVE Grows
  BY DEF Grows

\* A request that goes on to x, which stands.
LEMMA HoldsOn ==
    ASSUME PInv, IInv', NEW v \in Visiting, NEW x \in Visit,
           visits' = [visits EXCEPT ![v] = x], UNCHANGED <<entities, edges>>,
           x.entry.action = Doing(v), x.entry.target = On(v), Stands(x)
    PROVE  StandInv' /\ NodeInv'
<1>1. /\ visits'[v] = x /\ \A w \in Visits \ {v} : visits'[w] = visits[w]
      /\ v \in Visits /\ x # NoVisit
  BY DEF PInv, IInv, GraphTypeOK, Visiting, Visit, NoVisit
<1>2. Visiting' = Visiting
  BY <1>1 DEF Visiting
<1>3. \A w \in Visiting : Doing(w)' = Doing(w) /\ On(w)' = On(w)
  BY <1>1 DEF Doing, On, Visiting
<1>4. StandInv'
  <2> SUFFICES ASSUME NEW w \in Visiting PROVE Stands(visits[w])'
    BY <1>2 DEF StandInv
  <2>1. CASE w = v
    <3>1. \A n : Audited!EdgesOf(n)' = Audited!EdgesOf(n)
      BY DEF Audited!EdgesOf
    <3> QED
      BY <2>1, <1>1, <3>1 DEF Stands
  <2>2. CASE w # v
    <3>1. visits'[w] = visits[w] /\ w \in Visiting'
      BY <2>2, <1>1, <1>2 DEF Visiting
    <3> QED
      BY <3>1, NothingGrows, StandsOn DEF PInv, StandInv
  <2> QED
    BY <2>1, <2>2
<1>5. NodeInv'
  BY <1>2, <1>3 DEF PInv, NodeInv
<1> QED
  BY <1>4, <1>5

\* A request that opens holds nothing, and gives no node's id.
LEMMA OpenStands ==
    ASSUME PInv, IInv', NEW v \in Visits, NEW by \in Analysts, Asks(v, by)
    PROVE  StandInv' /\ NodeInv'
<1>1. PICK action \in AuditAction, target \in Target :
        /\ Open(v, by, action, target)
        /\ action \in Lists => target = Nothing
        /\ action \in Lookups \cup {"CREATE_ENTITY"} => target \in Entities
        /\ action = "CREATE_ENTITY" => Fresh(target)
  BY DEF Asks, AuditAction, Lists, Lookups, Reviews, Creates, Target
<1>2. /\ visits[v] = NoVisit /\ v \notin Visiting
      /\ UNCHANGED <<entities, edges>>
      /\ \A w \in Visits \ {v} : visits'[w] = visits[w]
      /\ visits'[v].pc = "read" /\ Doing(v)' = action /\ On(v)' = target
      /\ visits'[v].entry.count = 0
  BY <1>1 DEF Open, Doing, On, Visiting, PInv, IInv, GraphTypeOK
<1>3. \A w \in Visiting' \ {v} : w \in Visiting /\ visits'[w] = visits[w]
  BY <1>2 DEF Visiting
<1>4. StandInv'
  <2> SUFFICES ASSUME NEW w \in Visiting' PROVE Stands(visits[w])'
    BY DEF StandInv
  <2>1. CASE w = v
    BY <2>1, <1>1, <1>2 DEF Stands, Doing, On
  <2>2. CASE w # v
    BY <2>2, <1>2, <1>3, NothingGrows, StandsOn DEF PInv, StandInv
  <2> QED
    BY <2>1, <2>2
<1>5. \A w \in Visiting' \ {v} : Doing(w)' = Doing(w) /\ On(w)' = On(w)
  BY <1>3 DEF Doing, On
<1>6. action = "CREATE_ENTITY" =>
         /\ target \notin entities
         /\ \A w \in Visiting : Doing(w) = "CREATE_ENTITY" => On(w) # target
  BY <1>1 DEF Fresh, Creates
<1>7. NodeInv'
  BY <1>2, <1>3, <1>5, <1>6 DEF PInv, NodeInv
<1> QED
  BY <1>4, <1>7

\* What a list or a lookup counts is there.
LEMMA ReadingStands ==
    ASSUME PInv, IInv', NEW v \in Visits, List(v) \/ LookUp(v)
    PROVE  StandInv' /\ NodeInv'
<1>1. v \in Visiting /\ visits[v] \in Visit /\ Doing(v) \in Lists \cup Lookups
      /\ Stands(visits[v])
  BY OpenVisit DEF List, LookUp, At, PInv, IInv, StandInv
<1>2. PICK n \in Nat :
        /\ visits' = [visits EXCEPT ![v].pc = "record", ![v].entry.count = n]
        /\ UNCHANGED <<entities, edges>>
        /\ Doing(v) \in Lists => n <= Cardinality(entities)
        /\ Doing(v) \in Lookups => On(v) \in entities
        /\ Doing(v) = "VIEW_GRAPH" => n <= Cardinality(Audited!EdgesOf(On(v)))
        /\ Doing(v) = "VIEW_ENTITY" => n = 0
  <2>1. CASE List(v)
    <3>1. PICK n \in 0..Cardinality(entities) :
             visits' = [visits EXCEPT ![v].pc = "record", ![v].entry.count = n]
      BY <2>1, Zenon DEF List
    <3>2. Cardinality(entities) \in Nat
      BY RowIds, FS_Subset, FS_CardinalityType DEF PInv, IInv, GraphTypeOK
    <3>3. n \in Nat /\ n <= Cardinality(entities)
      BY <3>1, <3>2
    <3>4. Doing(v) \in Lists /\ Doing(v) \notin Lookups /\ UNCHANGED <<entities, edges>>
      BY <2>1 DEF List, Lists, Lookups
    <3> QED
      BY <3>1, <3>3, <3>4 DEF Lookups
  <2>2. CASE LookUp(v)
    <3> DEFINE n == IF Doing(v) = "VIEW_ENTITY" THEN 0 ELSE Cardinality(Audited!EdgesOf(On(v)))
    <3>1. Cardinality(Audited!EdgesOf(On(v))) \in Nat
      BY RowIds, FS_Subset, FS_CardinalityType DEF Audited!EdgesOf
    <3>2. n \in Nat /\ (Doing(v) = "VIEW_GRAPH" => n <= Cardinality(Audited!EdgesOf(On(v))))
      BY <3>1
    <3>3. visits' = [visits EXCEPT ![v].pc = "record", ![v].entry.count = n]
      BY <2>2 DEF LookUp, Audited!EdgesOf
    <3>4. /\ Doing(v) \in Lookups /\ Doing(v) \notin Lists /\ On(v) \in entities
          /\ UNCHANGED <<entities, edges>> /\ (Doing(v) = "VIEW_ENTITY" => n = 0)
      BY <2>2 DEF LookUp, Lists, Lookups
    <3> HIDE DEF n
    <3> QED
      BY <3>2, <3>3, <3>4
  <2> QED
    BY <2>1, <2>2
<1> DEFINE x == [visits[v] EXCEPT !.pc = "record", !.entry.count = n]
<1>3. x \in Visit
  BY <1>1 DEF Visit, AuditLogEntry
<1>4. visits' = [visits EXCEPT ![v] = x]
  <2>1. visits \in [Visits -> Visit \cup {NoVisit}]
    BY DEF PInv, IInv, GraphTypeOK
  <2> QED
    BY <1>1, <1>2, <2>1
<1>5. /\ x.entry.action = Doing(v) /\ x.entry.target = On(v) /\ x.pc = "record"
      /\ x.entry.count = n
  BY <1>1 DEF Visit, AuditLogEntry, Doing, On
<1> HIDE DEF x
<1>6. Stands(x)
  BY <1>1, <1>2, <1>5 DEF Stands, Doing, On, Lists, Lookups, Reviews
<1> QED
  BY <1>1, <1>2, <1>3, <1>4, <1>5, <1>6, HoldsOn

\* A new edge joins nodes that are there.
LEMMA CreateStands ==
    ASSUME PInv, IInv', NEW v \in Visits, Create(v)
    PROVE  StandInv' /\ NodeInv'
<1>1. v \in Visiting /\ visits[v] \in Visit /\ Doing(v) \in Creates /\ Stands(visits[v])
      /\ UNCHANGED <<entities, edges>> /\ visits[v].pc = "read"
  BY OpenVisit DEF Create, At, PInv, IInv, StandInv
<1>2. visits \in [Visits -> Visit \cup {NoVisit}] /\ entities \subseteq Entities
  BY DEF PInv, IInv, GraphTypeOK
<1>3. PICK row \in Edge \cup {Nothing} :
        /\ visits' = [visits EXCEPT ![v].pc = "record", ![v].row = row]
        /\ Doing(v) = "CREATE_RELATIONSHIP" => {row.from, row.to} \subseteq entities
  <2>1. CASE Doing(v) = "CREATE_ENTITY" /\ Goes(v, "record")
    <3>1. visits[v].row \in Edge \cup {Nothing}
      BY <1>1 DEF Visit
    <3>2. visits' = [visits EXCEPT ![v].pc = "record", ![v].row = visits[v].row]
      BY <1>1, <1>2, <2>1 DEF Goes, Visit
    <3> QED
      BY <2>1, <3>1, <3>2
  <2>2. CASE \E from, to \in entities :
               visits' = [visits EXCEPT ![v].pc = "record",
                     ![v].row = [status |-> "SUGGESTED", from |-> from, to |-> to]]
    <3>1. PICK from \in entities, to \in entities :
               visits' = [visits EXCEPT ![v].pc = "record",
                     ![v].row = [status |-> "SUGGESTED", from |-> from, to |-> to]]
      BY <2>2
    <3> DEFINE row == [status |-> "SUGGESTED", from |-> from, to |-> to]
    <3>2. row \in Edge /\ {row.from, row.to} \subseteq entities
      BY <1>2 DEF Edge
    <3> HIDE DEF row
    <3> QED
      BY <3>1, <3>2 DEF row
  <2> QED
    BY <2>1, <2>2 DEF Create, NodesFound
<1> DEFINE x == [visits[v] EXCEPT !.pc = "record", !.row = row]
<1>4. x \in Visit
  BY <1>1 DEF Visit
<1>5. visits' = [visits EXCEPT ![v] = x]
  BY <1>1, <1>2, <1>3
<1>6. /\ x.entry = visits[v].entry /\ x.row = row /\ x.pc = "record"
  BY <1>1 DEF Visit
<1> HIDE DEF x
<1>7. Stands(x)
  BY <1>1, <1>3, <1>6 DEF Stands, Doing, Creates, Lists, Lookups, Reviews
<1> QED
  BY <1>1, <1>4, <1>5, <1>6, <1>7, HoldsOn DEF Doing, On

\* The verdict keeps the edge's ends.
LEMMA ReviewStands ==
    ASSUME PInv, IInv', NEW v \in Visits, Review(v) \/ Judge(v)
    PROVE  StandInv' /\ NodeInv'
<1>1. v \in Visiting /\ visits[v] \in Visit /\ Doing(v) \in Reviews /\ Stands(visits[v])
      /\ UNCHANGED <<entities, edges>> /\ visits[v].pc \in {"read", "write"}
      /\ On(v) \in Edges
  BY OpenVisit DEF Review, Judge, At, PInv, IInv, StandInv, VisitInv, RowOf, About, OnEdge,
     Doing, On
<1>2. visits \in [Visits -> Visit \cup {NoVisit}] /\ edges \in [Edges -> Edge \cup {Nothing}]
  BY DEF PInv, IInv, GraphTypeOK
<1>3. CASE Review(v)
  <2> DEFINE x == [visits[v] EXCEPT !.pc = "write"]
  <2>1. x \in Visit /\ visits' = [visits EXCEPT ![v] = x]
        /\ x.entry = visits[v].entry /\ x.pc = "write"
    BY <1>1, <1>2, <1>3 DEF Visit, Review, Goes
  <2> HIDE DEF x
  <2>2. Stands(x)
    BY <1>1, <2>1 DEF Stands, Doing, Lists, Lookups, Reviews
  <2> QED
    BY <1>1, <2>1, <2>2, HoldsOn DEF Doing, On
<1>4. CASE Judge(v)
  <2> DEFINE row == [edges[On(v)] EXCEPT !.status = Verdict[Doing(v)]]
             x == [visits[v] EXCEPT !.pc = "record", !.row = row]
  <2>1. edges[On(v)] # Nothing
    BY <1>1, <1>4 DEF Judge, At, PInv, IInv, VisitInv, OpenedAt, Doing, On
  <2>2. row \in Edge /\ row.from = edges[On(v)].from /\ row.to = edges[On(v)].to
    BY <1>1, <1>2, <2>1 DEF Edge, Verdict, Settled
  <2> HIDE DEF row
  <2>3. x \in Visit /\ x.entry = visits[v].entry /\ x.pc = "record" /\ x.row = row
    BY <1>1, <2>2 DEF Visit
  <2>4. visits' = [visits EXCEPT ![v] = x]
    BY <1>1, <1>2, <1>4 DEF Judge, row
  <2> HIDE DEF x
  <2>5. Stands(x)
    BY <1>1, <2>2, <2>3 DEF Stands, Doing, On, Lists, Lookups, Reviews
  <2> QED
    BY <1>1, <2>3, <2>4, <2>5, HoldsOn DEF Doing, On
<1> QED
  BY <1>3, <1>4

\* The record is written: what the request holds is the same.
LEMMA RecordStands ==
    ASSUME PInv, IInv', NEW v \in Visits, Record(v)
    PROVE  StandInv' /\ NodeInv'
<1>1. v \in Visiting /\ visits[v] \in Visit /\ visits[v].pc = "record" /\ Stands(visits[v])
      /\ UNCHANGED <<entities, edges>>
  BY OpenVisit DEF Record, At, PInv, IInv, StandInv
<1> DEFINE x == [visits[v] EXCEPT !.pc = "commit"]
<1>2. x \in Visit /\ x.entry = visits[v].entry /\ x.pc = "commit" /\ x.row = visits[v].row
  BY <1>1 DEF Visit
<1>3. visits' = [visits EXCEPT ![v] = x]
  BY <1>1 DEF PInv, IInv, GraphTypeOK, Record, Recorded, Goes
<1> HIDE DEF x
<1>4. Stands(x)
  BY <1>1, <1>2 DEF Stands
<1> QED
  BY <1>1, <1>2, <1>3, <1>4, HoldsOn DEF Doing, On

\* A commit adds a row, or settles an edge and keeps its ends.
LEMMA CommitGrows ==
    ASSUME PInv, NEW v \in Visits, NEW arrives \in BOOLEAN, Deliver(v, arrives)
    PROVE  Grows
<1>1. entities \subseteq entities'
  BY DEF Deliver
<1>2. CASE edges' = edges
  BY <1>1, <1>2 DEF Grows
<1>3. CASE edges' # edges
  <2>1. /\ v \in Visiting /\ visits[v].pc = "commit" /\ visits[v].row \in Edge
        /\ On(v) \in Edges /\ Doing(v) \in OnEdge
        /\ edges' = [edges EXCEPT ![On(v)] = visits[v].row]
    BY <1>3, Commits DEF PInv
  <2>2. edges \in [Edges -> Edge \cup {Nothing}]
    BY DEF PInv, IInv, GraphTypeOK
  <2>3. visits[v].row # Nothing
    BY <2>1, NothingIsNone
  <2>4. edges[On(v)] # Nothing =>
           visits[v].row.from = edges[On(v)].from /\ visits[v].row.to = edges[On(v)].to
    <3>1. CASE Doing(v) = "CREATE_RELATIONSHIP"
      BY <2>1, <3>1 DEF PInv, IInv, FreshInv
    <3>2. CASE Doing(v) \in Reviews
      BY <2>1, <3>2 DEF PInv, StandInv, Stands, Doing, On
    <3> QED
      BY <2>1, <3>1, <3>2 DEF OnEdge
  <2> QED
    BY <1>1, <2>1, <2>2, <2>3, <2>4 DEF Grows
<1> QED
  BY <1>2, <1>3

\* A request that ends leaves what the others hold standing.
LEMMA EndStands ==
    ASSUME PInv, IInv', NEW v \in Visits,
           RollBack(v) \/ \E arrives \in BOOLEAN : Deliver(v, arrives)
    PROVE  StandInv' /\ NodeInv'
<1>1. /\ visits'[v] = NoVisit /\ \A w \in Visits \ {v} : visits'[w] = visits[w]
  BY DEF PInv, IInv, GraphTypeOK, RollBack, Deliver
<1>2. Grows
  BY CommitGrows, NothingGrows DEF RollBack
<1>3. \A w \in Visiting' : w # v /\ w \in Visiting /\ visits'[w] = visits[w]
  BY <1>1 DEF Visiting
<1>4. StandInv'
  BY <1>2, <1>3, StandsOn DEF PInv, StandInv
<1>5. entities' = entities \/ (/\ v \in Visiting /\ Doing(v) = "CREATE_ENTITY"
                             /\ entities' = entities \cup {On(v)})
  BY DEF RollBack, Deliver, At
<1>6. \A w \in Visiting' : Doing(w)' = Doing(w) /\ On(w)' = On(w)
  BY <1>3 DEF Doing, On
<1>7. NodeInv'
  BY <1>3, <1>5, <1>6 DEF PInv, NodeInv
<1> QED
  BY <1>4, <1>7

\* Every step keeps what open requests hold.
LEMMA PInvHolds == GraphSpec => []PInv
<1>1. GraphInit => StandInv /\ NodeInv
  BY DEF GraphInit, StandInv, NodeInv, Visiting
<1>2. PInv /\ IInv' /\ [GraphNext]_graphVars => PInv'
  <2> SUFFICES ASSUME PInv, IInv', [GraphNext]_graphVars PROVE StandInv' /\ NodeInv'
    BY DEF PInv
  <2>1. CASE UNCHANGED graphVars
    <3>1. Visiting' = Visiting /\ visits' = visits
      BY <2>1 DEF graphVars, Visiting
    <3>2. Grows
      BY <2>1, NothingGrows DEF graphVars
    <3>3. StandInv'
      BY <3>1, <3>2, StandsOn DEF PInv, StandInv
    <3> QED
      BY <2>1, <3>1, <3>3 DEF graphVars, PInv, NodeInv, Doing, On
  <2>2. CASE GraphNext
    BY <2>2, OpenStands, ReadingStands, CreateStands, ReviewStands, RecordStands, EndStands
       DEF GraphNext
  <2> QED
    BY <2>1, <2>2
<1> QED
  BY <1>1, <1>2, IInvHolds, InitIInv, PTL DEF GraphSpec, PInv

------------------------------------------------------------------------------
\* The count of the promise is the count of the graph.
LEMMA SameCount == ASSUME NEW S PROVE Audited!Cardinality(S) = Cardinality(S)
  BY DEF Audited!Cardinality, Cardinality

\* A commit is one step of the promise.
LEMMA CommitPromised ==
    ASSUME PInv, NEW v \in Visits, NEW arrives \in BOOLEAN, Deliver(v, arrives)
    PROVE  Audited!Next
<1> DEFINE q == visits[v]
           by == q.entry.by
<1>1. v \in Visiting /\ q \in Visit /\ q.pc = "commit" /\ Stands(q) /\ About(q) /\ RowOf(q)
  BY Commits DEF PInv, StandInv, IInv, VisitInv
<1>2. q.entry = [by |-> by, action |-> Doing(v), target |-> On(v), count |-> q.entry.count]
      /\ by \in Analysts /\ q.entry.count \in Nat /\ Doing(v) \in AuditAction
  BY <1>1 DEF Visit, AuditLogEntry, Doing, On
<1>3. auditLog' = Append(auditLog, q.entry) /\ shown' \in {shown, Append(shown, q.entry)}
  BY DEF Deliver, Logged
<1>4. Audited!Does(by, Doing(v), On(v), q.entry.count)
  BY <1>2, <1>3 DEF Audited!Does
<1>5. edges \in [Edges -> Edge \cup {Nothing}]
  BY DEF PInv, IInv, GraphTypeOK
<1>6. Doing(v) \notin OnEdge => edges' = edges
  BY Commits DEF PInv
<1>7. Doing(v) \in OnEdge => On(v) \in Edges /\ q.row \in Edge
                              /\ edges' = [edges EXCEPT ![On(v)] = q.row]
  BY Commits DEF PInv
<1>8. Doing(v) # "CREATE_ENTITY" => entities' = entities
  BY DEF Deliver
<1> HIDE DEF q, by
<1>9. q.entry.action = Doing(v) /\ q.entry.target = On(v)
  BY DEF q, Doing, On
<1>10. CASE Doing(v) \in Lists
  <2>1. Doing(v) \notin OnEdge /\ Doing(v) # "CREATE_ENTITY"
    BY <1>10 DEF Lists, OnEdge, Reviews
  <2>2. On(v) = Nothing /\ q.entry.count \in 0..Cardinality(entities)
    <3>1. Cardinality(entities) \in Nat
      BY RowIds, FS_Subset, FS_CardinalityType DEF PInv, IInv, GraphTypeOK
    <3> QED
      BY <1>1, <1>2, <1>9, <1>10, <3>1 DEF Stands
  <2>3. Audited!List(by, Doing(v))
    BY <1>4, <1>6, <1>8, <2>1, <2>2, SameCount DEF Audited!List
  <2> QED
    BY <1>2, <1>10, <2>3 DEF Audited!Next, Lists
<1>11. CASE Doing(v) \in Lookups
  <2>1. Doing(v) \notin OnEdge /\ Doing(v) # "CREATE_ENTITY"
    BY <1>11 DEF Lookups, OnEdge, Reviews
  <2>2. On(v) \in entities /\ On(v) \in Entities
    BY <1>1, <1>9, <1>11 DEF Stands
  <2>3. CASE Doing(v) = "VIEW_ENTITY"
    <3>1. q.entry.count = 0
      BY <1>1, <1>9, <2>3 DEF Stands, Lists
    <3>2. Audited!View(by, On(v))
      BY <1>4, <1>6, <1>8, <2>1, <2>2, <2>3, <3>1 DEF Audited!View
    <3> QED
      BY <1>2, <2>2, <3>2 DEF Audited!Next
  <2>4. CASE Doing(v) = "VIEW_GRAPH"
    <3>1. Cardinality(Audited!EdgesOf(On(v))) \in Nat
      BY RowIds, FS_Subset, FS_CardinalityType DEF Audited!EdgesOf
    <3>2. q.entry.count \in 0..Cardinality(Audited!EdgesOf(On(v)))
      BY <1>1, <1>2, <1>9, <2>4, <3>1 DEF Stands
    <3>3. Audited!ViewGraph(by, On(v))
      BY <1>4, <1>6, <1>8, <2>1, <2>2, <2>4, <3>2, SameCount DEF Audited!ViewGraph
    <3> QED
      BY <1>2, <2>2, <3>3 DEF Audited!Next
  <2> QED
    BY <1>11, <2>3, <2>4 DEF Lookups
<1>12. CASE Doing(v) = "CREATE_ENTITY"
  <2>1. q.entry.count = 0 /\ On(v) \in Entities /\ Doing(v) \notin OnEdge
    BY <1>1, <1>9, <1>12 DEF Stands, Lists, OnEdge, Reviews
  <2>2. On(v) \notin entities /\ entities' = entities \cup {On(v)}
    BY <1>1, <1>12 DEF PInv, NodeInv, Deliver
  <2>3. Audited!AddNode(by, On(v))
    BY <1>4, <1>6, <1>12, <2>1, <2>2 DEF Audited!AddNode
  <2> QED
    BY <1>2, <2>1, <2>3 DEF Audited!Next
<1>13. CASE Doing(v) = "CREATE_RELATIONSHIP"
  <2>1. /\ q.entry.count = 0 /\ {q.row.from, q.row.to} \subseteq entities
        /\ q.row.status = "SUGGESTED" /\ Doing(v) \in OnEdge
    BY <1>1, <1>9, <1>13 DEF Stands, RowOf, Lists, OnEdge
  <2>2. edges[On(v)] = Nothing
    BY <1>1, <1>13 DEF PInv, IInv, FreshInv
  <2>3. q.row = [status |-> "SUGGESTED", from |-> q.row.from, to |-> q.row.to]
    BY <1>7, <2>1 DEF Edge
  <2>4. Audited!Suggest(by, On(v), q.row.from, q.row.to)
    BY <1>4, <1>7, <1>8, <1>13, <2>1, <2>2, <2>3 DEF Audited!Suggest
  <2> QED
    BY <1>2, <1>7, <2>1, <2>4 DEF Audited!Next
<1>14. CASE Doing(v) \in Reviews
  <2>1. /\ q.entry.count = 0 /\ Doing(v) \in OnEdge /\ Doing(v) # "CREATE_ENTITY"
        /\ q.row.status = Verdict[Doing(v)]
        /\ q.row.from = edges[On(v)].from /\ q.row.to = edges[On(v)].to
    BY <1>1, <1>9, <1>14 DEF Stands, RowOf, Lists, OnEdge, Reviews
  <2>2. edges[On(v)] # Nothing
    BY <1>14, <2>1, Commits DEF PInv
  <2>3. q.row = [edges[On(v)] EXCEPT !.status = Verdict[Doing(v)]]
    BY <1>5, <1>7, <2>1, <2>2 DEF Edge
  <2>4. edges' = [edges EXCEPT ![On(v)].status = Verdict[Doing(v)]]
    BY <1>5, <1>7, <2>1, <2>3
  <2>5. Audited!Settle(by, On(v), Doing(v), Verdict[Doing(v)])
    BY <1>4, <1>8, <2>1, <2>2, <2>4 DEF Audited!Settle
  <2>6. \/ Doing(v) = "CONFIRM_RELATIONSHIP" /\ Verdict[Doing(v)] = "CONFIRMED"
        \/ Doing(v) = "REJECT_RELATIONSHIP" /\ Verdict[Doing(v)] = "REJECTED"
    BY <1>14 DEF Reviews, Verdict
  <2> QED
    BY <1>2, <1>7, <2>1, <2>5, <2>6 DEF Audited!Next
<1> QED
  BY <1>2, <1>10, <1>11, <1>12, <1>13, <1>14 DEF AuditAction, Creates

\* The graph implements AuditedGraph: every commit is one of its steps, with its
\* record, and nothing else changes what it describes.
THEOREM ImplementsAudited == GraphSpec => ActsAudited
<1>1. GraphInit => Audited!Init
  BY DEF GraphInit, Audited!Init
<1>2. PInv /\ [GraphNext]_graphVars => [Audited!Next]_(Audited!vars)
  <2> SUFFICES ASSUME PInv, [GraphNext]_graphVars
               PROVE  Audited!Next \/ UNCHANGED <<entities, edges, auditLog, shown>>
    BY DEF Audited!vars
  <2>1. CASE \E v \in Visits, arrives \in BOOLEAN : Deliver(v, arrives)
    BY <2>1, CommitPromised
  <2>2. CASE ~\E v \in Visits, arrives \in BOOLEAN : Deliver(v, arrives)
    <3>1. CASE UNCHANGED graphVars
      BY <3>1 DEF graphVars
    <3>2. ASSUME NEW v \in Visits,
                 \/ \E by \in Analysts : Asks(v, by)
                 \/ List(v) \/ LookUp(v) \/ Create(v) \/ Review(v) \/ Judge(v) \/ Record(v)
                 \/ RollBack(v)
          PROVE  UNCHANGED <<entities, edges, auditLog, shown>>
      BY <3>2, Zenon DEF Asks, Open, List, LookUp, Create, Review, Judge, Record, Recorded, RollBack
    <3> QED
      BY <2>2, <3>1, <3>2 DEF GraphNext
  <2> QED
    BY <2>1, <2>2
<1> QED
  BY <1>1, <1>2, PInvHolds, PTL DEF GraphSpec, ActsAudited, Audited!Spec

==============================================================================
