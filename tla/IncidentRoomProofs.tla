-------------------------- MODULE IncidentRoomProofs --------------------------
(***************************************************************************)
(* Theorems about IncidentRoom for any number of rows, users, requests and *)
(* events.  The invariants of a row are not inductive alone: what a        *)
(* request will write depends on what it read and on the lock it holds,    *)
(* so IInv adds the facts that tie an open transaction to the rows.        *)
(***************************************************************************)
EXTENDS IncidentRoom, TLAPS

\* The request has written and holds the lock of its row.
Wrote(t) == t.pc \in {"announce", "commit"}

\* What a transaction in flight is about, by kind of handler.
Shape(t) ==
    /\ t.op = "none" <=> t.pc = "idle"
    /\ t.op = "none" <=> t.row = None
    /\ t.op \in {"decide", "cancel"} => t.row \in Decisions
    /\ t.op = "decide" => t.to = "DECIDED" /\ t.by \in Users
    /\ t.op = "cancel" => t.to = "CANCELLED"
    /\ t.op = "setStatus" => /\ t.row \in Incidents \cup Actions
                             /\ <<t.seen.status, t.to>> \in Moves(t.row)
                             /\ ~t.seen.stamped
    /\ t.op = "create" => /\ t.to = InitialStatus(t.row)
                          /\ ~t.seen.stamped
    /\ t.row \in Incidents => t.by = None

\* The uncommitted row version agrees with what the handler set out to do.
Pending(t) ==
    Wrote(t) =>
        /\ t.pend.status = t.to
        /\ t.op = "decide" => t.pend.stamped /\ t.pend.by = t.by
        /\ t.row \in Incidents \cup Actions =>
              (t.pend.stamped <=> t.to \in Stamping)
        /\ t.row \in Incidents => t.pend.by = None

\* What an open transaction relies on in the committed state: it stays true
\* while other requests commit.
Grounded(t) ==
    /\ t.op = "decide" /\ t.pc # "check" => t.by \in everMember
    /\ t.op = "setStatus" => Exists(t.row)
    /\ t.op = "create" => db[t.row] = AbsentRow
    /\ t.op = "cancel" /\ Wrote(t) => t.pend.by = db[t.row].by
    /\ Announces(t) /\ t.pc = "commit" => [row |-> t.row, by |-> t.by] \in notified

\* Two transactions that exclude each other on a row: two that wrote it, or
\* the one inserting it and any other.
Compatible(t, u) ==
    /\ Wrote(t) /\ Wrote(u) => t.row # u.row
    /\ t.op = "create" \/ u.op = "create" => t.row # u.row

TxInv == \A r \in Requests : Shape(tx[r]) /\ Pending(tx[r]) /\ Grounded(tx[r])

Exclusive == \A r, s \in Requests : r # s => Compatible(tx[r], tx[s])

RowInv ==
    /\ \A x \in Rows : ~Exists(x) => db[x] = AbsentRow
    /\ \A i \in Incidents : db[i].by = None

IInv ==
    /\ TypeOK
    /\ members \subseteq everMember
    /\ RowInv
    /\ TxInv
    /\ Exclusive
    /\ DecidedNamesStakeholder
    /\ StampedExactlyAtEnd
    /\ VisibleWasAnnounced

USE DEF Rows

------------------------------------------------------------------------------
\* The empty row and the empty transaction have their types.
LEMMA BlankTypes == AbsentRow \in Row /\ Idle \in Tx
  BY DEF AbsentRow, Idle, Row, Tx, Statuses, Labels, Ops

\* A move of any map starts at a status whose time column is not set and
\* never leads to ABSENT.
LEMMA MovesFacts ==
    ASSUME NEW x \in Rows, NEW s, NEW t, <<s, t>> \in Moves(x)
    PROVE  /\ s \in Statuses \ {"ABSENT"} /\ t \in Statuses \ {"ABSENT"}
           /\ x \notin Decisions => s \notin Stamping
  BY DEF Moves, IncidentMoves, DecisionMoves, ActionMoves, Statuses, Stamping

LEMMA InitIInv == Init => IInv
<1> SUFFICES ASSUME Init PROVE IInv
  OBVIOUS
<1>1. TypeOK
  BY BlankTypes, OwnerIsUser DEF Init, TypeOK
<1>2. TxInv /\ Exclusive
  BY NoneIsNothing DEF Init, TxInv, Exclusive, Shape, Pending, Grounded, Compatible,
     Wrote, Announces, Idle
<1> QED
  BY <1>1, <1>2, RowKindsDisjoint DEF Init, IInv, RowInv, DecidedNamesStakeholder,
     StampedExactlyAtEnd, VisibleWasAnnounced, Exists, AbsentRow, Stamping

\* A step that replaces one transaction record by a consistent one and leaves
\* the committed state alone keeps the invariant.
LEMMA TxStep ==
    ASSUME IInv, NEW r \in Requests, NEW t \in Tx,
           tx' = [tx EXCEPT ![r] = t],
           UNCHANGED <<db, timeline, members, notified, everMember>>,
           Shape(t), Pending(t), Grounded(t),
           \A s \in Requests \ {r} : Compatible(t, tx[s])
    PROVE  IInv'
<1> USE DEF IInv
<1>1. \A s \in Requests : tx'[s] = IF s = r THEN t ELSE tx[s]
  BY DEF TypeOK
<1>2. TypeOK'
  BY DEF TypeOK
<1>3. TxInv'
  <2> SUFFICES ASSUME NEW s \in Requests
               PROVE  Shape(tx'[s]) /\ Pending(tx'[s]) /\ Grounded(tx[s])'
    BY DEF TxInv, Shape, Pending
  <2>1. CASE s = r
    BY <1>1, <2>1 DEF Grounded, Exists, Wrote, Announces
  <2>2. CASE s # r
    BY <1>1, <2>2 DEF TxInv, Grounded, Exists, Wrote, Announces
  <2> QED
    BY <2>1, <2>2
<1>4. Exclusive'
  BY <1>1 DEF Exclusive, Compatible, Wrote
<1> QED
  BY <1>2, <1>3, <1>4 DEF RowInv, Exists, DecidedNamesStakeholder, StampedExactlyAtEnd,
     VisibleWasAnnounced

------------------------------------------------------------------------------
\* A request's first step only opens its transaction.
LEMMA BeginKeeps ==
    ASSUME IInv, NEW r \in Requests, NEW pc \in {"check", "write"},
           NEW op \in Ops, NEW x \in Rows, NEW to \in Statuses,
           NEW u \in Users \cup {None}, NEW seen \in Row,
           Begin(r, pc, op, x, to, u, seen),
           op # "none",
           op = "create" => Fresh(x) /\ to = InitialStatus(x) /\ ~seen.stamped,
           op # "create" => Exists(x),
           op \in {"decide", "cancel"} => x \in Decisions,
           op = "decide" => to = "DECIDED" /\ u \in Users /\ pc = "check",
           op = "cancel" => to = "CANCELLED",
           op = "setStatus" => /\ x \in Incidents \cup Actions
                               /\ <<seen.status, to>> \in Moves(x)
                               /\ ~seen.stamped,
           x \in Incidents => u = None
    PROVE  IInv'
<1> DEFINE t == [ pc |-> pc, op |-> op, row |-> x, to |-> to,
                  by |-> u, seen |-> seen, pend |-> AbsentRow ]
<1>1. t \in Tx
  BY BlankTypes DEF Tx, Labels
<1>2. Shape(t) /\ Pending(t) /\ Grounded(t) /\ ~Wrote(t)
  <2>1. t.row # None /\ t.pc # "idle" /\ t.pc \notin {"announce", "commit"}
    BY NoneIsNothing
  <2> QED
    BY <2>1 DEF Shape, Pending, Grounded, Wrote, Fresh, IInv, RowInv
<1>3. \A s \in Requests \ {r} : Compatible(t, tx[s])
  <2> SUFFICES ASSUME NEW s \in Requests \ {r} PROVE Compatible(t, tx[s])
    OBVIOUS
  <2>1. CASE op = "create"
    BY <1>2, <2>1 DEF Compatible, Fresh
  <2>2. CASE tx[s].op = "create" /\ op # "create"
    <3>1. db[tx[s].row] = AbsentRow
      BY <2>2 DEF IInv, TxInv, Grounded
    <3>2. db[x] # AbsentRow
      BY <2>2 DEF Exists, AbsentRow
    <3> QED
      BY <1>2, <3>1, <3>2 DEF Compatible
  <2> QED
    BY <1>2, <2>1, <2>2 DEF Compatible
<1>4. /\ tx' = [tx EXCEPT ![r] = t]
      /\ UNCHANGED <<db, timeline, members, notified, everMember>>
  BY DEF Begin
<1> HIDE DEF t
<1> QED
  BY <1>1, <1>2, <1>3, <1>4, TxStep

LEMMA BeginStep ==
    ASSUME IInv, NEW r \in Requests, BeginRequest(r)
    PROVE  IInv'
<1>t. /\ AbsentRow \in Row /\ AbsentRow.stamped = FALSE
      /\ {"OPEN", "PENDING", "DECIDED", "CANCELLED"} \subseteq Statuses
      /\ {"create", "setStatus", "decide", "cancel"} \subseteq Ops
      /\ \A x \in Rows : InitialStatus(x) \in Statuses /\ db[x] \in Row
  BY BlankTypes DEF AbsentRow, Statuses, Ops, InitialStatus, IInv, TypeOK
<1>1. CASE \E i \in Incidents : CreateIncident(r, i)
  <2> PICK i \in Incidents : CreateIncident(r, i)
    BY <1>1
  <2>1. /\ Begin(r, "write", "create", i, InitialStatus(i), None, AbsentRow)
        /\ Fresh(i)
    BY DEF CreateIncident
  <2> QED
    BY <2>1, <1>t, BeginKeeps
<1>2. CASE \E d \in Decisions, i \in Incidents : OpenDecision(r, d, i)
  <2> PICK d \in Decisions, i \in Incidents : OpenDecision(r, d, i)
    BY <1>2
  <2> DEFINE seen == [AbsentRow EXCEPT !.parent = i]
  <2>1. Begin(r, "write", "create", d, InitialStatus(d), None, seen) /\ Fresh(d)
    BY DEF OpenDecision
  <2>2. seen \in Row /\ ~seen.stamped
    BY <1>t DEF AbsentRow, Row
  <2> QED
    BY <2>1, <2>2, <1>t, BeginKeeps, RowKindsDisjoint
<1>3. CASE \E a \in Actions, i \in Incidents, u \in Users \cup {None} :
              CreateAction(r, a, i, u)
  <2> PICK a \in Actions, i \in Incidents, u \in Users \cup {None} :
              CreateAction(r, a, i, u)
    BY <1>3
  <2> DEFINE seen == [AbsentRow EXCEPT !.parent = i]
             pc == IF u = None THEN "write" ELSE "check"
  <2>1. Begin(r, pc, "create", a, InitialStatus(a), u, seen) /\ Fresh(a)
    BY DEF CreateAction
  <2>2. seen \in Row /\ ~seen.stamped /\ pc \in {"check", "write"}
    BY <1>t DEF AbsentRow, Row
  <2> HIDE DEF seen, pc
  <2> QED
    BY <2>1, <2>2, <1>t, BeginKeeps, RowKindsDisjoint
<1>4. CASE \E x \in Incidents \cup Actions, to \in Statuses : UpdateStatus(r, x, to)
  <2> PICK x \in Incidents \cup Actions, to \in Statuses : UpdateStatus(r, x, to)
    BY <1>4
  <2>1. <<db[x].status, to>> \in Moves(x)
        /\ Begin(r, "write", "setStatus", x, to, None, db[x])
    BY DEF UpdateStatus, ReadForUpdate
  <2>2. db[x].status \notin Stamping /\ Exists(x)
    BY <2>1, MovesFacts, RowKindsDisjoint DEF Exists
  <2>3. ~db[x].stamped
    BY <2>2, <1>t DEF IInv, StampedExactlyAtEnd, Row
  <2> QED
    BY <2>1, <2>2, <2>3, <1>t, BeginKeeps
<1>5. CASE \E d \in Decisions, u \in Users : Decide(r, d, u)
  <2> PICK d \in Decisions, u \in Users : Decide(r, d, u)
    BY <1>5
  <2>1. /\ <<db[d].status, "DECIDED">> \in Moves(d)
        /\ Begin(r, "check", "decide", d, "DECIDED", u, db[d])
    BY DEF Decide, ReadForUpdate
  <2>2. Exists(d) /\ d \notin Incidents
    BY <2>1, MovesFacts, RowKindsDisjoint DEF Exists
  <2> QED
    BY <2>1, <2>2, <1>t, BeginKeeps
<1>6. CASE \E d \in Decisions : Cancel(r, d)
  <2> PICK d \in Decisions : Cancel(r, d)
    BY <1>6
  <2>1. /\ <<db[d].status, "CANCELLED">> \in Moves(d)
        /\ Begin(r, "write", "cancel", d, "CANCELLED", None, db[d])
    BY DEF Cancel, ReadForUpdate
  <2>2. Exists(d)
    BY <2>1, MovesFacts DEF Exists
  <2> QED
    BY <2>1, <2>2, <1>t, BeginKeeps
<1> QED
  BY <1>1, <1>2, <1>3, <1>4, <1>5, <1>6 DEF BeginRequest

\* An idle transaction is consistent with anything: rollback, commit and a
\* failed lookup may always put it in place of another.
LEMMA IdleFacts ==
    /\ Idle \in Tx
    /\ Shape(Idle) /\ Pending(Idle) /\ Grounded(Idle)
    /\ IInv => \A s \in Requests : Compatible(Idle, tx[s]) /\ Compatible(tx[s], Idle)
<1>1. Shape(Idle) /\ Pending(Idle) /\ Grounded(Idle) /\ ~Wrote(Idle)
  BY NoneIsNothing DEF Idle, Shape, Pending, Grounded, Wrote, Announces
<1>2. ASSUME IInv, NEW s \in Requests
      PROVE  Compatible(Idle, tx[s]) /\ Compatible(tx[s], Idle)
  <2>1. Shape(tx[s]) /\ Grounded(tx[s]) /\ tx[s] \in Tx
    BY <1>2 DEF IInv, TxInv, TypeOK
  <2>2. tx[s].op = "create" => tx[s].row # None
    BY <2>1 DEF Shape
  <2> QED
    BY <1>1, <2>2 DEF Compatible, Idle
<1> QED
  BY <1>1, <1>2, BlankTypes

LEMMA CheckMemberStep ==
    ASSUME IInv, NEW r \in Requests, CheckMember(r)
    PROVE  IInv'
<1>1. /\ UNCHANGED <<db, timeline, members, notified, everMember>>
      /\ tx[r] \in Tx /\ Shape(tx[r]) /\ Grounded(tx[r]) /\ tx[r].pc = "check"
      /\ \A s \in Requests \ {r} : Compatible(tx[r], tx[s])
  BY DEF CheckMember, IInv, TypeOK, TxInv, Exclusive
<1>2. CASE tx[r].by \in members
  <2> DEFINE t == [tx[r] EXCEPT !.pc = "write"]
  <2>1. tx' = [tx EXCEPT ![r] = t]
    BY <1>2 DEF CheckMember
  <2>2. /\ t \in Tx /\ t.pc = "write"
        /\ t.op = tx[r].op /\ t.row = tx[r].row /\ t.to = tx[r].to
        /\ t.by = tx[r].by /\ t.seen = tx[r].seen /\ t.pend = tx[r].pend
    BY <1>1 DEF Tx, Labels
  <2> HIDE DEF t
  <2>3. Shape(t) /\ Pending(t) /\ Grounded(t)
    BY <1>1, <1>2, <2>2 DEF Shape, Pending, Grounded, Wrote, IInv
  <2>4. \A s \in Requests \ {r} : Compatible(t, tx[s])
    BY <1>1, <2>2 DEF Compatible, Wrote
  <2> QED
    BY <1>1, <2>1, <2>2, <2>3, <2>4, TxStep
<1>3. CASE tx[r].by \notin members
  <2>1. tx' = [tx EXCEPT ![r] = Idle]
    BY <1>3 DEF CheckMember
  <2> QED
    BY <1>1, <2>1, IdleFacts, TxStep
<1> QED
  BY <1>2, <1>3

LEMMA AbortStep ==
    ASSUME IInv, NEW r \in Requests, Abort(r)
    PROVE  IInv'
  BY IdleFacts, TxStep DEF Abort

\* The version a write leaves pending has its type and agrees with its request.
LEMMA WrittenFacts ==
    ASSUME IInv, NEW t \in Tx, Shape(t), Grounded(t), t.pc = "write"
    PROVE  /\ Written(t) \in Row
           /\ Written(t).status = t.to
           /\ t.op = "decide" => Written(t).stamped /\ Written(t).by = t.by
           /\ t.op = "cancel" => Written(t).by = db[t.row].by
           /\ t.row \in Incidents \cup Actions =>
                 (Written(t).stamped <=> t.to \in Stamping)
           /\ t.row \in Incidents => Written(t).by = None
<1>0. t.row \in Rows /\ t.op \in {"create", "setStatus", "decide", "cancel"}
  BY DEF Shape, Tx, Ops
<1>1. /\ db[t.row] \in Row /\ t.seen \in Row /\ t.to \in Statuses
      /\ t.by \in Users \cup {None}
  BY <1>0 DEF IInv, TypeOK, Tx
<1>2. t.row \in Incidents => db[t.row].by = None
  BY DEF IInv, RowInv
<1>3. CASE t.op = "create"
  <2> DEFINE w == [t.seen EXCEPT !.status = t.to, !.by = t.by]
  <2>1. Written(t) = w
    BY <1>3 DEF Written
  <2>2. w \in Row /\ w.status = t.to /\ w.by = t.by /\ w.stamped = t.seen.stamped
    BY <1>1 DEF Row
  <2>3. ~t.seen.stamped /\ t.to \notin Stamping
    BY <1>3 DEF Shape, InitialStatus, Stamping
  <2> QED
    BY <1>3, <2>1, <2>2, <2>3 DEF Shape
<1>4. CASE t.op = "setStatus"
  <2> DEFINE w == [db[t.row] EXCEPT !.status = t.to,
                                    !.stamped = t.to \in Stamping \/ t.seen.stamped]
  <2>1. Written(t) = w
    BY <1>4 DEF Written
  <2>2. /\ w \in Row /\ w.status = t.to /\ w.by = db[t.row].by
        /\ w.stamped = (t.to \in Stamping \/ t.seen.stamped)
    BY <1>1 DEF Row
  <2> QED
    BY <1>2, <1>4, <2>1, <2>2 DEF Shape
<1>5. CASE t.op = "decide"
  <2> DEFINE w == [db[t.row] EXCEPT !.status = t.to, !.stamped = TRUE, !.by = t.by]
  <2>1. Written(t) = w
    BY <1>5 DEF Written
  <2>2. w \in Row /\ w.status = t.to /\ w.by = t.by /\ w.stamped = TRUE
    BY <1>1 DEF Row
  <2> QED
    BY <1>5, <2>1, <2>2, RowKindsDisjoint DEF Shape
<1>6. CASE t.op = "cancel"
  <2> DEFINE w == [db[t.row] EXCEPT !.status = t.to]
  <2>1. Written(t) = w
    BY <1>6 DEF Written
  <2>2. w \in Row /\ w.status = t.to /\ w.by = db[t.row].by
    BY <1>1 DEF Row
  <2> QED
    BY <1>6, <2>1, <2>2, RowKindsDisjoint DEF Shape
<1> QED
  BY <1>0, <1>3, <1>4, <1>5, <1>6

LEMMA WriteStep ==
    ASSUME IInv, NEW r \in Requests, Write(r)
    PROVE  IInv'
<1> DEFINE pc == IF Announces(tx[r]) THEN "announce" ELSE "commit"
           t == [tx[r] EXCEPT !.pc = pc, !.pend = Written(tx[r])]
<1>1. /\ UNCHANGED <<db, timeline, members, notified, everMember>>
      /\ tx' = [tx EXCEPT ![r] = t]
      /\ tx[r] \in Tx /\ Shape(tx[r]) /\ Grounded(tx[r]) /\ tx[r].pc = "write"
      /\ \A s \in Requests \ {r} : Compatible(tx[r], tx[s])
      /\ ~Locked(tx[r].row)
  BY DEF Write, IInv, TypeOK, TxInv, Exclusive
<1>2. Written(tx[r]) \in Row
  BY <1>1, WrittenFacts
<1>3. /\ t \in Tx /\ t.pc \in {"announce", "commit"} /\ t.pend = Written(tx[r])
      /\ t.op = tx[r].op /\ t.row = tx[r].row /\ t.to = tx[r].to
      /\ t.by = tx[r].by /\ t.seen = tx[r].seen
      /\ t.pc = "commit" => ~Announces(tx[r])
  BY <1>1, <1>2 DEF Tx, Labels
<1> HIDE DEF t
<1>4. Shape(t) /\ Pending(t) /\ Grounded(t)
  BY <1>1, <1>3, WrittenFacts DEF Shape, Pending, Grounded, Wrote, Announces
<1>5. \A s \in Requests \ {r} : Compatible(t, tx[s])
  BY <1>1, <1>3 DEF Compatible, Wrote, Locked
<1> QED
  BY <1>1, <1>3, <1>4, <1>5, TxStep

LEMMA AnnounceStep ==
    ASSUME IInv, NEW r \in Requests, Announce(r)
    PROVE  IInv'
<1> DEFINE t == [tx[r] EXCEPT !.pc = "commit"]
           n == [row |-> tx[r].row, by |-> tx[r].by]
<1>1. /\ UNCHANGED <<db, timeline, members, everMember>>
      /\ notified' = notified \cup {n} /\ tx' = [tx EXCEPT ![r] = t]
      /\ tx[r] \in Tx /\ tx[r].pc = "announce"
      /\ Shape(tx[r]) /\ Pending(tx[r]) /\ Grounded(tx[r])
  BY DEF Announce, IInv, TypeOK, TxInv
<1>2. n \in Notice
  BY <1>1 DEF Notice, Shape, Tx
<1>3. /\ t \in Tx /\ t.pc = "commit" /\ t.op = tx[r].op /\ t.row = tx[r].row
      /\ t.to = tx[r].to /\ t.by = tx[r].by /\ t.seen = tx[r].seen
      /\ t.pend = tx[r].pend
  BY <1>1 DEF Tx, Labels
<1> HIDE DEF t
<1>4. \A s \in Requests : tx'[s] = IF s = r THEN t ELSE tx[s]
  BY <1>1 DEF IInv, TypeOK
<1>5. TypeOK'
  BY <1>1, <1>2, <1>3 DEF IInv, TypeOK
<1>6. TxInv'
  <2> SUFFICES ASSUME NEW s \in Requests
               PROVE  Shape(tx'[s]) /\ Pending(tx'[s]) /\ Grounded(tx[s])'
    BY DEF TxInv, Shape, Pending
  <2>1. CASE s = r
    BY <1>1, <1>3, <1>4, <2>1
       DEF Shape, Pending, Grounded, Exists, Wrote, Announces
  <2>2. CASE s # r
    BY <1>1, <1>4, <2>2 DEF IInv, TxInv, Grounded, Exists, Wrote, Announces
  <2> QED
    BY <2>1, <2>2
<1>7. Exclusive'
  <2> SUFFICES ASSUME NEW a \in Requests, NEW b \in Requests, a # b
               PROVE  Compatible(tx'[a], tx'[b])
    BY DEF Exclusive, Compatible
  <2>1. Compatible(tx[a], tx[b])
    BY DEF IInv, Exclusive
  <2> QED
    BY <1>1, <1>3, <1>4, <2>1 DEF Compatible, Wrote
<1>8. VisibleWasAnnounced'
  BY <1>1 DEF IInv, VisibleWasAnnounced, Exists
<1> QED
  BY <1>1, <1>5, <1>6, <1>7, <1>8 DEF IInv, RowInv, Exists, DecidedNamesStakeholder,
     StampedExactlyAtEnd

\* The only step that changes a committed row.
LEMMA CommitStep ==
    ASSUME IInv, NEW r \in Requests, Commit(r)
    PROVE  /\ IInv'
           /\ \A d \in Decisions : db[d].by # None => db'[d].by # None
<1> DEFINE t == tx[r]
<1> DEFINE x == t.row
<1>1. /\ UNCHANGED <<members, notified, everMember>>
      /\ db' = [db EXCEPT ![x] = t.pend] /\ tx' = [tx EXCEPT ![r] = Idle]
      /\ timeline' = Append(timeline, EventOf(t))
      /\ t \in Tx /\ t.pc = "commit" /\ Wrote(t)
      /\ Shape(t) /\ Pending(t) /\ Grounded(t)
      /\ db \in [Rows -> Row] /\ timeline \in Seq(Event)
  BY DEF Commit, IInv, TypeOK, TxInv, Wrote
<1>2. x \in Rows /\ t.op \in {"create", "setStatus", "decide", "cancel"}
  BY <1>1 DEF Shape, Tx, Ops
<1>3. t.pend \in Row /\ EventOf(t) \in Event /\ t.seen \in Row /\ t.to \in Statuses
  BY <1>1, <1>2 DEF Tx, Row, Event, EventOf
<1>4. t.to # "ABSENT"
  BY <1>1, <1>2, MovesFacts DEF Shape, InitialStatus
<1>5. /\ \A y \in Rows : db'[y] = IF y = x THEN t.pend ELSE db[y]
      /\ \A s \in Requests : tx'[s] = IF s = r THEN Idle ELSE tx[s]
  BY <1>1 DEF IInv, TypeOK
<1>6. t.pend.status = t.to
  BY <1>1 DEF Pending
<1>7. TypeOK'
  BY <1>1, <1>2, <1>3, BlankTypes DEF IInv, TypeOK
<1> HIDE DEF t, x
<1>8. RowInv'
  BY <1>1, <1>2, <1>4, <1>5, <1>6 DEF IInv, RowInv, Exists, Pending, x
<1>9. TxInv'
  <2> SUFFICES ASSUME NEW s \in Requests
               PROVE  Shape(tx'[s]) /\ Pending(tx'[s]) /\ Grounded(tx[s])'
    BY DEF TxInv, Shape, Pending
  <2>1. CASE s = r
    <3>1. tx'[s] = Idle
      BY <1>5, <2>1
    <3> QED
      BY <3>1, IdleFacts DEF Grounded, Idle, Announces, Wrote
  <2>2. CASE s # r
    <3>1. /\ tx'[s] = tx[s] /\ tx[s] \in Tx
          /\ Shape(tx[s]) /\ Pending(tx[s]) /\ Grounded(tx[s])
          /\ Compatible(t, tx[s])
      BY <1>5, <2>2 DEF IInv, TypeOK, TxInv, Exclusive, t
    <3>2. tx[s].op = "setStatus" => Exists(tx[s].row)'
      <4> SUFFICES ASSUME tx[s].op = "setStatus" PROVE db'[tx[s].row].status # "ABSENT"
        BY <3>1 DEF Exists
      <4> QED
        BY <1>4, <1>5, <1>6, <3>1 DEF Shape, Grounded, Exists
    <3>3. tx[s].op = "create" => db'[tx[s].row] = AbsentRow
      BY <1>5, <3>1 DEF Compatible, Shape, Grounded, Tx, x
    <3>4. tx[s].op = "cancel" /\ Wrote(tx[s]) => tx[s].pend.by = db'[tx[s].row].by
      BY <1>1, <1>5, <3>1 DEF Compatible, Shape, Grounded, x
    <3> QED
      BY <1>1, <3>1, <3>2, <3>3, <3>4 DEF Grounded, Wrote, Announces, Exists
  <2> QED
    BY <2>1, <2>2
<1>10. Exclusive'
  <2> SUFFICES ASSUME NEW a \in Requests, NEW b \in Requests, a # b
               PROVE  Compatible(tx'[a], tx'[b])
    BY DEF Exclusive, Compatible
  <2> QED
    BY <1>5, IdleFacts DEF IInv, Exclusive
<1>11. DecidedNamesStakeholder'
  <2>1. x \in Decisions /\ t.to = "DECIDED" =>
          t.pend.stamped /\ t.pend.by \in everMember
    BY <1>1, <1>2, RowKindsDisjoint
       DEF Shape, Pending, Grounded, InitialStatus, x, Wrote
  <2> QED
    BY <1>1, <1>5, <1>6, <2>1 DEF IInv, DecidedNamesStakeholder
<1>12. StampedExactlyAtEnd'
  BY <1>1, <1>5, <1>6 DEF IInv, StampedExactlyAtEnd, Pending, x
<1>13. VisibleWasAnnounced'
  <2> SUFFICES ASSUME NEW y \in Rows,
                      \/ y \in Incidents /\ Exists(y)'
                      \/ y \in Decisions /\ db'[y].status = "DECIDED"
               PROVE  [row |-> y, by |-> db'[y].by] \in notified
    BY <1>1 DEF VisibleWasAnnounced
  <2>1. CASE y # x
    BY <1>5, <2>1 DEF IInv, VisibleWasAnnounced, Exists
  <2>2. CASE y = x /\ x \in Incidents
    <3>1. t.op \in {"create", "setStatus"} /\ t.pend.by = None /\ t.by = None
      BY <1>1, <1>2, <2>2, RowKindsDisjoint DEF Shape, Pending, x
    <3>2. CASE t.op = "create"
      BY <1>1, <1>5, <2>2, <3>1, <3>2 DEF Grounded, Announces, x
    <3>3. CASE t.op = "setStatus"
      BY <1>1, <1>5, <2>2, <3>1, <3>3
         DEF Grounded, IInv, VisibleWasAnnounced, RowInv, x
    <3> QED
      BY <3>1, <3>2, <3>3
  <2>3. CASE y = x /\ x \in Decisions
    <3>1. t.op = "decide"
      BY <1>1, <1>2, <1>5, <1>6, <2>3, RowKindsDisjoint DEF Shape, InitialStatus, x
    <3> QED
      BY <1>1, <1>5, <2>3, <3>1 DEF Grounded, Announces, Pending, x
  <2> QED
    BY <2>1, <2>2, <2>3, RowKindsDisjoint
<1>14. ASSUME NEW d \in Decisions, db[d].by # None
       PROVE  db'[d].by # None
  <2>1. CASE d # x
    BY <1>5, <1>14, <2>1
  <2>2. CASE d = x
    <3>1. t.op # "create" /\ t.op # "setStatus"
      BY <1>1, <1>14, <2>2, RowKindsDisjoint DEF Grounded, Shape, AbsentRow, x
    <3>2. t.pend.by # None
      BY <1>1, <1>2, <1>14, <2>2, <3>1, NoneIsNothing DEF Shape, Pending, Grounded, x
    <3> QED
      BY <1>5, <2>2, <3>2
  <2> QED
    BY <2>1, <2>2
<1> QED
  BY <1>1, <1>7, <1>8, <1>9, <1>10, <1>11, <1>12, <1>13, <1>14 DEF IInv

LEMMA MembershipStep ==
    ASSUME IInv, NEW u \in Users, AddMember(u) \/ RemoveMember(u)
    PROVE  IInv'
<1>1. /\ UNCHANGED <<db, timeline, notified, tx>> /\ everMember \subseteq everMember'
      /\ members' \subseteq everMember' /\ everMember' \subseteq Users
      /\ members' \subseteq Users
  BY DEF AddMember, RemoveMember, IInv, TypeOK
<1>2. TxInv'
  <2> SUFFICES ASSUME NEW s \in Requests
               PROVE  Shape(tx[s]) /\ Pending(tx[s]) /\ Grounded(tx[s])'
    BY <1>1 DEF TxInv
  <2> QED
    BY <1>1 DEF IInv, TxInv, Grounded, Exists, Wrote, Announces
<1> QED
  BY <1>1, <1>2 DEF IInv, TypeOK, RowInv, Exclusive, Compatible, Wrote, Exists,
     DecidedNamesStakeholder, StampedExactlyAtEnd, VisibleWasAnnounced

------------------------------------------------------------------------------
LEMMA NextIInv == IInv /\ [Next]_vars => IInv'
<1> SUFFICES ASSUME IInv, [Next]_vars PROVE IInv'
  OBVIOUS
<1>1. ASSUME NEW r \in Requests,
             BeginRequest(r) \/ CheckMember(r) \/ Write(r) \/ Announce(r)
               \/ Commit(r) \/ Abort(r)
      PROVE  IInv'
  BY <1>1, BeginStep, CheckMemberStep, WriteStep, AnnounceStep, CommitStep, AbortStep
<1>2. ASSUME NEW u \in Users, AddMember(u) \/ RemoveMember(u) PROVE IInv'
  BY <1>2, MembershipStep
<1>3. CASE UNCHANGED vars
  <2>1. TxInv'
    BY <1>3 DEF IInv, TxInv, Grounded, Exists, Wrote, Announces, vars
  <2> QED
    BY <1>3, <2>1 DEF IInv, TypeOK, RowInv, Exclusive, Exists, vars,
       DecidedNamesStakeholder, StampedExactlyAtEnd, VisibleWasAnnounced
<1> QED
  BY <1>1, <1>2, <1>3 DEF Next

\* Every row, event, broadcast and transaction keeps its shape.
THEOREM TypeCorrect == Spec => []TypeOK
<1>1. IInv => TypeOK
  BY DEF IInv
<1> QED
  BY <1>1, InitIInv, NextIInv, PTL DEF Spec

\* Principle 1 for any number of racing requests: a DECIDED decision carries its
\* time and names somebody who has been a member.
THEOREM Principle1 == Spec => []DecidedNamesStakeholder
<1>1. IInv => DecidedNamesStakeholder
  BY DEF IInv
<1> QED
  BY <1>1, InitIInv, NextIInv, PTL DEF Spec

\* closedAt and completedAt are set exactly on CLOSED incidents and DONE
\* actions, although every update copies the column from a stale read.
THEOREM ClosedAtAgrees == Spec => []StampedExactlyAtEnd
<1>1. IInv => StampedExactlyAtEnd
  BY DEF IInv
<1> QED
  BY <1>1, InitIInv, NextIInv, PTL DEF Spec

\* No incident and no decided decision is visible before its broadcast.
THEOREM AnnouncedFirst == Spec => []VisibleWasAnnounced
<1>1. IInv => VisibleWasAnnounced
  BY DEF IInv
<1> QED
  BY <1>1, InitIInv, NextIInv, PTL DEF Spec

\* The name of the stakeholder, once committed, is replaced but never cleared.
THEOREM StakeholderKept == Spec => StakeholderNeverCleared
<1> DEFINE Kept == \A d \in Decisions : db[d].by # None => db'[d].by # None
<1>1. ASSUME IInv, [Next]_vars PROVE [Kept]_vars
  <2>1. CASE \E r \in Requests : Commit(r)
    BY <1>1, <2>1, CommitStep
  <2>2. CASE ~\E r \in Requests : Commit(r)
    <3>1. db' = db
      BY <1>1, <2>2 DEF Next, vars, BeginRequest, CreateIncident, OpenDecision,
         CreateAction, UpdateStatus, Decide, Cancel, ReadForUpdate, Begin,
         CheckMember, Write, Announce, Abort, AddMember, RemoveMember
    <3> QED
      BY <3>1
  <2> QED
    BY <2>1, <2>2
<1> QED
  BY <1>1, InitIInv, NextIInv, PTL DEF Spec, StakeholderNeverCleared

------------------------------------------------------------------------------
(* The timeline.  What a request read is in the history, so what it appends *)
(* builds on the history.                                                  *)

Reached(x, s) ==
    \E j \in 1..Len(timeline) : timeline[j].row = x /\ timeline[j].to = s

\* A transaction in flight read a status its row had reached, and is about to
\* make a legal move from it.
Rooted(t) ==
    /\ t.op = "create" => t.seen.status = "ABSENT"
    /\ t.op \in {"setStatus", "decide", "cancel"} =>
          /\ <<t.seen.status, t.to>> \in Moves(t.row)
          /\ Reached(t.row, t.seen.status)

HistoryInv ==
    /\ LastEventExplainsRow
    /\ EventsBuildOnHistory
    /\ \A r \in Requests : Rooted(tx[r])

\* While the timeline stays, the invariant only asks the changed record to be
\* rooted.
LEMMA SameTimeline ==
    ASSUME HistoryInv, NEW r \in Requests,
           UNCHANGED <<db, timeline>>,
           \A s \in Requests \ {r} : tx'[s] = tx[s],
           Rooted(tx[r])'
    PROVE  HistoryInv'
<1>1. \A s \in Requests \ {r} : Rooted(tx[s])'
  BY DEF HistoryInv, Rooted, Reached
<1> QED
  BY <1>1 DEF HistoryInv, LastEventExplainsRow, EventsBuildOnHistory, Exists

LEMMA BeginHistory ==
    ASSUME TypeOK, HistoryInv, NEW r \in Requests, BeginRequest(r)
    PROVE  HistoryInv'
<1> DEFINE t == tx'[r]
<1>1. UNCHANGED <<db, timeline>> /\ \A s \in Requests \ {r} : tx'[s] = tx[s]
  BY DEF BeginRequest, CreateIncident, OpenDecision, CreateAction, UpdateStatus,
     Decide, Cancel, ReadForUpdate, Begin, TypeOK
<1>2. CASE \/ \E i \in Incidents : CreateIncident(r, i)
           \/ \E d \in Decisions, i \in Incidents : OpenDecision(r, d, i)
           \/ \E a \in Actions, i \in Incidents, u \in Users \cup {None} :
                  CreateAction(r, a, i, u)
  <2>1. t.op = "create" /\ t.seen.status = "ABSENT"
    BY <1>2 DEF CreateIncident, OpenDecision, CreateAction, Begin, TypeOK, AbsentRow
  <2> QED
    BY <1>1, <2>1, SameTimeline DEF Rooted
<1>3. ASSUME NEW pc, NEW op, NEW x \in Rows, NEW to, NEW u,
             ReadForUpdate(r, pc, op, x, to, u), op # "create"
      PROVE  HistoryInv'
  <2>1. /\ t.op = op /\ t.row = x /\ t.to = to /\ t.seen = db[x]
        /\ <<db[x].status, to>> \in Moves(x)
    BY <1>3 DEF ReadForUpdate, Begin, TypeOK
  <2>2. Exists(x)
    BY <2>1, MovesFacts DEF Exists
  <2>3. Reached(x, db[x].status)
    BY <2>2 DEF HistoryInv, LastEventExplainsRow, Reached
  <2>4. Rooted(tx[r])'
    BY <1>1, <1>3, <2>1, <2>3 DEF Rooted, Reached
  <2> QED
    BY <1>1, <2>4, SameTimeline
<1> QED
  BY <1>2, <1>3 DEF BeginRequest, UpdateStatus, Decide, Cancel

\* The later steps before the commit keep what the transaction read.
LEMMA MiddleHistory ==
    ASSUME TypeOK, HistoryInv, NEW r \in Requests,
           CheckMember(r) \/ Write(r) \/ Announce(r) \/ Abort(r)
    PROVE  HistoryInv'
<1>1. /\ UNCHANGED <<db, timeline>>
      /\ \A s \in Requests \ {r} : tx'[s] = tx[s]
  BY DEF CheckMember, Write, Announce, Abort, TypeOK
<1>2. \/ tx'[r] = Idle
      \/ /\ tx'[r].op = tx[r].op /\ tx'[r].row = tx[r].row
         /\ tx'[r].to = tx[r].to /\ tx'[r].seen = tx[r].seen
  <2>0. tx[r] \in Tx /\ \A t : [tx EXCEPT ![r] = t][r] = t
    BY DEF TypeOK
  <2>1. CASE CheckMember(r)
    BY <2>0, <2>1 DEF CheckMember, Tx
  <2>2. CASE Write(r)
    BY <2>0, <2>2 DEF Write, Tx
  <2>3. CASE Announce(r)
    BY <2>0, <2>3 DEF Announce, Tx, TypeOK
  <2>4. CASE Abort(r)
    BY <2>0, <2>4 DEF Abort
  <2> QED
    BY <2>1, <2>2, <2>3, <2>4
<1>3. Rooted(tx[r])'
  BY <1>1, <1>2 DEF Rooted, Reached, HistoryInv, Idle
<1> QED
  BY <1>1, <1>3, SameTimeline

LEMMA CommitHistory ==
    ASSUME IInv, HistoryInv, NEW r \in Requests, Commit(r)
    PROVE  HistoryInv'
<1> DEFINE t == tx[r]
           n == Len(timeline)
<1>1. /\ db' = [db EXCEPT ![t.row] = t.pend] /\ tx' = [tx EXCEPT ![r] = Idle]
      /\ timeline' = Append(timeline, EventOf(t))
      /\ t \in Tx /\ Wrote(t) /\ Shape(t) /\ Pending(t) /\ Rooted(t)
      /\ timeline \in Seq(Event)
  BY DEF Commit, IInv, TypeOK, TxInv, Wrote, HistoryInv
<1>2. t.row \in Rows /\ t.op \in {"create", "setStatus", "decide", "cancel"}
  BY <1>1 DEF Shape, Tx, Ops, Wrote
<1>3. /\ \A y \in Rows : db'[y] = IF y = t.row THEN t.pend ELSE db[y]
      /\ \A s \in Requests : tx'[s] = IF s = r THEN Idle ELSE tx[s]
      /\ t.pend.status = t.to
  BY <1>1 DEF IInv, TypeOK, Pending
<1>4. EventOf(t) \in Event
  BY <1>1, <1>2 DEF Tx, Row, Event, EventOf
<1>5. /\ n \in Nat /\ Len(timeline') = n + 1
      /\ timeline'[n + 1] = EventOf(t)
      /\ \A j \in 1..n : timeline'[j] = timeline[j]
  BY <1>1, <1>4
<1>6. EventOf(t).row = t.row /\ EventOf(t).from = t.seen.status /\ EventOf(t).to = t.to
  BY DEF EventOf
<1> HIDE DEF n
<1>7. LastEventExplainsRow'
  <2> SUFFICES ASSUME NEW y \in Rows, Exists(y)'
               PROVE  \E k \in 1..n + 1 :
                        /\ timeline'[k].row = y
                        /\ timeline'[k].to = db'[y].status
                        /\ \A j \in k + 1 .. n + 1 : timeline'[j].row # y
    BY <1>5 DEF LastEventExplainsRow
  <2>1. CASE y = t.row
    <3>1. n + 1 \in 1..n + 1 /\ n + 2 .. n + 1 = {}
      BY <1>5
    <3>2. timeline'[n + 1].row = y /\ timeline'[n + 1].to = db'[y].status
      BY <1>3, <1>5, <1>6, <2>1
    <3> QED
      BY <1>5, <3>1, <3>2
  <2>2. CASE y # t.row
    <3>1. PICK k \in 1..n : /\ timeline[k].row = y /\ timeline[k].to = db[y].status
                            /\ \A j \in k + 1 .. n : timeline[j].row # y
      BY <1>3, <2>2 DEF HistoryInv, LastEventExplainsRow, Exists, n
    <3>2. k \in 1..n + 1
      BY <1>5
    <3>3. \A j \in k + 1 .. n + 1 : timeline'[j].row # y
      BY <1>5, <1>6, <2>2, <3>1
    <3> QED
      BY <1>3, <1>5, <2>2, <3>1, <3>2, <3>3
  <2> QED
    BY <2>1, <2>2
<1>8. \A y, s : Reached(y, s) => Reached(y, s)'
  BY <1>5 DEF Reached, n
<1>9. EventsBuildOnHistory'
  <2> SUFFICES ASSUME NEW k \in 1..n + 1, timeline'[k].from # "ABSENT"
               PROVE  /\ <<timeline'[k].from, timeline'[k].to>> \in Moves(timeline'[k].row)
                      /\ \E j \in 1 .. k - 1 : /\ timeline'[j].row = timeline'[k].row
                                              /\ timeline'[j].to = timeline'[k].from
    BY <1>5 DEF EventsBuildOnHistory, Moves
  <2>1. CASE k = n + 1
    <3>1. /\ <<t.seen.status, t.to>> \in Moves(t.row)
          /\ Reached(t.row, t.seen.status)
      BY <1>1, <1>2, <1>5, <1>6, <2>1 DEF Rooted
    <3> QED
      BY <1>5, <1>6, <2>1, <3>1 DEF Reached, n
  <2>2. CASE k \in 1..n
    <3>1. k - 1 <= n
      BY <1>5, <2>2
    <3> QED
      BY <1>5, <2>2, <3>1 DEF HistoryInv, EventsBuildOnHistory, n
  <2> QED
    BY <1>5, <2>1, <2>2
<1>10. \A s \in Requests : Rooted(tx[s])'
  BY <1>3, <1>8 DEF HistoryInv, Rooted, Idle
<1> QED
  BY <1>7, <1>9, <1>10 DEF HistoryInv

LEMMA HistoryInductive ==
    /\ Init => HistoryInv
    /\ IInv /\ HistoryInv /\ [Next]_vars => HistoryInv'
<1>1. Init => HistoryInv
  BY DEF Init, HistoryInv, LastEventExplainsRow, EventsBuildOnHistory, Exists,
     Rooted, Idle, AbsentRow
<1>2. ASSUME IInv, HistoryInv, [Next]_vars PROVE HistoryInv'
  <2>1. ASSUME NEW r \in Requests,
               BeginRequest(r) \/ CheckMember(r) \/ Write(r) \/ Announce(r)
                 \/ Commit(r) \/ Abort(r)
        PROVE  HistoryInv'
    BY <1>2, <2>1, BeginHistory, MiddleHistory, CommitHistory DEF IInv
  <2>2. CASE UNCHANGED <<db, timeline, tx>>
    BY <1>2, <2>2 DEF HistoryInv, LastEventExplainsRow, EventsBuildOnHistory, Exists,
       Rooted, Reached
  <2> QED
    BY <1>2, <2>1, <2>2 DEF Next, vars, AddMember, RemoveMember
<1> QED
  BY <1>1, <1>2

\* The timeline explains every row: its last event carries the committed status.
THEOREM TimelineExplains == Spec => []LastEventExplainsRow
<1>1. HistoryInv => LastEventExplainsRow
  BY DEF HistoryInv
<1> QED
  BY <1>1, InitIInv, NextIInv, HistoryInductive, PTL DEF Spec

\* No event of the timeline leaves a status its row had not reached before.
THEOREM HistoryIsGapless == Spec => []EventsBuildOnHistory
<1>1. HistoryInv => EventsBuildOnHistory
  BY DEF HistoryInv
<1> QED
  BY <1>1, InitIInv, NextIInv, HistoryInductive, PTL DEF Spec

------------------------------------------------------------------------------
(* What the races cost: with one request at a time the lifecycles hold. *)

Serial == \A r, s \in Requests : r = s

\* An update in flight still sees the row as it read it.
SeenIsCurrent ==
    \A r \in Requests :
        tx[r].op \in {"setStatus", "decide", "cancel"} => tx[r].seen = db[tx[r].row]

LEMMA SerialInductive ==
    ASSUME Serial
    PROVE  /\ Init => SeenIsCurrent
           /\ IInv /\ SeenIsCurrent /\ [Next]_vars => SeenIsCurrent'
<1>1. Init => SeenIsCurrent
  BY DEF Init, SeenIsCurrent, Idle
<1>2. ASSUME IInv, SeenIsCurrent, [Next]_vars PROVE SeenIsCurrent'
  <2>1. ASSUME NEW r \in Requests, BeginRequest(r) PROVE SeenIsCurrent'
    <3>1. \A s \in Requests : s = r
      BY DEF Serial
    <3>2. /\ db' = db
          /\ tx'[r].op \in {"setStatus", "decide", "cancel"} =>
                tx'[r].seen = db[tx'[r].row]
      <4>1. \A t : [tx EXCEPT ![r] = t][r] = t
        BY <1>2 DEF IInv, TypeOK
      <4>2. CASE \E pc, op, x, to, u : ReadForUpdate(r, pc, op, x, to, u)
        BY <4>1, <4>2 DEF ReadForUpdate, Begin
      <4>3. CASE \E pc, x, to, u, seen : Begin(r, pc, "create", x, to, u, seen)
        BY <4>1, <4>3 DEF Begin
      <4> QED
        BY <2>1, <4>2, <4>3 DEF BeginRequest, CreateIncident, OpenDecision, CreateAction,
           UpdateStatus, Decide, Cancel
    <3> QED
      BY <3>1, <3>2 DEF SeenIsCurrent
  <2>2. ASSUME NEW r \in Requests, CheckMember(r) \/ Write(r) \/ Announce(r) \/ Abort(r)
        PROVE  SeenIsCurrent'
    <3>1. tx[r] \in Tx /\ db' = db /\ \A t : [tx EXCEPT ![r] = t][r] = t
      BY <1>2, <2>2 DEF IInv, TypeOK, CheckMember, Write, Announce, Abort
    <3>2. \/ tx'[r] = Idle
          \/ tx'[r].op = tx[r].op /\ tx'[r].row = tx[r].row /\ tx'[r].seen = tx[r].seen
      <4>1. CASE CheckMember(r)
        BY <3>1, <4>1 DEF CheckMember, Tx
      <4>2. CASE Write(r)
        BY <3>1, <4>2 DEF Write, Tx
      <4>3. CASE Announce(r)
        BY <1>2, <3>1, <4>3 DEF Announce, Tx, IInv, TypeOK
      <4>4. CASE Abort(r)
        BY <3>1, <4>4 DEF Abort
      <4> QED
        BY <2>2, <4>1, <4>2, <4>3, <4>4
    <3>3. \A s \in Requests : s = r
      BY DEF Serial
    <3> QED
      BY <1>2, <3>1, <3>2, <3>3 DEF SeenIsCurrent, Idle
  <2>3. ASSUME NEW r \in Requests, Commit(r) PROVE SeenIsCurrent'
    <3>1. tx'[r] = Idle /\ \A s \in Requests : s = r
      BY <1>2, <2>3 DEF Commit, Serial, IInv, TypeOK
    <3> QED
      BY <3>1 DEF SeenIsCurrent, Idle
  <2>4. CASE UNCHANGED <<db, tx>>
    BY <1>2, <2>4 DEF SeenIsCurrent
  <2> QED
    BY <1>2, <2>1, <2>2, <2>3, <2>4 DEF Next, vars, AddMember, RemoveMember
<1> QED
  BY <1>1, <1>2

\* The status of a row changes by its insertion or by a move of its map.
LEMMA SerialStep ==
    ASSUME IInv, HistoryInv, SeenIsCurrent, Next, NEW x \in Rows, db'[x] # db[x]
    PROVE  \/ db[x].status = "ABSENT" /\ db'[x].status = InitialStatus(x)
           \/ <<db[x].status, db'[x].status>> \in Moves(x)
<1>1. PICK r \in Requests : Commit(r)
  BY DEF Next, BeginRequest, CreateIncident, OpenDecision, CreateAction, UpdateStatus,
     Decide, Cancel, ReadForUpdate, Begin, CheckMember, Write, Announce, Abort,
     AddMember, RemoveMember
<1> DEFINE t == tx[r]
<1>2. /\ db' = [db EXCEPT ![t.row] = t.pend] /\ t \in Tx
      /\ t.pc = "commit" /\ Shape(t) /\ Pending(t) /\ Grounded(t) /\ Rooted(t)
  BY <1>1 DEF Commit, IInv, TypeOK, TxInv, HistoryInv
<1>3. /\ t.row = x /\ db'[x] = t.pend /\ t.pend.status = t.to
      /\ t.op \in {"create", "setStatus", "decide", "cancel"}
  BY <1>2 DEF IInv, TypeOK, Pending, Wrote, Shape, Tx, Ops
<1>4. CASE t.op = "create"
  BY <1>2, <1>3, <1>4 DEF Shape, Grounded, AbsentRow
<1>5. CASE t.op # "create"
  <2>1. t.seen = db[x]
    BY <1>3, <1>5 DEF SeenIsCurrent
  <2>2. <<t.seen.status, t.to>> \in Moves(x)
    BY <1>2, <1>3, <1>5 DEF Rooted
  <2> QED
    BY <1>3, <2>1, <2>2
<1> QED
  BY <1>4, <1>5

\* One request at a time, nothing leads out of DECIDED or CANCELLED: the loss of
\* a terminal decision takes two requests whose reads and writes interleave.
THEOREM SerialDecisionsStay == Serial => (Spec => DecisionIsTerminal)
<1> SUFFICES ASSUME Serial PROVE Spec => DecisionIsTerminal
  OBVIOUS
<1> DEFINE Stays == \A d \in Decisions :
                       db[d].status \in {"DECIDED", "CANCELLED"} => db'[d] = db[d]
<1>1. ASSUME IInv, HistoryInv, SeenIsCurrent, [Next]_vars PROVE [Stays]_vars
  <2> SUFFICES ASSUME Next, NEW d \in Decisions,
                      db[d].status \in {"DECIDED", "CANCELLED"}, db'[d] # db[d]
               PROVE  FALSE
    BY <1>1
  <2>1. d \in Rows /\ d \notin Incidents
    BY RowKindsDisjoint
  <2>2. <<db[d].status, db'[d].status>> \in DecisionMoves
    BY <1>1, <2>1, SerialStep DEF Moves
  <2> QED
    BY <2>2 DEF DecisionMoves
<1> QED
  BY <1>1, InitIInv, NextIInv, HistoryInductive, SerialInductive, PTL
     DEF Spec, DecisionIsTerminal

\* One request at a time, an incident moves one step forward and never back.
THEOREM SerialIncidentsAdvance == Serial => (Spec => IncidentIsLinear)
<1> SUFFICES ASSUME Serial PROVE Spec => IncidentIsLinear
  OBVIOUS
<1> DEFINE Advances == \A i \in Incidents :
                          db'[i].status # db[i].status =>
                             Rank(db'[i].status) = Rank(db[i].status) + 1
<1>1. ASSUME IInv, HistoryInv, SeenIsCurrent, [Next]_vars PROVE [Advances]_vars
  <2> SUFFICES ASSUME Next, NEW i \in Incidents, db'[i].status # db[i].status
               PROVE  Rank(db'[i].status) = Rank(db[i].status) + 1
    BY <1>1
  <2>1. i \in Rows /\ i \notin Actions
    BY RowKindsDisjoint
  <2>2. \/ db[i].status = "ABSENT" /\ db'[i].status = "OPEN"
        \/ <<db[i].status, db'[i].status>> \in IncidentMoves
    BY <1>1, <2>1, SerialStep DEF Moves, InitialStatus
  <2> QED
    BY <2>2 DEF IncidentMoves, Rank
<1> QED
  BY <1>1, InitIInv, NextIInv, HistoryInductive, SerialInductive, PTL
     DEF Spec, IncidentIsLinear

------------------------------------------------------------------------------
(* Seen from outside.  The lifecycles do not hold of committed rows when    *)
(* requests overlap; what does is the abstract specification RoomPromise.  *)

\* The statuses told of a row are those its events reached.
LEMMA ToldFacts == \A x : \A s : s \in Told(x) <=> Reached(x, s)
  BY DEF Told, Reached

\* A commit is the insertion of its row, or a move from a status it has had.
LEMMA CommitPromises ==
    ASSUME IInv, HistoryInv, NEW r \in Requests, Commit(r)
    PROVE  Promise!Next
<1> DEFINE t == tx[r]
           n == Len(timeline)
           status == [y \in Rows |-> db[y].status]
           reached == [y \in Rows |-> Told(y)]
<1>1. /\ db' = [db EXCEPT ![t.row] = t.pend]
      /\ timeline' = Append(timeline, EventOf(t))
      /\ t \in Tx /\ Wrote(t) /\ Shape(t) /\ Pending(t) /\ Grounded(t) /\ Rooted(t)
      /\ timeline \in Seq(Event)
  BY DEF Commit, IInv, TypeOK, TxInv, HistoryInv, Wrote
<1>2. t.row \in Rows /\ t.op \in {"create", "setStatus", "decide", "cancel"}
  BY <1>1 DEF Shape, Tx, Ops, Wrote
<1>3. t.seen.status \in Statuses /\ t.to \in Statuses
  BY <1>1 DEF Tx, Row
<1> PICK x \in Rows, from \in Statuses, to \in Statuses :
        x = t.row /\ from = t.seen.status /\ to = t.to
  BY <1>2, <1>3
<1>4. status' = [status EXCEPT ![x] = to]
  <2>1. \A y \in Rows : db'[y] = IF y = x THEN t.pend ELSE db[y]
    BY <1>1 DEF IInv, TypeOK
  <2>2. t.pend.status = to
    BY <1>1 DEF Pending
  <2> QED
    BY <2>1, <2>2
<1>5. reached' = [reached EXCEPT ![x] = @ \cup {to}]
  <2>1. EventOf(t) \in Event /\ EventOf(t).row = x /\ EventOf(t).to = to
    BY DEF Event, EventOf
  <2>2. /\ n \in Nat /\ Len(timeline') = n + 1
        /\ timeline'[n + 1].row = x /\ timeline'[n + 1].to = to
        /\ \A j \in 1..n : timeline'[j] = timeline[j]
    BY <1>1, <2>1
  <2>3. ASSUME NEW y \in Rows
        PROVE  Told(y)' = IF y = x THEN Told(y) \cup {to} ELSE Told(y)
    <3>1. ASSUME NEW s
          PROVE  Reached(y, s)' <=> Reached(y, s) \/ (y = x /\ s = to)
      BY <2>2 DEF Reached
    <3>2. \A s : s \in Told(y)' <=> Reached(y, s)'
      BY DEF Told, Reached
    <3> QED
      BY <3>1, <3>2, ToldFacts
  <2> QED
    BY <2>3
<1>6. CASE t.op = "create"
  <2>1. status[x] = "ABSENT" /\ to = InitialStatus(x)
    BY <1>1, <1>6 DEF Grounded, Shape, AbsentRow
  <2> HIDE DEF status, reached
  <2>2. Promise!Insert(x)
    BY <1>4, <1>5, <2>1 DEF Promise!Insert, Promise!MoveTo, status, reached,
       Promise!InitialStatus, InitialStatus
  <2> QED
    BY <2>2 DEF Promise!Next, Promise!Rows
<1>7. CASE t.op # "create"
  <2>1. from \in reached[x] /\ <<from, to>> \in Moves(x)
    BY <1>1, <1>2, <1>7, ToldFacts DEF Rooted
  <2> HIDE DEF status, reached
  <2>2. Promise!Move(x, from, to)
    BY <1>4, <1>5, <2>1 DEF Promise!Move, Promise!MoveTo, status, reached,
       Promise!Moves, Moves, Promise!IncidentMoves, IncidentMoves,
       Promise!DecisionMoves, DecisionMoves, Promise!ActionMoves, ActionMoves
  <2> QED
    BY <2>2 DEF Promise!Next, Promise!Rows, Promise!Statuses, Statuses
<1> QED
  BY <1>6, <1>7

\* IncidentRoom implements RoomPromise: for any number of requests, a row is
\* inserted once and every later change is a legal move from a status it has had.
THEOREM ImplementsPromise == Spec => KeepsPromise
<1>1. Init => Promise!Init
  BY DEF Init, Promise!Init, Promise!Rows, AbsentRow, Told
<1>2. ASSUME IInv, HistoryInv, [Next]_vars PROVE [Promise!Next]_(Promise!vars)
  <2>1. CASE \E r \in Requests : Commit(r)
    BY <1>2, <2>1, CommitPromises
  <2>2. CASE ~\E r \in Requests : Commit(r)
    <3>1. db' = db /\ timeline' = timeline
      BY <1>2, <2>2 DEF Next, vars, BeginRequest, CreateIncident, OpenDecision,
         CreateAction, UpdateStatus, Decide, Cancel, ReadForUpdate, Begin,
         CheckMember, Write, Announce, Abort, AddMember, RemoveMember
    <3> QED
      BY <3>1 DEF Told, Promise!vars
  <2> QED
    BY <2>1, <2>2
<1> QED
  BY <1>1, <1>2, InitIInv, NextIInv, HistoryInductive, PTL
     DEF Spec, KeepsPromise, Promise!Spec

==============================================================================
