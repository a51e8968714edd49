----------------------------- MODULE IncidentRoom -----------------------------
(***************************************************************************)
(* The working room of an incident in one tenant: the rows of `incidents`, *)
(* `decisions` and `actions`, the timeline they share, and the requests    *)
(* that change them at the same time.                                      *)
(*                                                                         *)
(* TenantRlsInterceptor runs a whole request handler in ONE interactive    *)
(* transaction at Postgres' default isolation, READ COMMITTED.  A handler  *)
(* reads the row (committed data), validates the transition in memory, and *)
(* then updates `where: { id }` without repeating the status it validated. *)
(* The update waits for the row lock of another open transaction, keeps    *)
(* the lock until COMMIT or ROLLBACK, and writes over whatever is there by *)
(* then.  So one handler is several steps here: the read, the membership   *)
(* lookup, the write, the external broadcast and the commit.               *)
(*                                                                         *)
(* A handler that throws at its first read changes nothing: it has no      *)
(* action.  One that throws later rolls back (Abort).                      *)
(***************************************************************************)
EXTENDS Integers, Sequences, FiniteSets, StateMachines

CONSTANTS
    Users,                          \* accounts; Owner is the tenant's OWNER
    Owner,
    Requests,                       \* requests that can be in flight at once
    MaxEvents,                      \* bound on timeline rows ever written
    None                            \* SQL NULL

ASSUME OwnerIsUser == Owner \in Users
ASSUME NoneIsNothing == None \notin Users \cup Rows
ASSUME EventBound == MaxEvents \in Nat

VARIABLES
    db,          \* committed rows
    timeline,    \* committed timeline_events, in commit order
    members,     \* users with a membership of the tenant
    notified,    \* broadcasts handed to the integrations: never rolled back
    tx,          \* one open transaction, or Idle, per request
    everMember   \* history: users that have been members at some time

vars == <<db, timeline, members, notified, tx, everMember>>

(***************************************************************************)
(* `stamped` says that the row's own time column is set: closedAt of an    *)
(* incident, decidedAt of a decision (set together with humanDecision and  *)
(* rationale), completedAt of an action.  `by` is decidedByUserId or       *)
(* assignedToUserId; `parent` is incidentId.                               *)
(***************************************************************************)
Row == [ status  : Statuses,
         parent  : Incidents \cup {None},
         stamped : BOOLEAN,
         by      : Users \cup {None} ]

AbsentRow ==
    [status |-> "ABSENT", parent |-> None, stamped |-> FALSE, by |-> None]

Event == [ row : Rows, from : Statuses, to : Statuses ]

Notice == [ row : Rows, by : Users \cup {None} ]

Ops == {"none", "create", "setStatus", "decide", "cancel"}

Labels == {"idle", "check", "write", "announce", "commit"}

\* `seen` is the row as the handler read it (for a create: the row to insert,
\* still ABSENT); `pend` is the uncommitted version after the write.
Tx == [ pc : Labels, op : Ops, row : Rows \cup {None}, to : Statuses,
        by : Users \cup {None}, seen : Row, pend : Row ]

Idle == [ pc |-> "idle", op |-> "none", row |-> None, to |-> "ABSENT",
          by |-> None, seen |-> AbsentRow, pend |-> AbsentRow ]

TypeOK ==
    /\ db \in [Rows -> Row]
    /\ timeline \in Seq(Event)
    /\ members \subseteq Users
    /\ notified \subseteq Notice
    /\ tx \in [Requests -> Tx]
    /\ everMember \subseteq Users

------------------------------------------------------------------------------
\* Statuses whose write also sets the time column; any other status write
\* copies the column from the row that was read.
Stamping == {"CLOSED", "DONE"}

Exists(x) == db[x].status # "ABSENT"

Fresh(x) == ~Exists(x) /\ \A s \in Requests : tx[s].row # x

\* An updated row is locked until its transaction ends.
Locked(x) == \E s \in Requests : tx[s].row = x /\ tx[s].pc \in {"announce", "commit"}

InFlight == {s \in Requests : tx[s].pc # "idle"}

\* The bound of the model: every transaction in flight may add one event.
Room == Len(timeline) + Cardinality(InFlight) < MaxEvents

Begin(r, pc, op, x, to, u, seen) ==
    /\ tx[r] = Idle
    /\ Room
    /\ tx' = [tx EXCEPT ![r] = [ pc |-> pc, op |-> op, row |-> x, to |-> to,
                                 by |-> u, seen |-> seen, pend |-> AbsentRow ]]
    /\ UNCHANGED <<db, timeline, members, notified, everMember>>

\* Faulty variant: the handler forgets assertValidTransition.
ReadUnchecked(r, pc, op, x, to, u) ==
    /\ Exists(x) /\ \E s \in Statuses : <<s, to>> \in Moves(x)
    /\ Begin(r, pc, op, x, to, u, db[x])

\* getXOrThrow and assertValidTransition on the row just read.
ReadForUpdate(r, pc, op, x, to, u) ==
    /\ <<db[x].status, to>> \in Moves(x)
    /\ Begin(r, pc, op, x, to, u, db[x])

------------------------------------------------------------------------------
(* What the requests start with: one action per handler. *)

\* IncidentsService.create
CreateIncident(r, i) ==
    /\ Fresh(i)
    /\ Begin(r, "write", "create", i, InitialStatus(i), None, AbsentRow)

\* DecisionsService.open: the incident must exist, in whatever status.
OpenDecision(r, d, i) ==
    /\ Fresh(d) /\ Exists(i)
    /\ Begin(r, "write", "create", d, InitialStatus(d), None,
             [AbsentRow EXCEPT !.parent = i])

\* ActionsService.create: an assignee, when given, must be a member.
CreateAction(r, a, i, u) ==
    /\ Fresh(a) /\ Exists(i)
    /\ Begin(r, IF u = None THEN "write" ELSE "check", "create", a,
             InitialStatus(a), u, [AbsentRow EXCEPT !.parent = i])

\* IncidentsService.updateStatus and ActionsService.updateStatus
UpdateStatus(r, x, to) == ReadForUpdate(r, "write", "setStatus", x, to, None)

\* DecisionsService.decide: `u` is the body's decidedByUserId.
Decide(r, d, u) == ReadForUpdate(r, "check", "decide", d, "DECIDED", u)

\* DecisionsService.cancel
Cancel(r, d) == ReadForUpdate(r, "write", "cancel", d, "CANCELLED", None)

------------------------------------------------------------------------------
(* The later steps of a request. *)

\* Faulty variant: the lookup's empty result is not looked at.
CheckMemberIgnored(r) ==
    /\ tx[r].pc = "check"
    /\ tx' = [tx EXCEPT ![r].pc = "write"]
    /\ UNCHANGED <<db, timeline, members, notified, everMember>>

\* The membership lookup of the named stakeholder or assignee; a user who is
\* not a member makes the handler throw, which rolls back.
CheckMember(r) ==
    /\ tx[r].pc = "check"
    /\ tx' = [tx EXCEPT ![r] = IF tx[r].by \in members
                               THEN [tx[r] EXCEPT !.pc = "write"]
                               ELSE Idle]
    /\ UNCHANGED <<db, timeline, members, notified, everMember>>

\* Faulty variant: the time column is left to what the row holds by now.
WrittenKeepsColumn(t) ==
    IF t.op = "create" THEN [t.seen EXCEPT !.status = t.to, !.by = t.by]
    ELSE [db[t.row] EXCEPT !.status = t.to,
                           !.stamped = @ \/ t.to \in Stamping \/ t.op = "decide",
                           !.by = IF t.op = "decide" THEN t.by ELSE @]

\* Faulty variant: the handler saves the whole row it read, as an ORM's save().
WrittenFromRead(t) ==
    [t.seen EXCEPT !.status = t.to,
                   !.stamped = @ \/ t.to \in Stamping \/ t.op = "decide",
                   !.by = IF t.op \in {"create", "decide"} THEN t.by ELSE @]

\* The columns each handler's create or update sets, over the current row.
Written(t) ==
    CASE t.op = "create" ->
            [t.seen EXCEPT !.status = t.to, !.by = t.by]
      [] t.op = "setStatus" ->
            [db[t.row] EXCEPT !.status = t.to,
                              !.stamped = t.to \in Stamping \/ t.seen.stamped]
      [] t.op = "decide" ->
            [db[t.row] EXCEPT !.status = t.to, !.stamped = TRUE, !.by = t.by]
      [] OTHER ->
            [db[t.row] EXCEPT !.status = t.to]

\* Faulty variant: decide forgets its broadcast.
AnnouncesIncidentsOnly(t) == t.op = "create" /\ t.row \in Incidents

\* Handlers that broadcast after their writes: incidentCreated, decisionDecided.
Announces(t) == t.op = "decide" \/ (t.op = "create" /\ t.row \in Incidents)

\* Faulty variant: the first read takes a shared lock, upgraded by the write.
WriteUpgrading(r) ==
    /\ tx[r].pc = "write"
    /\ \A s \in Requests \ {r} : tx[s].row # tx[r].row
    /\ tx' = [tx EXCEPT ![r] =
                [tx[r] EXCEPT !.pc = IF Announces(tx[r]) THEN "announce" ELSE "commit",
                              !.pend = Written(tx[r])]]
    /\ UNCHANGED <<db, timeline, members, notified, everMember>>

\* The create or update, once no other open transaction holds the row, and
\* the timelineEvent.create after it.
Write(r) ==
    /\ tx[r].pc = "write"
    /\ ~Locked(tx[r].row)
    /\ tx' = [tx EXCEPT ![r] =
                [tx[r] EXCEPT !.pc = IF Announces(tx[r]) THEN "announce" ELSE "commit",
                              !.pend = Written(tx[r])]]
    /\ UNCHANGED <<db, timeline, members, notified, everMember>>

\* integrations.broadcast, awaited inside the transaction.
Announce(r) ==
    /\ tx[r].pc = "announce"
    /\ notified' = notified \cup {[row |-> tx[r].row, by |-> tx[r].by]}
    /\ tx' = [tx EXCEPT ![r].pc = "commit"]
    /\ UNCHANGED <<db, timeline, members, everMember>>

EventOf(t) == [row |-> t.row, from |-> t.seen.status, to |-> t.to]

\* The handler returned: the row and its timeline event commit together.
Commit(r) ==
    /\ tx[r].pc = "commit"
    /\ db' = [db EXCEPT ![tx[r].row] = tx[r].pend]
    /\ timeline' = Append(timeline, EventOf(tx[r]))
    /\ tx' = [tx EXCEPT ![r] = Idle]
    /\ UNCHANGED <<members, notified, everMember>>

\* Faulty variant: the route runs without the transaction, so what was written
\* before the failure stays.
AbortKeepsRow(r) ==
    /\ tx[r].pc # "idle"
    /\ db' = IF tx[r].pc \in {"announce", "commit"}
             THEN [db EXCEPT ![tx[r].row] = tx[r].pend] ELSE db
    /\ tx' = [tx EXCEPT ![r] = Idle]
    /\ UNCHANGED <<timeline, members, notified, everMember>>

\* Rollback: a statement failed, the 30 s transaction timeout passed, or the
\* process or the database went away.
Abort(r) ==
    /\ tx[r].pc # "idle"
    /\ tx' = [tx EXCEPT ![r] = Idle]
    /\ UNCHANGED <<db, timeline, members, notified, everMember>>

\* TenantsService.addMember
AddMember(u) ==
    /\ u \notin members
    /\ members' = members \cup {u}
    /\ everMember' = everMember \cup {u}
    /\ UNCHANGED <<db, timeline, notified, tx>>

\* TenantsService.removeMember: the owner stays.
RemoveMember(u) ==
    /\ u \in members \ {Owner}
    /\ members' = members \ {u}
    /\ UNCHANGED <<db, timeline, notified, tx, everMember>>

------------------------------------------------------------------------------
Init ==
    /\ db = [x \in Rows |-> AbsentRow]
    /\ timeline = << >>
    /\ members = {Owner}
    /\ notified = {}
    /\ tx = [r \in Requests |-> Idle]
    /\ everMember = {Owner}

BeginRequest(r) ==
    \/ \E i \in Incidents : CreateIncident(r, i)
    \/ \E d \in Decisions, i \in Incidents : OpenDecision(r, d, i)
    \/ \E a \in Actions, i \in Incidents, u \in Users \cup {None} :
           CreateAction(r, a, i, u)
    \/ \E x \in Incidents \cup Actions, to \in Statuses : UpdateStatus(r, x, to)
    \/ \E d \in Decisions, u \in Users : Decide(r, d, u)
    \/ \E d \in Decisions : Cancel(r, d)

Next ==
    \/ \E r \in Requests :
          BeginRequest(r) \/ CheckMember(r) \/ Write(r) \/ Announce(r)
             \/ Commit(r) \/ Abort(r)
    \/ \E u \in Users : AddMember(u) \/ RemoveMember(u)

\* A handler keeps running, and Postgres queues the waiters of a row lock, so
\* a write that can repeatedly take the lock eventually does.
Fairness ==
    \A r \in Requests :
        /\ WF_vars(CheckMember(r))
        /\ SF_vars(Write(r))
        /\ WF_vars(Announce(r))
        /\ WF_vars(Commit(r))

Spec == Init /\ [][Next]_vars

FairSpec == Spec /\ Fairness

------------------------------------------------------------------------------
(* What the room promises to those who only see its committed rows. *)

\* The statuses the timeline says a row has had.
Told(x) == {timeline[k].to : k \in {j \in 1..Len(timeline) : timeline[j].row = x}}

Promise == INSTANCE RoomPromise
    WITH status <- [x \in Rows |-> db[x].status],
         reached <- [x \in Rows |-> Told(x)]

------------------------------------------------------------------------------
(* Properties. *)

\* Principle 1 (DecisionsService.decide, schema.prisma on Decision): a DECIDED
\* decision carries its decision text and time, and names somebody who was a
\* member of the tenant when named, whatever requests interleaved with the
\* lookup, the write and the commit.
DecidedNamesStakeholder ==
    \A d \in Decisions :
        db[d].status = "DECIDED" => db[d].stamped /\ db[d].by \in everMember

\* IncidentsService.updateStatus and ActionsService.updateStatus write the time
\* column from a row read earlier, which may be stale; still closedAt is set
\* exactly on CLOSED incidents and completedAt exactly on DONE actions.
StampedExactlyAtEnd ==
    \A x \in Incidents \cup Actions :
        db[x].stamped <=> db[x].status \in Stamping

\* Every handler writes its timeline row in the transaction of its update, and
\* the row lock is held until commit: the last event of a row in commit order
\* always explains the row's committed status.
LastEventExplainsRow ==
    \A x \in Rows :
        Exists(x) => \E k \in 1..Len(timeline) :
                        /\ timeline[k].row = x
                        /\ timeline[k].to = db[x].status
                        /\ \A j \in k + 1 .. Len(timeline) : timeline[j].row # x

\* The status an event says it left had really been reached before: nothing
\* rolled back or uncommitted is ever built upon, so no status of the map is
\* left out of a row's history, however late a request writes.
EventsBuildOnHistory ==
    \A k \in 1..Len(timeline) :
        LET e == timeline[k] IN
        e.from # "ABSENT" =>
            /\ <<e.from, e.to>> \in Moves(e.row)
            /\ \E j \in 1 .. k - 1 :
                  timeline[j].row = e.row /\ timeline[j].to = e.from

\* An incident or a decided decision that others can see has been broadcast to
\* the integrations with the stakeholder the row names: the broadcast is
\* awaited before the commit.
VisibleWasAnnounced ==
    \A x \in Rows :
        (\/ x \in Incidents /\ Exists(x)
         \/ x \in Decisions /\ db[x].status = "DECIDED") =>
            [row |-> x, by |-> db[x].by] \in notified

\* Once a decision names its stakeholder no later write clears the name: the
\* stale writes of decide and cancel may replace the status, never the record
\* that a human decided.
StakeholderNeverCleared ==
    [][\A d \in Decisions : db[d].by # None => db'[d].by # None]_vars

\* A request never waits for ever on the row locks of the others: each holds
\* at most one lock, taken by its last statement on a shared row.
RequestsFinish ==
    \A r \in Requests : tx[r].pc # "idle" ~> tx[r].pc = "idle"

\* All that concurrent handlers leave of assertValidTransition, and what the rest
\* of the API may rely on: seen from outside, a row is inserted once and then
\* moves legally from some status it has had, not always its present one.
KeepsPromise == Promise!Spec

\* state-machine.ts: re-deciding a DECIDED row "must be rejected, not silently
\* accepted"; the decision map leaves no way out of DECIDED or CANCELLED.
DecisionIsTerminal ==
    [][\A d \in Decisions :
          db[d].status \in {"DECIDED", "CANCELLED"} => db'[d] = db[d]]_vars

\* incident.state-machine.ts: "Linear lifecycle, no skipping and no going
\* backward".
IncidentIsLinear ==
    [][\A i \in Incidents :
          db'[i].status # db[i].status =>
              Rank(db'[i].status) = Rank(db[i].status) + 1]_vars

==============================================================================
