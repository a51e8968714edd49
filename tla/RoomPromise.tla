----------------------------- MODULE RoomPromise -----------------------------
(***************************************************************************)
(* The rooms of a tenant as the other services see them: the committed     *)
(* status of every row and the statuses it has had.  IncidentRoom, with    *)
(* its transactions, locks and stale reads, implements this specification. *)
(*                                                                         *)
(* A change is validated against a row read earlier, so it starts at a     *)
(* status the row has HAD: two cancellations, or a decision over a         *)
(* decision, or an incident thrown back a stage, are all possible; a       *)
(* status nobody moved to, or a row inserted twice, is not.                *)
(***************************************************************************)
EXTENDS StateMachines

VARIABLES
    status,     \* committed status of each row
    reached     \* the statuses the row has had

vars == <<status, reached>>

MoveTo(x, to) ==
    /\ status' = [status EXCEPT ![x] = to]
    /\ reached' = [reached EXCEPT ![x] = @ \cup {to}]

Insert(x) ==
    /\ status[x] = "ABSENT"
    /\ MoveTo(x, InitialStatus(x))

Move(x, from, to) ==
    /\ from \in reached[x]
    /\ <<from, to>> \in Moves(x)
    /\ MoveTo(x, to)

Init ==
    /\ status = [x \in Rows |-> "ABSENT"]
    /\ reached = [x \in Rows |-> {}]

Next == \E x \in Rows :
    Insert(x) \/ \E from, to \in Statuses : Move(x, from, to)

Spec == Init /\ [][Next]_vars

==============================================================================
