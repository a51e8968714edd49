---------------------------- MODULE CommandCenter ----------------------------
(***************************************************************************)
(* The web console's command center (app/page.tsx) and its Reports tab     *)
(* (ReportsPanel and the four panels it composes), against an API whose    *)
(* rows other people change.                                               *)
(*                                                                         *)
(* The page reads the incident list once and never refreshes it.  For the  *)
(* selected incident it polls: Promise.all applies the GETs of one poll    *)
(* together, or none of them.  Polls may overlap and overtake each other.  *)
(* No property relates two parts, so a poll is served in one step; polls   *)
(* are a set: two that nothing tells apart yet are one.                    *)
(* The panels of the Reports tab GET once, when they mount or their        *)
(* incident changes, without a cancelled flag, and prepend what they POST. *)
(*                                                                         *)
(* React: a component that is not rendered loses its state, and the        *)
(* answers of its requests are dropped; a component that stays keeps both. *)
(***************************************************************************)
EXTENDS Integers, FiniteSets

CONSTANTS
    Incidents,
    Closed,         \* those that are CLOSED from the start
    Parts,          \* what one poll reads: "summary", "timeline", "analyses"
    Panels,         \* what the Reports tab reads, one list each
    MaxPolls,       \* bound on the polls in flight
    MaxRows,        \* bound on the rows of one list of one incident
    MaxChanges,     \* bound on what is written to the API, rows and statuses
    MaxPosts,       \* bound on the POSTs in flight
    None,           \* null
    Failed          \* the answer of a request that did not get through

ASSUME Lists ==
    /\ {"summary", "analyses"} \subseteq Parts
    /\ Parts \subseteq {"summary", "timeline", "analyses"}
    /\ Panels \subseteq {"decisions", "briefs", "reports", "outcomes", "lessons"}
ASSUME ConsoleBounds ==
    {MaxPolls, MaxRows, MaxChanges, MaxPosts} \subseteq Nat /\ MaxRows > 0

VARIABLES
    status,         \* API: of each incident, only whether it is CLOSED counts,
                    \* and whether it has been
    rows,           \* API: how many rows each list of each incident has
    changes,        \* API: how often they changed
    session,        \* the stored token: "none", "valid", or "refused" (expired,
                    \* or of another tenant since another tab signed in)
    loadState,
    listed,         \* the incidents as listed when the page loaded
    sel,            \* selectedIncidentId
    view,           \* summary, timeline and analyses as shown
    polls,
    tab,            \* the active tab; "none" when the tabs are not rendered
    shown,          \* the lists of the Reports tab's panels
    busy,           \* the forms whose submit button is disabled
    asks,           \* GETs of the panels
    posts           \* POSTs of the forms

page == <<session, loadState, listed, sel>>
api == <<status, rows, changes>>
reports == <<tab, shown, busy, asks, posts>>
consoleVars == <<api, page, view, polls, reports>>

Feeds == Parts \cup Panels
ClosedOnly == {"lessons", "outcomes"}       \* the forms shown when CLOSED
PerDecision == {"reports", "outcomes"}      \* the lists read per decision
Forms == (Panels \ {"decisions"}) \cup {"analyses"}

\* "OPEN" has never been CLOSED; "OVERWRITTEN" has, and an earlier status was
\* written over it.
Stages == {"OPEN", "CLOSED", "OVERWRITTEN"}

Row == Incidents \X (1..MaxRows)
Truth(f, i) == {i} \X (1..rows[f][i])
Blank == [p \in Parts |-> None]
NoLists == [p \in Panels |-> None]

Answer == {None, Failed} \cup SUBSET Row
Poll == [inc : Incidents, cancelled : BOOLEAN,
         ans : {None, Failed} \cup [Parts -> SUBSET Row]]
Ask == [feed : Panels, inc : Incidents, ans : Answer]

\* `heard` says who still listens for the answer: the form, only the page
\* (onCreated of an unmounted form), or nobody.
Post == [feed : Forms, inc : Incidents, heard : {"form", "page", "none"}, ans : Answer]

ASSUME NullIsNoAnswer ==
    /\ None \notin Incidents /\ Failed # None
    /\ \A list \in SUBSET Row : list # None /\ list # Failed
    /\ \A lists \in [Parts -> SUBSET Row] : lists # None /\ lists # Failed
    /\ \A l \in [Incidents -> Stages] : l # None

ConsoleTypeOK ==
    /\ status \in [Incidents -> Stages]
    /\ rows \in [Feeds -> [Incidents -> 0..MaxRows]]
    /\ changes \in 0..MaxChanges
    /\ session \in {"none", "valid", "refused"}
    /\ loadState \in {"checking-auth", "loading", "ready", "error"}
    /\ listed \in {None} \cup [Incidents -> Stages]
    /\ sel \in Incidents \cup {None}
    /\ view \in [Parts -> {None} \cup SUBSET Row]
    /\ polls \subseteq Poll
    /\ tab \in {"none", "command-center", "intelligence", "reports"}
    /\ shown \in [Panels -> {None} \cup SUBSET Row]
    /\ busy \subseteq Forms
    /\ asks \subseteq Ask
    /\ posts \subseteq Post

------------------------------------------------------------------------------
\* The tabs are rendered when the page has a token and a summary; they open on
\* the first tab whenever they mount.
TabAfter(v) ==
    IF session = "none" \/ v["summary"] = None THEN "none"
    ELSE IF tab = "none" THEN "command-center" ELSE tab

\* A request carries the token stored when it is sent: with any other token
\* than a valid one its answer is a refusal, whenever it comes.
Unanswered == IF session = "valid" THEN None ELSE Failed

\* The GETs the Reports tab's effects send for incident i.
Effects(i) == [feed : Panels \ PerDecision, inc : {i}, ans : {Unanswered}]

\* What a form that is no longer rendered leaves behind: its POST goes on.
Deafen(qs, fs) ==
    {IF q.feed \in fs /\ q.heard = "form"
     THEN [q EXCEPT !.heard = IF q.feed = "analyses" THEN "page" ELSE "none"]
     ELSE q : q \in qs}

\* React renders the tabs with tab t and incident i; the forms bs are busy and
\* the POSTs qs on their way.
Render(t, i, bs, qs) ==
    LET stays == t = "reports" /\ tab = "reports"
        gone == {f \in Forms : IF f = "analyses" THEN t # "intelligence" ELSE ~stays}
    IN  /\ tab' = t
        /\ shown' = IF stays /\ i = sel THEN shown ELSE NoLists
        /\ asks' = (IF stays THEN asks ELSE {})
                   \cup (IF t = "reports" /\ ~(stays /\ i = sel) THEN Effects(i) ELSE {})
        /\ busy' = bs \ gone
        /\ posts' = Deafen(qs, gone)

Sent(i) == [inc |-> i, cancelled |-> FALSE, ans |-> Unanswered]

\* The effect on selectedIncidentId: the old polls are cancelled, what was shown
\* is blanked, and a first refresh is sent.
Show(i) ==
    /\ Cardinality(polls) < MaxPolls
    /\ sel' = i
    /\ view' = Blank
    /\ polls' = {[q EXCEPT !.cancelled = TRUE] : q \in polls} \cup {Sent(i)}
    /\ Render("none", i, busy, posts)

------------------------------------------------------------------------------
\* The page mounts: without a token it only offers to sign in.
OpenPage ==
    /\ loadState = "checking-auth"
    /\ loadState' = IF session = "none" THEN "ready" ELSE "loading"
    /\ UNCHANGED <<api, session, listed, sel, view, polls, reports>>

\* GET /incidents: the first incident of the list is selected.
ListIncidents ==
    /\ loadState = "loading"
    /\ IF session = "valid"
       THEN /\ loadState' = "ready"
            /\ listed' = status
            /\ \E i \in Incidents : Show(i)
       ELSE /\ loadState' = "error"
            /\ UNCHANGED <<listed, sel, view, polls, reports>>
    /\ UNCHANGED <<api, session>>

\* Another incident of the list (also on a page not rendered since its token
\* went away in another tab).
Select(i) ==
    /\ listed # None /\ i # sel
    /\ Show(i)
    /\ UNCHANGED <<api, session, loadState, listed>>

\* Faulty variant: the page reads once, when the incident is selected.
RefreshNever == FALSE /\ UNCHANGED consoleVars

\* setInterval's refresh.
Refresh ==
    /\ sel # None
    /\ Cardinality(polls) < MaxPolls
    /\ polls' = polls \cup {Sent(sel)}
    /\ UNCHANGED <<api, page, view, reports>>

\* The API answers a poll; or the network, or the API, fails it.
AnswerPoll(q, a) ==
    /\ q.ans = None
    /\ polls' = (polls \ {q}) \cup {[q EXCEPT !.ans = a]}
    /\ UNCHANGED <<api, page, view, reports>>

ServePoll(q) == AnswerPoll(q, [p \in Parts |-> Truth(p, q.inc)])
LosePoll(q) == AnswerPoll(q, Failed)

\* Faulty variant: the cancelled flag is not looked at.
ApplyAny(q) ==
    /\ q.ans \notin {None, Failed}
    /\ polls' = polls \ {q} /\ view' = q.ans
    /\ Render(TabAfter(q.ans), sel, busy, posts)
    /\ UNCHANGED <<api, page>>

\* Promise.all resolves: the answers are shown together.
Apply(q) ==
    /\ q.ans \notin {None, Failed}
    /\ polls' = polls \ {q}
    /\ IF q.cancelled
       THEN UNCHANGED <<view, reports>>
       ELSE view' = q.ans /\ Render(TabAfter(q.ans), sel, busy, posts)
    /\ UNCHANGED <<api, page>>

\* Promise.all rejects: setErrorMessage, which a page that is ready never
\* shows; what was shown stays, and the page is rendered again.
PollFails(q) ==
    /\ q.ans = Failed
    /\ polls' = polls \ {q}
    /\ IF q.cancelled THEN UNCHANGED reports
       ELSE Render(TabAfter(view), sel, busy, posts)
    /\ UNCHANGED <<api, page, view>>

\* Sign out, another page of the console, or a reload: the page unmounts.
Leave(token) ==
    /\ loadState # "checking-auth"
    /\ session' = token
    /\ loadState' = "checking-auth" /\ listed' = None /\ sel' = None
    /\ view' = Blank
    /\ polls' = {}
    /\ tab' = "none" /\ shown' = NoLists /\ busy' = {} /\ asks' = {}
    /\ posts' = {[q EXCEPT !.heard = "none"] : q \in posts}
    /\ UNCHANGED api

SignOut == session # "none" /\ Leave("none")
Reload == Leave(session)

\* The token expires, or another tab signs in or out: this page does not look.
TokenChanges ==
    /\ session' \in CASE session = "valid" -> {"none", "refused"}
                      [] session = "refused" -> {"none"}
                      [] session = "none" -> {"valid"}
    /\ UNCHANGED <<api, loadState, listed, sel, view, polls, reports>>

------------------------------------------------------------------------------
OpenTab(t) ==
    /\ tab \notin {"none", t}
    /\ Render(t, sel, busy, posts)
    /\ UNCHANGED <<api, page, view, polls>>

\* A panel's GET is served, and later its answer is shown, whatever the panel
\* shows by then.  The lists per decision are read once decisions are known.
ServeAsk(a) ==
    /\ a.ans = None
    /\ \E x \in {Failed, Truth(a.feed, a.inc)} :
          asks' = (asks \ {a}) \cup {[a EXCEPT !.ans = x]}
    /\ UNCHANGED <<api, page, view, polls, tab, shown, busy, posts>>

ShowAsk(a) ==
    LET rest == asks \ {a}
        perDecision == [feed : Panels \cap PerDecision, inc : {a.inc}, ans : {Unanswered}]
    IN  /\ a.ans # None
        /\ IF a.ans = Failed
           THEN asks' = rest /\ UNCHANGED shown
           ELSE /\ shown' = [p \in Panels |->
                               IF p = a.feed THEN a.ans
                               ELSE IF a.feed = "decisions" /\ p \in PerDecision THEN None
                               ELSE shown[p]]
                /\ asks' = rest \cup
                     (IF a.feed = "decisions" /\ a.ans # {} THEN perDecision ELSE {})
        /\ UNCHANGED <<api, page, view, polls, tab, busy, posts>>

\* A form is offered when the list says CLOSED, where that is asked; an outcome
\* also needs the answer that there is none (404), a report a decision.
Offered(f) ==
    /\ f \in ClosedOnly => listed[sel] = "CLOSED"
    /\ f = "outcomes" => shown[f] = {}
    /\ f \in PerDecision => shown["decisions"] \notin {None, {}}

Submit(f) ==
    /\ tab = IF f = "analyses" THEN "intelligence" ELSE "reports"
    /\ f \notin busy /\ Offered(f)
    /\ Cardinality(posts) < MaxPosts
    /\ busy' = busy \cup {f}
    /\ posts' = posts \cup {[feed |-> f, inc |-> sel, heard |-> "form",
                             ans |-> Unanswered]}
    /\ UNCHANGED <<api, page, view, polls, tab, shown, asks>>

\* The API serves a POST, or it fails.  It refuses a closed-only row of an
\* incident that is not CLOSED, and a second outcome.
Accepted(q) ==
    /\ rows[q.feed][q.inc] < MaxRows /\ changes < MaxChanges
    /\ q.feed \in ClosedOnly => status[q.inc] = "CLOSED"
    /\ q.feed = "outcomes" => rows[q.feed][q.inc] = 0

ServePost(q) ==
    LET n == rows[q.feed][q.inc] + 1
        heard(a) == IF q.heard = "none" THEN {} ELSE {[q EXCEPT !.ans = a]}
    IN  /\ q.ans = None
        /\ \/ /\ Accepted(q)
              /\ rows' = [rows EXCEPT ![q.feed][q.inc] = n]
              /\ changes' = changes + 1
              /\ posts' = (posts \ {q}) \cup heard({<<q.inc, n>>})
           \/ /\ posts' = (posts \ {q}) \cup heard(Failed)
              /\ UNCHANGED <<rows, changes>>
        /\ UNCHANGED <<status, page, view, polls, tab, shown, busy, asks>>

\* The answer is prepended to what is shown then: in the page for an analysis
\* (onCreated, whichever incident is selected), else in the panel.
Held(list) == IF list = None THEN {} ELSE list

\* Faulty variant: only a POST that succeeds enables its button again.
FreedBySuccess(q) == IF q.heard = "form" /\ q.ans # Failed THEN {q.feed} ELSE {}

Freed(q) == IF q.heard = "form" THEN {q.feed} ELSE {}

Created(q) ==
    LET freed == busy \ Freed(q)
        others == posts \ {q}
        v == [view EXCEPT !["analyses"] = Held(@) \cup q.ans]
    IN  /\ q.ans # None /\ q.heard # "none"
        /\ \/ /\ q.ans # Failed /\ q.feed = "analyses"
              /\ view' = v
              /\ Render(TabAfter(v), sel, freed, others)
           \/ /\ q.ans = Failed \/ q.feed # "analyses"
              /\ busy' = freed /\ posts' = others
              /\ shown' = IF q.ans = Failed THEN shown
                          ELSE [shown EXCEPT ![q.feed] = Held(@) \cup q.ans]
              /\ UNCHANGED <<view, tab, asks>>
        /\ UNCHANGED <<api, page, polls>>

\* Other people add a row.
SomeoneAdds(f, i) ==
    /\ rows[f][i] < MaxRows /\ changes < MaxChanges
    /\ f \in ClosedOnly => status[i] = "CLOSED"
    /\ f = "outcomes" => rows[f][i] = 0
    /\ rows' = [rows EXCEPT ![f][i] = @ + 1] /\ changes' = changes + 1
    /\ UNCHANGED <<status, page, view, polls, reports>>

\* They change the status.  The API validates the change on a read and updates
\* by id, so one that was read before another closed the incident is written
\* over CLOSED.
SomeoneUpdatesStatus(i) ==
    /\ changes < MaxChanges
    /\ status' = [status EXCEPT ![i] = IF @ = "CLOSED" THEN "OVERWRITTEN" ELSE "CLOSED"]
    /\ changes' = changes + 1
    /\ UNCHANGED <<rows, page, view, polls, reports>>

------------------------------------------------------------------------------
ConsoleInit ==
    /\ status = [i \in Incidents |-> IF i \in Closed THEN "CLOSED" ELSE "OPEN"]
    /\ rows = [f \in Feeds |-> [i \in Incidents |-> IF f = "decisions" THEN 1 ELSE 0]]
    /\ changes = 0
    /\ session = "valid" /\ loadState = "checking-auth"
    /\ listed = None /\ sel = None
    /\ view = Blank /\ polls = {}
    /\ tab = "none" /\ shown = NoLists /\ busy = {}
    /\ asks = {} /\ posts = {}

PollStep ==
    Refresh \/ \E q \in polls : ServePoll(q) \/ LosePoll(q) \/ Apply(q) \/ PollFails(q)
PageStep ==
    OpenPage \/ ListIncidents \/ SignOut \/ Reload \/ TokenChanges
        \/ \E i \in Incidents : Select(i)
ReportsStep ==
    \/ \E t \in {"command-center", "intelligence", "reports"} : OpenTab(t)
    \/ \E a \in asks : ServeAsk(a) \/ ShowAsk(a)
    \/ \E f \in Forms : Submit(f)
    \/ \E q \in posts : ServePost(q) \/ Created(q)
OthersStep ==
    \E i \in Incidents : SomeoneUpdatesStatus(i) \/ \E f \in Feeds : SomeoneAdds(f, i)

ConsoleNext == PollStep \/ PageStep \/ ReportsStep \/ OthersStep

ConsoleSpec == ConsoleInit /\ [][ConsoleNext]_consoleVars

\* The interval goes on, what was sent is settled, and of the polls that are
\* sent again and again some get through.  Nothing is assumed of people, tokens
\* or the other tabs.
ConsoleFairness ==
    /\ WF_consoleVars(Refresh)
    /\ SF_consoleVars(\E q \in polls : ~q.cancelled /\ ServePoll(q))
    /\ WF_consoleVars(\E q \in polls : Apply(q))
    /\ WF_consoleVars(\E q \in polls : PollFails(q))
    /\ WF_consoleVars(\E q \in posts : ServePost(q) \/ Created(q))

------------------------------------------------------------------------------
\* What a panel or the page shows belongs to the selected incident, although
\* answers of the incident left behind still arrive, in any order.  (The list
\* of analyses is the exception: onCreated prepends to whatever it shows.)
ScreenOfSelected ==
    /\ \A p \in Parts \ {"analyses"} :
          view[p] # None => \A r \in view[p] : r[1] = sel
    /\ \A p \in Panels :
          shown[p] # None => \A r \in shown[p] : r[1] = sel

\* A form's button is disabled exactly as long as one POST of that form is on
\* its way, whatever is selected, left and opened again meanwhile: it is neither
\* stuck nor sends twice.  The POST is about the selected incident; and where the
\* form is for CLOSED incidents only, that one has been CLOSED, although the page
\* judges by the list it read when it loaded (it need not be CLOSED any more).
AwaitedBy(f) == {q \in posts : q.feed = f /\ q.heard = "form"}

FormsWait ==
    \A f \in Forms :
        /\ f \in busy <=> AwaitedBy(f) # {}
        /\ \A q, o \in AwaitedBy(f) : q = o
        /\ \A q \in AwaitedBy(f) :
              q.inc = sel /\ (f \in ClosedOnly => status[q.inc] # "OPEN")

\* When an incident stays selected and the token stays good, the page ends up
\* showing what the API holds, whatever was lost, came late or was prepended
\* meanwhile.
Converges ==
    \A i \in Incidents :
        <>[](sel = i /\ session = "valid") =>
            <>[](\A p \in Parts : view[p] = Truth(p, i))

=============================================================================
