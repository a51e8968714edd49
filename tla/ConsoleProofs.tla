----------------------------- MODULE ConsoleProofs -----------------------------
(***************************************************************************)
(* Theorems about the web console, for any incidents, any number of rows   *)
(* and requests, and drafts of any length.                                 *)
(*                                                                         *)
(* Command center: what is on its way to be shown belongs to the incident  *)
(* it was asked for, and only what was asked for the selected incident is  *)
(* still listened to, because selecting another one unmounts every panel.  *)
(* Other pages: a page waits for one request of a control at a time, and   *)
(* it is newer than what the control shows.                                *)
(***************************************************************************)
EXTENDS CommandCenter, DraftForm, ConsolePages, SequenceTheorems, TLAPS

Of(i, list) == \A r \in list : r[1] = i
Arrived(x) == x \notin {None, Failed}

\* A poll that counts is of the selected incident; its answer of its own.
PollsInv ==
    \A q \in polls : /\ ~q.cancelled => q.inc = sel
                     /\ Arrived(q.ans) => \A p \in Parts : Of(q.inc, q.ans[p])

AskOk(a, i) == a.inc = i /\ (Arrived(a.ans) => Of(a.inc, a.ans))

PostOk(q, i) ==
    /\ Arrived(q.ans) => Of(q.inc, q.ans)
    /\ q.heard = "form" => q.inc = i
    /\ q.heard = "page" => q.feed = "analyses"

RequestsInv == (\A a \in asks : AskOk(a, sel)) /\ \A q \in posts : PostOk(q, sel)

\* Nothing is rendered before an incident is selected, nor selected before the
\* list is there.
SelectedInv ==
    /\ view["summary"] # None \/ tab # "none" => sel # None
    /\ sel # None => listed # None

\* What has been CLOSED stays so that it has: what the list said still tells that.
OnceClosed == \A q \in posts : q.feed \in ClosedOnly => status[q.inc] # "OPEN"

ListedInv ==
    /\ listed # None => \A i \in Incidents : listed[i] = "CLOSED" => status[i] # "OPEN"
    /\ OnceClosed

\* Of the requests qs, the forms bs wait for one each, and no other form for any.
Waits(bs, qs) ==
    /\ \A f \in Forms : f \in bs <=> \E q \in qs : q.feed = f /\ q.heard = "form"
    /\ \A q, o \in qs : q.heard = "form" /\ o.heard = "form" /\ q.feed = o.feed => q = o

ConsoleInv ==
    /\ ConsoleTypeOK /\ PollsInv /\ RequestsInv /\ SelectedInv /\ ListedInv
    /\ ScreenOfSelected /\ Waits(busy, posts)

------------------------------------------------------------------------------
Tabs == {"none", "command-center", "intelligence", "reports"}

\* A request of another one's form for the same row.
Twin(q, o) == q.feed = o.feed /\ q.inc = o.inc /\ q.ans = o.ans

\* A list holds rows only: null and a failure are told apart from it.
LEMMA ListsAreNotNull ==
    /\ None \notin Incidents /\ Failed # None
    /\ None \notin SUBSET Row /\ Failed \notin SUBSET Row
    /\ None \notin [Parts -> SUBSET Row] /\ Failed \notin [Parts -> SUBSET Row]
    /\ None \notin [Incidents -> Stages]
BY NullIsNoAnswer

\* A form that is gone leaves requests of the same kind behind.
LEMMA DeafenFacts ==
    ASSUME NEW qs \in SUBSET Post, NEW fs \in SUBSET Forms
    PROVE  /\ Deafen(qs, fs) \subseteq Post
           /\ \A q \in Deafen(qs, fs) : \E o \in qs :
                 /\ Twin(q, o)
                 /\ q.feed \in fs => q.heard # "form"
                 /\ q.heard = "form" => o.heard = "form"
                 /\ q.heard = "page" => o.heard = "page" \/ o.feed = "analyses"
           /\ \A q \in Deafen(qs, fs) : q.heard = "form" => q \in qs
           /\ \A o \in qs : o.feed \notin fs => o \in Deafen(qs, fs)
<1>1. ASSUME NEW q \in Deafen(qs, fs)
      PROVE  /\ q \in Post
             /\ \E o \in qs :
                 /\ Twin(q, o)
                 /\ q.feed \in fs => q.heard # "form"
                 /\ q.heard = "form" => o.heard = "form"
                 /\ q.heard = "page" => o.heard = "page" \/ o.feed = "analyses"
             /\ q.heard = "form" => q \in qs
  <2>1. PICK o \in qs : q = IF o.feed \in fs /\ o.heard = "form"
               THEN [o EXCEPT !.heard = IF o.feed = "analyses" THEN "page" ELSE "none"]
               ELSE o
    BY <1>1 DEF Deafen
  <2>2. o \in Post
    OBVIOUS
  <2> QED
    BY <2>1, <2>2 DEF Post, Twin
<1>2. ASSUME NEW o \in qs, o.feed \notin fs PROVE o \in Deafen(qs, fs)
  BY <1>2 DEF Deafen
<1> QED
  BY <1>1, <1>2

\* Who is gone waits no more, and who stays waits on.
LEMMA DeafenWaits ==
    ASSUME NEW bs, NEW qs \in SUBSET Post, NEW fs \in SUBSET Forms, Waits(bs, qs)
    PROVE  Waits(bs \ fs, Deafen(qs, fs))
<1>1. PICK ds : ds = Deafen(qs, fs)
  OBVIOUS
<1>2. /\ \A q \in ds : q.heard = "form" => q \in qs /\ q.feed \notin fs
      /\ \A o \in qs : o.feed \notin fs => o \in ds
  BY <1>1, DeafenFacts
<1>3. Waits(bs \ fs, ds)
  BY <1>2 DEF Waits
<1> QED
  BY <1>1, <1>3

\* A form hears of its request: it waits no more.
LEMMA FreedWaits ==
    ASSUME NEW bs, NEW qs \in SUBSET Post, NEW q \in qs, Waits(bs, qs)
    PROVE  Waits(bs \ Freed(q), qs \ {q})
BY DEF Waits, Freed

\* What rendering keeps, for the incident i that is selected then: the one that
\* was, or another one under which no tab is left mounted.
LEMMA RenderFacts ==
    ASSUME ConsoleInv, NEW t \in Tabs, NEW i \in Incidents \cup {None},
           NEW bs \in SUBSET Forms, NEW qs \in SUBSET Post,
           \A q \in qs : PostOk(q, sel), Waits(bs, qs),
           t = "reports" => i \in Incidents,
           i = sel \/ t = "none",
           Render(t, i, bs, qs)
    PROVE  /\ tab' = t /\ busy' \subseteq Forms
           /\ shown' \in [Panels -> {None} \cup SUBSET Row]
           /\ \A p \in Panels : shown'[p] # None => Of(i, shown'[p])
           /\ asks' \subseteq Ask /\ \A a \in asks' : AskOk(a, i)
           /\ posts' \subseteq Post /\ \A q \in posts' : PostOk(q, i)
           /\ \A q \in posts' : \E o \in qs : Twin(q, o)
           /\ Waits(busy', posts')
<1> DEFINE stays == t = "reports" /\ tab = "reports"
           gone == {f \in Forms : IF f = "analyses" THEN t # "intelligence" ELSE ~stays}
<1>1. /\ tab' = t /\ busy' = bs \ gone /\ posts' = Deafen(qs, gone)
      /\ shown' = IF stays /\ i = sel THEN shown ELSE NoLists
      /\ asks' = (IF stays THEN asks ELSE {})
                 \cup (IF t = "reports" /\ ~(stays /\ i = sel) THEN Effects(i) ELSE {})
  BY DEF Render
<1>2. /\ shown' \in [Panels -> {None} \cup SUBSET Row]
      /\ \A p \in Panels : shown'[p] # None => Of(i, shown'[p])
  BY <1>1 DEF ConsoleInv, ConsoleTypeOK, ScreenOfSelected, NoLists, Of
<1>3. asks' \subseteq Ask /\ \A a \in asks' : AskOk(a, i)
  <2>1. stays => i = sel
    OBVIOUS
  <2>2. \A a \in asks : stays => a \in Ask /\ AskOk(a, i)
    BY <2>1 DEF ConsoleInv, ConsoleTypeOK, RequestsInv
  <2>3. ASSUME t = "reports", NEW a \in Effects(i) PROVE a \in Ask /\ AskOk(a, i)
    <3>1. a \in [feed : Panels \ PerDecision, inc : {i}, ans : {Unanswered}]
      BY <2>3 DEF Effects
    <3>2. Unanswered \in {None, Failed}
      BY DEF Unanswered
    <3>3. i \in Incidents
      BY <2>3
    <3> QED
      BY <3>1, <3>2, <3>3 DEF Ask, AskOk, Arrived, Answer
  <2> QED
    BY <1>1, <2>2, <2>3
<1>4. posts' \subseteq Post /\ \A q \in posts' : \E o \in qs : Twin(q, o)
  BY <1>1, DeafenFacts
<1>5. ASSUME NEW q \in posts' PROVE PostOk(q, i)
  <2>1. PICK o \in qs :
           /\ Twin(q, o)
           /\ q.feed \in gone => q.heard # "form"
           /\ q.heard = "form" => o.heard = "form"
           /\ q.heard = "page" => o.heard = "page" \/ o.feed = "analyses"
    BY <1>1, DeafenFacts
  <2>2. PostOk(o, sel)
    OBVIOUS
  <2>3. q.feed \in Forms
    BY <1>4 DEF Post
  <2>4. i # sel => q.feed \in gone
    BY <2>3
  <2> QED
    BY <2>1, <2>2, <2>4 DEF PostOk, Twin
<1>6. Waits(busy', posts')
  BY <1>1, DeafenWaits
<1> QED
  BY <1>1, <1>2, <1>3, <1>4, <1>5, <1>6

------------------------------------------------------------------------------
\* The invariant in two halves: the Reports tab, and all the rest.
ReportsOk ==
    /\ tab \in Tabs /\ busy \subseteq Forms /\ asks \subseteq Ask /\ posts \subseteq Post
    /\ shown \in [Panels -> {None} \cup SUBSET Row]
    /\ RequestsInv /\ OnceClosed /\ Waits(busy, posts)
    /\ \A p \in Panels : shown[p] # None => Of(sel, shown[p])

RestOk ==
    /\ status \in [Incidents -> Stages]
    /\ rows \in [Feeds -> [Incidents -> 0..MaxRows]]
    /\ changes \in 0..MaxChanges
    /\ session \in {"none", "valid", "refused"}
    /\ loadState \in {"checking-auth", "loading", "ready", "error"}
    /\ listed \in {None} \cup [Incidents -> Stages]
    /\ sel \in Incidents \cup {None}
    /\ view \in [Parts -> {None} \cup SUBSET Row]
    /\ polls \subseteq Poll /\ PollsInv /\ SelectedInv
    /\ listed # None => \A i \in Incidents : listed[i] = "CLOSED" => status[i] # "OPEN"
    /\ \A p \in Parts \ {"analyses"} : view[p] # None => Of(sel, view[p])

LEMMA Halves == ConsoleInv <=> ReportsOk /\ RestOk
BY DEF ConsoleInv, ConsoleTypeOK, ListedInv, ScreenOfSelected, ReportsOk, RestOk, Tabs, Of

LEMMA HalvesNext == ReportsOk' /\ RestOk' => ConsoleInv'
BY Halves, PTL

LEMMA RenderKeeps ==
    ASSUME ConsoleInv, NEW t \in Tabs,
           NEW bs \in SUBSET Forms, NEW qs \in SUBSET posts, Waits(bs, qs),
           sel' \in Incidents \cup {None}, status' = status,
           t = "reports" => sel' \in Incidents,
           sel' = sel \/ t = "none",
           Render(t, sel', bs, qs)
    PROVE  ReportsOk' /\ tab' = t
<1>1. PICK i \in Incidents \cup {None} : i = sel'
  OBVIOUS
<1>2. qs \in SUBSET Post /\ \A q \in qs : PostOk(q, sel)
  BY DEF ConsoleInv, ConsoleTypeOK, RequestsInv
<1>3. /\ tab' = t /\ busy' \subseteq Forms
      /\ shown' \in [Panels -> {None} \cup SUBSET Row]
      /\ \A p \in Panels : shown'[p] # None => Of(i, shown'[p])
      /\ asks' \subseteq Ask /\ \A a \in asks' : AskOk(a, i)
      /\ posts' \subseteq Post /\ \A q \in posts' : PostOk(q, i)
      /\ \A q \in posts' : \E o \in qs : Twin(q, o)
      /\ Waits(busy', posts')
  BY <1>1, <1>2, RenderFacts
<1>4. OnceClosed'
  BY <1>3 DEF OnceClosed, Twin, ConsoleInv, ListedInv
<1> QED
  BY <1>1, <1>3, <1>4 DEF ReportsOk, RequestsInv

\* With the Reports tab and the page untouched, a change of the API keeps its half.
LEMMA ReportsStay ==
    ASSUME ConsoleInv, UNCHANGED <<reports, sel>>,
           \A i \in Incidents : status[i] # "OPEN" => status'[i] # "OPEN"
    PROVE  ReportsOk'
<1>1. ReportsOk
  BY Halves
<1> QED
  BY <1>1 DEF ReportsOk, reports, RequestsInv, OnceClosed, Post, Forms, ClosedOnly

------------------------------------------------------------------------------
\* Selecting an incident.
LEMMA ShowKeeps ==
    ASSUME ConsoleInv, NEW i \in Incidents, Show(i), UNCHANGED <<api, session>>,
           loadState' \in {loadState, "ready"}, listed' \in {listed, status}, listed' # None
    PROVE  ConsoleInv'
<1>1. RestOk
  BY Halves
<1>2. ReportsOk' /\ tab' = "none"
  BY RenderKeeps DEF Show, api, Tabs, ConsoleInv, ConsoleTypeOK
<1>3. polls' \subseteq Poll /\ PollsInv'
  <2>1. \A q \in polls' :
           \/ \E o \in polls : q = [o EXCEPT !.cancelled = TRUE]
           \/ q = Sent(i)
    BY DEF Show
  <2>2. Sent(i) \in Poll /\ Sent(i).inc = i /\ ~Arrived(Sent(i).ans)
    BY DEF Sent, Poll, Unanswered, Arrived
  <2>3. ASSUME NEW o \in polls, NEW q, q = [o EXCEPT !.cancelled = TRUE]
        PROVE  q \in Poll /\ q.cancelled /\ q.inc = o.inc /\ q.ans = o.ans
    <3>1. o \in Poll
      BY <1>1 DEF RestOk
    <3> QED
      BY <2>3, <3>1 DEF Poll
  <2>4. sel' = i
    BY DEF Show
  <2>5. polls' \subseteq Poll
    BY <2>1, <2>2, <2>3
  <2>6. ASSUME NEW q \in polls'
        PROVE  /\ ~q.cancelled => q.inc = i
               /\ Arrived(q.ans) => \A p \in Parts : Of(q.inc, q.ans[p])
    BY <1>1, <2>1, <2>2, <2>3 DEF RestOk, PollsInv
  <2> QED
    BY <2>4, <2>5, <2>6 DEF PollsInv
<1>4. SelectedInv'
  BY <1>2, Lists DEF Show, SelectedInv, Blank
<1>5. RestOk'
  BY <1>1, <1>3, <1>4 DEF RestOk, Show, Blank, api
<1> QED
  BY <1>2, <1>5, HalvesNext

\* The page mounts, unmounts and is told which incidents there are.
LEMMA PageKeeps == ASSUME ConsoleInv, PageStep PROVE ConsoleInv'
<1>1. RestOk /\ ReportsOk
  BY Halves
<1>2. CASE OpenPage \/ TokenChanges
  <2>1. UNCHANGED <<api, listed, sel, view, polls, reports>>
    BY <1>2 DEF OpenPage, TokenChanges
  <2>2. /\ session' \in {"none", "valid", "refused"}
        /\ loadState' \in {"checking-auth", "loading", "ready", "error"}
    BY <1>1, <1>2 DEF OpenPage, TokenChanges, RestOk
  <2>3. ReportsOk'
    BY <2>1, ReportsStay DEF api
  <2>4. RestOk'
    BY <1>1, <2>1, <2>2 DEF RestOk, api, reports, PollsInv, SelectedInv
  <2> QED
    BY <2>3, <2>4, HalvesNext
<1>3. CASE ListIncidents
  <2>1. CASE session = "valid"
    <3>1. PICK i \in Incidents : Show(i)
      BY <1>3, <2>1 DEF ListIncidents
    <3>2. status # None
      BY <1>1, ListsAreNotNull DEF RestOk
    <3> QED
      BY <1>3, <2>1, <3>1, <3>2, ShowKeeps DEF ListIncidents, api
  <2>2. CASE session # "valid"
    <3>1. UNCHANGED <<api, session, listed, sel, view, polls, reports>> /\ loadState' = "error"
      BY <1>3, <2>2 DEF ListIncidents
    <3>2. ReportsOk'
      BY <3>1, ReportsStay DEF api
    <3>3. RestOk'
      BY <1>1, <3>1 DEF RestOk, api, reports, PollsInv, SelectedInv
    <3> QED
      BY <3>2, <3>3, HalvesNext
  <2> QED
    BY <2>1, <2>2
<1>4. CASE \E i \in Incidents : Select(i)
  BY <1>4, ShowKeeps DEF Select, api
<1>5. CASE SignOut \/ Reload
  <2>1. PICK s \in {"none", "valid", "refused"} : Leave(s)
    BY <1>1, <1>5 DEF SignOut, Reload, RestOk
  <2>2. RestOk'
    BY <1>1, <2>1, Lists DEF Leave, RestOk, api, PollsInv, SelectedInv, Blank
  <2>3. posts' = {[q EXCEPT !.heard = "none"] : q \in posts}
    BY <2>1 DEF Leave
  <2>4. ASSUME NEW q \in posts'
        PROVE  /\ q \in Post /\ PostOk(q, None) /\ q.heard = "none"
               /\ \E o \in posts : Twin(q, o)
    <3>1. PICK o \in posts : q = [o EXCEPT !.heard = "none"]
      BY <2>3
    <3>2. o \in Post /\ PostOk(o, sel)
      BY <1>1 DEF ReportsOk, RequestsInv
    <3> QED
      BY <3>1, <3>2 DEF Post, PostOk, Twin
  <2>5. OnceClosed'
    BY <1>1, <2>1, <2>4 DEF Leave, api, ReportsOk, OnceClosed, Twin
  <2>6. Waits(busy', posts')
    BY <2>1, <2>4 DEF Leave, Waits
  <2>7. ReportsOk'
    BY <2>1, <2>4, <2>5, <2>6 DEF Leave, ReportsOk, RequestsInv, NoLists, Tabs
  <2> QED
    BY <2>2, <2>7, HalvesNext
<1> QED
  BY <1>2, <1>3, <1>4, <1>5 DEF PageStep

LEMMA TabAfterFacts ==
    ASSUME ConsoleInv, NEW v
    PROVE  TabAfter(v) \in Tabs /\ (TabAfter(v) # "none" => v["summary"] # None)
BY DEF TabAfter, Tabs, ConsoleInv, ConsoleTypeOK

\* The page is rendered again, with the answers v.
LEMMA ViewKeeps ==
    ASSUME ConsoleInv, NEW v \in [Parts -> {None} \cup SUBSET Row],
           NEW bs \in SUBSET Forms, NEW qs \in SUBSET posts, Waits(bs, qs),
           view' = v, Render(TabAfter(v), sel, bs, qs), UNCHANGED <<api, page>>,
           v["summary"] # None => sel # None,
           \A p \in Parts \ {"analyses"} : v[p] # None => Of(sel, v[p]),
           polls' \subseteq Poll, PollsInv'
    PROVE  ConsoleInv'
<1>1. RestOk /\ sel' = sel /\ status' = status
  BY Halves DEF api, page
<1>2. TabAfter(v) \in Tabs /\ (TabAfter(v) # "none" => sel # None)
  BY TabAfterFacts
<1>3. ReportsOk' /\ tab' = TabAfter(v)
  BY <1>1, <1>2, RenderKeeps DEF RestOk
<1>4. SelectedInv'
  BY <1>1, <1>2, <1>3 DEF RestOk, SelectedInv, page
<1>5. RestOk'
  BY <1>1, <1>4 DEF RestOk, api, page
<1> QED
  BY <1>3, <1>5, HalvesNext

LEMMA PollsKeep == ASSUME ConsoleInv, PollStep PROVE ConsoleInv'
<1>1. RestOk /\ ReportsOk
  BY Halves
<1>2. ASSUME polls' \subseteq Poll, PollsInv', UNCHANGED <<api, page, view, reports>>
      PROVE  ConsoleInv'
  <2>1. ReportsOk'
    BY <1>2, ReportsStay DEF api, page
  <2>2. RestOk'
    BY <1>1, <1>2 DEF RestOk, api, page, reports, SelectedInv
  <2> QED
    BY <2>1, <2>2, HalvesNext
<1>3. CASE Refresh
  <2>1. Sent(sel) \in Poll /\ ~Arrived(Sent(sel).ans) /\ Sent(sel).inc = sel
    BY <1>1, <1>3 DEF Refresh, Sent, Poll, Unanswered, Arrived, RestOk
  <2>2. polls' = polls \cup {Sent(sel)} /\ UNCHANGED <<api, page, view, reports>>
    BY <1>3 DEF Refresh
  <2>3. polls' \subseteq Poll /\ PollsInv'
    BY <1>1, <2>1, <2>2 DEF RestOk, PollsInv, page
  <2> QED
    BY <1>2, <2>2, <2>3
<1>4. ASSUME NEW q \in polls, ServePoll(q) \/ LosePoll(q) PROVE ConsoleInv'
  <2>1. PICK a : /\ a = Failed \/ a = [p \in Parts |-> Truth(p, q.inc)]
                 /\ AnswerPoll(q, a)
    BY <1>4 DEF ServePoll, LosePoll
  <2>2. q \in Poll
    BY <1>1 DEF RestOk
  <2>3. ASSUME NEW p \in Parts PROVE Truth(p, q.inc) \in SUBSET Row /\ Of(q.inc, Truth(p, q.inc))
    <3>1. rows[p][q.inc] \in 0..MaxRows
      BY <1>1, <2>2 DEF RestOk, Feeds, Poll
    <3> QED
      BY <2>2, <3>1, ConsoleBounds DEF Truth, Row, Of, Poll
  <2>4. a \in {Failed} \cup [Parts -> SUBSET Row]
        /\ (Arrived(a) => \A p \in Parts : Of(q.inc, a[p]))
    BY <2>1, <2>3 DEF Arrived
  <2> DEFINE new == [q EXCEPT !.ans = a]
  <2>5. /\ new \in Poll /\ new.inc = q.inc /\ new.cancelled = q.cancelled
        /\ new.ans = a
    BY <2>2, <2>4 DEF Poll
  <2>6. polls' = (polls \ {q}) \cup {new} /\ UNCHANGED <<api, page, view, reports>>
    BY <2>1 DEF AnswerPoll
  <2> HIDE DEF new
  <2>7. polls' \subseteq Poll /\ PollsInv'
    BY <1>1, <2>4, <2>5, <2>6 DEF RestOk, PollsInv, page
  <2> QED
    BY <1>2, <2>6, <2>7
<1>5. ASSUME NEW q \in polls, Apply(q) \/ PollFails(q) PROVE ConsoleInv'
  <2>1. polls' = polls \ {q} /\ UNCHANGED <<api, page>>
    BY <1>5 DEF Apply, PollFails
  <2>2. polls' \subseteq Poll /\ PollsInv'
    BY <1>1, <2>1 DEF RestOk, PollsInv, page
  <2>3. q \in Poll
    BY <1>1 DEF RestOk
  <2>4. CASE q.cancelled
    BY <1>2, <1>5, <2>1, <2>2, <2>4 DEF Apply, PollFails
  <2>5. CASE ~q.cancelled /\ Apply(q)
    <3>1. q.inc = sel /\ sel \in Incidents
      BY <1>1, <2>3, <2>5 DEF RestOk, PollsInv, Poll
    <3>2. q.ans \in [Parts -> SUBSET Row] /\ \A p \in Parts : Of(sel, q.ans[p])
      BY <1>1, <2>3, <2>5, <3>1 DEF Apply, Poll, RestOk, PollsInv, Arrived
    <3>3. view' = q.ans /\ Render(TabAfter(q.ans), sel, busy, posts)
      BY <2>5 DEF Apply
    <3>4. sel # None
      BY <3>1, ListsAreNotNull
    <3>5. busy \in SUBSET Forms /\ Waits(busy, posts)
      BY <1>1 DEF ReportsOk
    <3> QED
      BY <2>1, <2>2, <3>2, <3>3, <3>4, <3>5, ViewKeeps
  <2>6. CASE ~q.cancelled /\ PollFails(q)
    <3>1. view' = view /\ Render(TabAfter(view), sel, busy, posts)
      BY <2>6 DEF PollFails
    <3>2. busy \in SUBSET Forms /\ Waits(busy, posts)
      BY <1>1 DEF ReportsOk
    <3> QED
      BY <1>1, <2>1, <2>2, <3>1, <3>2, ViewKeeps DEF RestOk, SelectedInv
  <2> QED
    BY <1>5, <2>4, <2>5, <2>6
<1> QED
  BY <1>3, <1>4, <1>5 DEF PollStep

LEMMA OthersKeep == ASSUME ConsoleInv, OthersStep PROVE ConsoleInv'
<1>1. RestOk
  BY Halves
<1>2. UNCHANGED <<page, view, polls, reports>>
  BY DEF OthersStep, SomeoneAdds, SomeoneUpdatesStatus
<1>3. /\ \A i \in Incidents : status[i] # "OPEN" => status'[i] # "OPEN"
      /\ status' \in [Incidents -> Stages]
      /\ rows' \in [Feeds -> [Incidents -> 0..MaxRows]]
      /\ changes' \in 0..MaxChanges
  <2>1. CASE \E i \in Incidents : SomeoneUpdatesStatus(i)
    BY <1>1, <2>1, ConsoleBounds DEF SomeoneUpdatesStatus, RestOk, Stages
  <2>2. ASSUME NEW i \in Incidents, NEW f \in Feeds, SomeoneAdds(f, i)
        PROVE  /\ status' = status /\ changes' \in 0..MaxChanges
               /\ rows' \in [Feeds -> [Incidents -> 0..MaxRows]]
    BY <1>1, <2>2, ConsoleBounds DEF SomeoneAdds, RestOk
  <2> QED
    BY <1>1, <2>1, <2>2 DEF OthersStep, RestOk
<1>4. ReportsOk'
  BY <1>2, <1>3, ReportsStay DEF page
<1>5. RestOk'
  BY <1>1, <1>2, <1>3 DEF RestOk, page, reports, PollsInv, SelectedInv
<1> QED
  BY <1>4, <1>5, HalvesNext

------------------------------------------------------------------------------
\* A step of the Reports tab alone: the rest has nothing to say about it.
LEMMA RestStays ==
    ASSUME ConsoleInv, UNCHANGED <<status, page, view, polls, tab>>,
           rows' \in [Feeds -> [Incidents -> 0..MaxRows]], changes' \in 0..MaxChanges
    PROVE  RestOk'
<1>1. RestOk
  BY Halves
<1> QED
  BY <1>1 DEF RestOk, page, PollsInv, SelectedInv

LEMMA AsksKeep ==
    ASSUME ConsoleInv, NEW a \in asks, ServeAsk(a) \/ ShowAsk(a) PROVE ConsoleInv'
<1>1. RestOk /\ ReportsOk
  BY Halves
<1>2. a \in Ask /\ AskOk(a, sel) /\ a.feed \in Panels /\ a.inc \in Incidents
  BY <1>1 DEF ReportsOk, RequestsInv, Ask
<1>3. UNCHANGED <<api, page, view, polls, tab, busy, posts>>
  BY DEF ServeAsk, ShowAsk
<1>4. RestOk'
  BY <1>1, <1>3, RestStays DEF api, RestOk
<1>5. asks' \subseteq Ask /\ \A b \in asks' : AskOk(b, sel)
  <2>1. CASE ServeAsk(a)
    <3>1. PICK x \in {Failed, Truth(a.feed, a.inc)} : asks' = (asks \ {a}) \cup {[a EXCEPT !.ans = x]}
      BY <2>1 DEF ServeAsk
    <3>2. Truth(a.feed, a.inc) \in SUBSET Row /\ Of(a.inc, Truth(a.feed, a.inc))
      <4>1. rows[a.feed][a.inc] \in 0..MaxRows
        BY <1>1, <1>2 DEF RestOk, Feeds
      <4> QED
        BY <1>2, <4>1, ConsoleBounds DEF Truth, Row, Of
    <3>3. x \in Answer /\ (Arrived(x) => Of(a.inc, x))
      BY <3>2 DEF Answer, Arrived
    <3> DEFINE new == [a EXCEPT !.ans = x]
    <3>4. new \in Ask /\ new.inc = a.inc /\ new.ans = x
      BY <1>2, <3>3 DEF Ask
    <3>5. AskOk(new, sel)
      BY <1>2, <3>3, <3>4 DEF AskOk
    <3> QED
      BY <1>1, <3>1, <3>4, <3>5 DEF ReportsOk, RequestsInv
  <2>2. CASE ShowAsk(a)
    <3>1. \A b \in asks' : \/ b \in asks
                           \/ b \in [feed : Panels \cap PerDecision, inc : {a.inc}, ans : {Unanswered}]
      BY <2>2 DEF ShowAsk
    <3>2. \A b \in [feed : Panels \cap PerDecision, inc : {a.inc}, ans : {Unanswered}] :
             b \in Ask /\ AskOk(b, sel)
      BY <1>2 DEF Ask, AskOk, Unanswered, Answer, Arrived
    <3> QED
      BY <1>1, <3>1, <3>2 DEF ReportsOk, RequestsInv
  <2> QED
    BY <2>1, <2>2
<1>6. /\ shown' \in [Panels -> {None} \cup SUBSET Row]
      /\ \A p \in Panels : shown'[p] # None => Of(sel, shown'[p])
  <2>1. CASE UNCHANGED shown
    BY <1>1, <2>1 DEF ReportsOk
  <2>2. CASE ShowAsk(a) /\ a.ans # Failed
    <3>1. a.ans \in SUBSET Row /\ Of(sel, a.ans)
      BY <1>2, <2>2 DEF ShowAsk, Ask, Answer, AskOk, Arrived
    <3>2. shown' = [p \in Panels |->
                      IF p = a.feed THEN a.ans
                      ELSE IF a.feed = "decisions" /\ p \in PerDecision THEN None
                      ELSE shown[p]]
      BY <2>2 DEF ShowAsk
    <3> QED
      BY <1>1, <3>1, <3>2 DEF ReportsOk
  <2> QED
    BY <2>1, <2>2 DEF ServeAsk, ShowAsk
<1>7. ReportsOk'
  BY <1>1, <1>3, <1>5, <1>6 DEF ReportsOk, RequestsInv, OnceClosed, api, page
<1> QED
  BY <1>4, <1>7, HalvesNext

LEMMA SubmitKeeps == ASSUME ConsoleInv, NEW f \in Forms, Submit(f) PROVE ConsoleInv'
<1>1. RestOk /\ ReportsOk
  BY Halves
<1>2. UNCHANGED <<api, page, view, polls, tab, shown, asks>>
  BY DEF Submit
<1>3. PICK q : /\ q = [feed |-> f, inc |-> sel, heard |-> "form", ans |-> Unanswered]
               /\ posts' = posts \cup {q} /\ busy' = busy \cup {f}
  BY DEF Submit
<1>4. sel \in Incidents
  BY <1>1 DEF Submit, RestOk, SelectedInv
<1>5. q \in Post /\ PostOk(q, sel)
  BY <1>3, <1>4 DEF Post, Unanswered, Answer, PostOk, Arrived
<1>6. q.feed \in ClosedOnly => status[q.inc] # "OPEN"
  BY <1>1, <1>3, <1>4 DEF Submit, Offered, RestOk, SelectedInv
<1>7. Waits(busy', posts')
  BY <1>1, <1>3 DEF Submit, ReportsOk, Waits
<1>8. ReportsOk'
  BY <1>1, <1>2, <1>3, <1>5, <1>6, <1>7 DEF ReportsOk, RequestsInv, OnceClosed, api, page
<1>9. RestOk'
  BY <1>1, <1>2, RestStays DEF api, RestOk
<1> QED
  BY <1>8, <1>9, HalvesNext

LEMMA PostsKeep ==
    ASSUME ConsoleInv, NEW q \in posts, ServePost(q) \/ Created(q) PROVE ConsoleInv'
<1>1. RestOk /\ ReportsOk
  BY Halves
<1>2. q \in Post /\ PostOk(q, sel) /\ q.feed \in Forms /\ q.inc \in Incidents
  BY <1>1 DEF ReportsOk, RequestsInv, Post
<1>3. CASE ServePost(q)
  <2> DEFINE n == rows[q.feed][q.inc] + 1
  <2>1. PICK a :
           /\ posts' = (posts \ {q})
                       \cup (IF q.heard = "none" THEN {} ELSE {[q EXCEPT !.ans = a]})
           /\ \/ a = Failed /\ UNCHANGED <<rows, changes>>
              \/ /\ a = {<<q.inc, n>>} /\ Accepted(q) /\ changes' = changes + 1
                 /\ rows' = [rows EXCEPT ![q.feed][q.inc] = n]
    <3>1. CASE posts' = (posts \ {q})
                        \cup (IF q.heard = "none" THEN {} ELSE {[q EXCEPT !.ans = Failed]})
               /\ UNCHANGED <<rows, changes>>
      BY <3>1
    <3>2. CASE posts' = (posts \ {q}) \cup (IF q.heard = "none" THEN {}
                                            ELSE {[q EXCEPT !.ans = {<<q.inc, n>>}]})
               /\ Accepted(q) /\ changes' = changes + 1
               /\ rows' = [rows EXCEPT ![q.feed][q.inc] = n]
      BY <3>2
    <3> QED
      BY <1>3, <3>1, <3>2 DEF ServePost
  <2>2. UNCHANGED <<status, page, view, polls, tab, shown, busy, asks>>
    BY <1>3 DEF ServePost
  <2>3. q.feed \in Feeds
    BY <1>2, Lists DEF Feeds, Forms
  <2>4. rows[q.feed][q.inc] \in 0..MaxRows
    BY <1>1, <1>2, <2>3 DEF RestOk
  <2>5. /\ rows' \in [Feeds -> [Incidents -> 0..MaxRows]] /\ changes' \in 0..MaxChanges
        /\ a = Failed \/ (a = {<<q.inc, n>>} /\ n \in 1..MaxRows)
    BY <1>1, <1>2, <2>1, <2>3, <2>4, ConsoleBounds DEF Accepted, RestOk
  <2>6. a \in Answer /\ a # None /\ (Arrived(a) => Of(q.inc, a))
    BY <1>2, <2>5, ListsAreNotNull DEF Answer, Arrived, Of, Row
  <2> DEFINE new == [q EXCEPT !.ans = a]
  <2>7. /\ new \in Post /\ new.feed = q.feed /\ new.inc = q.inc /\ new.heard = q.heard
        /\ new.ans = a
    BY <1>2, <2>6 DEF Post
  <2>8. /\ posts' \subseteq (posts \cup {new})
        /\ posts' = (posts \ {q}) \cup (IF q.heard = "none" THEN {} ELSE {new})
    BY <2>1
  <2> HIDE DEF new
  <2>9. PostOk(new, sel)
    BY <1>2, <2>6, <2>7 DEF PostOk
  <2>10. Waits(busy', posts')
    BY <1>1, <2>2, <2>7, <2>8 DEF ReportsOk, Waits
  <2>11. ReportsOk'
    BY <1>1, <2>2, <2>6, <2>7, <2>8, <2>9, <2>10 DEF ReportsOk, RequestsInv, OnceClosed, page
  <2> QED
    BY <2>2, <2>5, <2>11, RestStays, HalvesNext
<1>4. CASE Created(q)
  <2> DEFINE freed == busy \ Freed(q)
             v == [view EXCEPT !["analyses"] = Held(@) \cup q.ans]
  <2>1. /\ freed \in SUBSET Forms /\ posts \ {q} \in SUBSET posts
        /\ Waits(freed, posts \ {q})
    BY <1>1, FreedWaits DEF ReportsOk
  <2>2. CASE q.ans # Failed /\ q.feed = "analyses"
    <3>1. /\ view' = v /\ Render(TabAfter(v), sel, freed, posts \ {q})
          /\ UNCHANGED <<api, page, polls>>
      BY <1>4, <2>2 DEF Created
    <3>2. q.ans \in SUBSET Row
      BY <1>2, <1>4, <2>2 DEF Created, Post, Answer
    <3>3. v \in [Parts -> {None} \cup SUBSET Row] /\ \A p \in Parts \ {"analyses"} : v[p] = view[p]
      BY <1>1, <3>2 DEF RestOk, Held
    <3>4. v["summary"] # None => sel # None
      BY <1>1, <3>3, Lists DEF RestOk, SelectedInv
    <3>5. polls' \subseteq Poll /\ PollsInv'
      BY <1>1, <3>1 DEF RestOk, PollsInv, page
    <3>6. \A p \in Parts \ {"analyses"} : v[p] # None => Of(sel, v[p])
      BY <1>1, <3>3 DEF RestOk
    <3> HIDE DEF v, freed
    <3> QED
      BY <2>1, <3>1, <3>3, <3>4, <3>5, <3>6, ViewKeeps
  <2>3. CASE q.ans = Failed \/ q.feed # "analyses"
    <3>1. /\ busy' = freed /\ posts' = posts \ {q}
          /\ shown' = IF q.ans = Failed THEN shown
                      ELSE [shown EXCEPT ![q.feed] = Held(@) \cup q.ans]
          /\ UNCHANGED <<api, page, polls, view, tab, asks>>
      BY <1>4, <2>3 DEF Created
    <3>2. /\ shown' \in [Panels -> {None} \cup SUBSET Row]
          /\ \A p \in Panels : shown'[p] # None => Of(sel, shown'[p])
      <4>1. CASE q.ans = Failed
        BY <1>1, <3>1, <4>1 DEF ReportsOk
      <4>2. CASE q.ans # Failed
        <5>1. q.feed \in Panels /\ q.heard = "form"
          BY <1>2, <1>4, <2>3, <4>2 DEF Created, Forms, Post, PostOk
        <5>2. q.ans \in SUBSET Row /\ Of(sel, q.ans)
          BY <1>2, <1>4, <2>3, <4>2, <5>1 DEF Created, Post, Answer, PostOk, Arrived
        <5>3. Held(shown[q.feed]) \in SUBSET Row /\ Of(sel, Held(shown[q.feed]))
          BY <1>1, <5>1 DEF ReportsOk, Held, Of
        <5> QED
          BY <1>1, <3>1, <4>2, <5>1, <5>2, <5>3 DEF ReportsOk, Of
      <4> QED
        BY <4>1, <4>2
    <3>3. ReportsOk'
      BY <1>1, <2>1, <3>1, <3>2 DEF ReportsOk, RequestsInv, OnceClosed, api, page
    <3> QED
      BY <1>1, <3>1, <3>3, RestStays, HalvesNext DEF api, RestOk
  <2> QED
    BY <2>2, <2>3
<1> QED
  BY <1>3, <1>4

LEMMA ReportsKeep == ASSUME ConsoleInv, ReportsStep PROVE ConsoleInv'
<1>1. RestOk /\ ReportsOk
  BY Halves
<1>2. ASSUME NEW t \in {"command-center", "intelligence", "reports"}, OpenTab(t)
      PROVE  ConsoleInv'
  <2>1. /\ tab # "none" /\ Render(t, sel, busy, posts)
        /\ UNCHANGED <<api, page, view, polls>>
    BY <1>2 DEF OpenTab
  <2>2. /\ sel \in Incidents /\ sel' = sel /\ status' = status
        /\ busy \in SUBSET Forms /\ Waits(busy, posts)
    BY <1>1, <2>1 DEF RestOk, ReportsOk, SelectedInv, page, api
  <2>3. ReportsOk' /\ tab' = t
    BY <1>2, <2>1, <2>2, RenderKeeps DEF Tabs
  <2>4. RestOk'
    BY <1>1, <2>1, <2>2 DEF RestOk, api, page, PollsInv, SelectedInv
  <2> QED
    BY <2>3, <2>4, HalvesNext
<1> QED
  BY <1>2, AsksKeep, SubmitKeeps, PostsKeep DEF ReportsStep

------------------------------------------------------------------------------
LEMMA ConsoleInvHolds == ConsoleSpec => []ConsoleInv
<1>1. ConsoleInit => ConsoleInv
  <2> SUFFICES ASSUME ConsoleInit PROVE ConsoleInv
    OBVIOUS
  <2>1. rows \in [Feeds -> [Incidents -> 0..MaxRows]]
    BY ConsoleBounds DEF ConsoleInit
  <2>2. RestOk
    BY <2>1, ConsoleBounds, Lists DEF ConsoleInit, RestOk, Stages, Blank, PollsInv, SelectedInv
  <2>3. ReportsOk
    BY DEF ConsoleInit, ReportsOk, RequestsInv, OnceClosed, Waits, NoLists, Tabs
  <2> QED
    BY <2>2, <2>3, Halves
<1>2. ConsoleInv /\ [ConsoleNext]_consoleVars => ConsoleInv'
  <2> SUFFICES ASSUME ConsoleInv, [ConsoleNext]_consoleVars PROVE ConsoleInv'
    OBVIOUS
  <2>1. CASE UNCHANGED consoleVars
    <3>1. RestOk
      BY Halves
    <3>2. UNCHANGED <<api, page, view, polls, reports, sel, status>>
      BY <2>1 DEF consoleVars, api, page
    <3>3. ReportsOk'
      BY <3>2, ReportsStay
    <3>4. RestOk'
      BY <3>1, <3>2 DEF RestOk, api, page, reports, PollsInv, SelectedInv
    <3> QED
      BY <3>3, <3>4, HalvesNext
  <2> QED
    BY <2>1, PollsKeep, PageKeeps, ReportsKeep, OthersKeep DEF ConsoleNext
<1> QED
  BY <1>1, <1>2, PTL DEF ConsoleSpec

\* The command center's variables keep their types.
THEOREM ConsoleTypes == ConsoleSpec => []ConsoleTypeOK
BY ConsoleInvHolds, PTL DEF ConsoleInv

\* What is shown of an incident is the selected one's: an answer that comes for
\* one left behind is not applied, whichever polls overlap.
THEOREM SelectedOnScreen == ConsoleSpec => []ScreenOfSelected
BY ConsoleInvHolds, PTL DEF ConsoleInv

\* A disabled button waits for one POST of its own, about the selected incident,
\* and is enabled with its answer, whatever is selected, left, opened again and
\* answered meanwhile; a closed-only one is of an incident that has been CLOSED.
THEOREM ButtonsWait == ConsoleSpec => []FormsWait
<1>1. ConsoleInv => FormsWait
  <2> SUFFICES ASSUME ConsoleInv PROVE FormsWait
    OBVIOUS
  <2>1. /\ Waits(busy, posts) /\ OnceClosed
        /\ \A q \in posts : q.heard = "form" => q.inc = sel
    BY DEF ConsoleInv, ListedInv, RequestsInv, PostOk
  <2> QED
    BY <2>1 DEF FormsWait, AwaitedBy, Waits, OnceClosed
<1> QED
  BY <1>1, ConsoleInvHolds, PTL

------------------------------------------------------------------------------
\* The form shows who wrote its fields.
LabelInv == field \in [Fields -> {"initial", "human", "ai"}] /\ AiLabelled

\* A field the model wrote is never on the form without the notice.
THEOREM DraftsLabelled == DraftSpec => []AiLabelled
<1>1. DraftInit => LabelInv
  BY DEF DraftInit, LabelInv, AiLabelled, Untouched
<1>2. LabelInv /\ [DraftNext]_draftVars => LabelInv'
  <2> SUFFICES ASSUME LabelInv, [DraftNext]_draftVars PROVE LabelInv'
    OBVIOUS
  <2>1. CASE UNCHANGED inputs
    BY <2>1 DEF inputs, LabelInv, AiLabelled
  <2>2. CASE ApplyDraft
    BY <2>2 DEF ApplyDraft, LabelInv, AiLabelled
  <2>3. CASE \E f \in Fields : Edit(f)
    BY <2>3 DEF Edit, LabelInv, AiLabelled
  <2>4. CASE Submitted
    BY <2>1, <2>4 DEF Submitted, LabelInv, AiLabelled, Untouched
  <2>5. CASE Remount
    BY <2>5 DEF Remount, LabelInv, AiLabelled, Untouched
  <2>6. CASE UNCHANGED draftVars
    BY <2>1, <2>6 DEF draftVars
  <2>7. CASE \/ Redeploy \/ StreamChunk \/ StreamEnds \/ Disconnect \/ AskStatus
             \/ GenerateDraft \/ Read \/ StreamDone \/ SubmitForm
    BY <2>1, <2>7 DEF Redeploy, StreamChunk, StreamEnds, Disconnect, AskStatus, GenerateDraft,
                      Read, StreamDone, SubmitForm, inputs
  <2>8. CASE Yield
    BY <2>1, <2>2, <2>8 DEF Yield
  <2> QED
    BY <2>1, <2>2, <2>3, <2>4, <2>5, <2>6, <2>7, <2>8 DEF DraftNext, DraftStays
<1>3. LabelInv => AiLabelled
  BY DEF LabelInv
<1> QED
  BY <1>1, <1>2, <1>3, PTL DEF DraftSpec

------------------------------------------------------------------------------
(***************************************************************************)
(* The stream.  Event i is written as the tokens 3i-2 (its text), 3i-1 and *)
(* 3i (the newlines).  The reader keeps its place: what it was handed is   *)
(* the first Len(delivered) events, and the buffer and what is left on the *)
(* wire are the tokens that follow, so a boundary is always found right    *)
(* behind the first event that is whole.                                   *)
(***************************************************************************)

\* What is written at place p for the events s.
IsToken(s, x, p) ==
    \A i \in 1..Len(s) : /\ p = 3*i - 2 => x = s[i]
                         /\ p \in {3*i - 1, 3*i} => x = Newline

\* The tokens seq are those written from place `at` on.
Tokens(s, seq, at) == \A j \in 1..Len(seq) : IsToken(s, seq[j], at + j)

Place == 3 * Len(delivered)

WireInv ==
    /\ sent \in Seq(Event) /\ delivered \in Seq(Event)
    /\ buffer \in Seq(Event \cup {Newline}) /\ wire \in Seq(Event \cup {Newline})
    /\ stream \in {"none", "open", "complete", "broken"}
    /\ Len(delivered) <= Len(sent)
    /\ \A i \in 1..Len(delivered) : delivered[i] = sent[i]
    /\ Place + Len(buffer) + Len(wire) <= 3 * Len(sent)
    /\ stream = "open" => Place + Len(buffer) + Len(wire) = 3 * Len(sent)
    /\ Tokens(sent, buffer, Place) /\ Tokens(sent, wire, Place + Len(buffer))

\* Only the last event written ends a draft, and then the API writes no more.
ResultInv ==
    /\ \A i \in 1..Len(sent) : i < Len(sent) \/ stream = "open" => sent[i][1] = "chunk"
    /\ gotResult => delivered # <<>> /\ Last(delivered)[1] = "result"

LEMMA EventsAreText ==
    ASSUME NEW e \in Event PROVE e # Newline /\ e[1] \in {"chunk", "result", "error"}
BY DEF Event, Newline

\* The API writes one more event.
LEMMA WriteKeeps ==
    ASSUME WireInv, ResultInv, stream = "open", NEW e \in Event, Write(e),
           stream' \in {"open", "complete"},
           stream' = "open" => e[1] = "chunk",
           UNCHANGED <<gotResult, buffer, delivered>>
    PROVE  WireInv' /\ ResultInv'
<1> DEFINE n == Len(sent)  b == Len(buffer)  w == Len(wire)  d == Len(delivered)
<1>1. /\ n \in Nat /\ b \in Nat /\ w \in Nat /\ d \in Nat
      /\ sent \in Seq(Event) /\ wire \in Seq(Event \cup {Newline})
  BY DEF WireInv
<1>2. /\ sent' \in Seq(Event) /\ Len(sent') = n + 1 /\ sent'[n + 1] = e
      /\ \A i \in 1..n : sent'[i] = sent[i]
  BY <1>1 DEF Write
<1>3. /\ wire' \in Seq(Event \cup {Newline}) /\ Len(wire') = w + 3
      /\ wire'[w + 1] = e /\ wire'[w + 2] = Newline /\ wire'[w + 3] = Newline
      /\ \A j \in 1..w : wire'[j] = wire[j]
  BY <1>1 DEF Write
<1>4. 3*d + b + w = 3*n /\ d <= n
  BY DEF WireInv, Place
<1>5. ASSUME NEW p \in 1..(3*n), NEW x, IsToken(sent, x, p) PROVE IsToken(sent', x, p)
  <2> SUFFICES ASSUME NEW i \in 1..(n + 1)
               PROVE  /\ p = 3*i - 2 => x = sent'[i]
                      /\ p \in {3*i - 1, 3*i} => x = Newline
    BY <1>2 DEF IsToken
  <2>1. CASE i \in 1..n
    BY <1>2, <1>5, <2>1 DEF IsToken
  <2>2. CASE i = n + 1
    BY <1>1, <2>2
  <2> QED
    BY <1>1, <2>1, <2>2
<1>6. /\ IsToken(sent', e, 3*n + 1) /\ IsToken(sent', Newline, 3*n + 2)
      /\ IsToken(sent', Newline, 3*n + 3)
  <2> SUFFICES ASSUME NEW i \in 1..(n + 1)
               PROVE  /\ 3*n + 1 = 3*i - 2 => e = sent'[i]
                      /\ 3*n + 1 \notin {3*i - 1, 3*i}
                      /\ 3*n + 2 # 3*i - 2 /\ 3*n + 3 # 3*i - 2
    BY <1>2 DEF IsToken
  <2>1. CASE i = n + 1
    BY <1>1, <1>2, <2>1
  <2>2. CASE i \in 1..n
    BY <1>1, <2>2
  <2> QED
    BY <1>1, <2>1, <2>2
<1>7. WireInv'
  <2>1. Tokens(sent', buffer, Place)
    <3>1. \A j \in 1..b : Place + j \in 1..(3*n)
      BY <1>1, <1>4 DEF Place
    <3> QED
      BY <1>5, <3>1 DEF WireInv, Tokens
  <2>2. Tokens(sent', wire', Place + b)
    <3> SUFFICES ASSUME NEW j \in 1..(w + 3) PROVE IsToken(sent', wire'[j], Place + b + j)
      BY <1>3 DEF Tokens
    <3>1. CASE j \in 1..w
      <4>1. Place + b + j \in 1..(3*n)
        BY <1>1, <1>4, <3>1 DEF Place
      <4>2. IsToken(sent, wire[j], Place + b + j)
        BY <3>1 DEF WireInv, Tokens
      <4> QED
        BY <1>3, <1>5, <3>1, <4>1, <4>2
    <3>2. CASE j \in {w + 1, w + 2, w + 3}
      <4>1. /\ Place + b + (w + 1) = 3*n + 1 /\ Place + b + (w + 2) = 3*n + 2
            /\ Place + b + (w + 3) = 3*n + 3
        BY <1>1, <1>4 DEF Place
      <4> QED
        BY <1>3, <1>6, <3>2, <4>1
    <3> QED
      BY <1>1, <3>1, <3>2
  <2>3. Tokens(sent, buffer, Place)' /\ Tokens(sent, wire, Place + Len(buffer))'
    BY <2>1, <2>2 DEF Place
  <2>4. 3*d + b + (w + 3) = 3*(n + 1) /\ d <= n + 1
    BY <1>1, <1>4
  <2>5. \A i \in 1..d : delivered[i] = sent'[i]
    BY <1>1, <1>2, <1>4 DEF WireInv
  <2>6. /\ Len(delivered)' <= Len(sent)' /\ (Place + Len(buffer) + Len(wire))' = 3 * Len(sent)'
        /\ \A i \in 1..Len(delivered)' : delivered'[i] = sent'[i]
    BY <1>2, <1>3, <2>4, <2>5 DEF Place
  <2>7. /\ delivered' \in Seq(Event) /\ buffer' \in Seq(Event \cup {Newline})
        /\ 3 * Len(sent)' \in Nat
    BY <1>1, <1>2 DEF WireInv
  <2> QED
    BY <1>2, <1>3, <2>3, <2>6, <2>7 DEF WireInv
<1>8. ResultInv'
  BY <1>1, <1>2 DEF ResultInv, Last
<1> QED
  BY <1>7, <1>8

\* A piece of the wire moves to the buffer, or the rest of it is lost.
LEMMA ReadKeeps == ASSUME WireInv, ResultInv, Read \/ Disconnect PROVE WireInv' /\ ResultInv'
<1> DEFINE b == Len(buffer)  w == Len(wire)
<1>1. b \in Nat /\ w \in Nat /\ Len(delivered) \in Nat /\ Len(sent) \in Nat
  BY DEF WireInv
<1>2. CASE Read
  <2>1. PICK n \in 1..w : /\ buffer' = buffer \o SubSeq(wire, 1, n)
                          /\ wire' = SubSeq(wire, n + 1, w)
    BY <1>2 DEF Read, Appended
  <2>2. UNCHANGED <<stream, sent, gotResult, delivered>>
    BY <1>2 DEF Read
  <2>3. /\ buffer' \in Seq(Event \cup {Newline}) /\ Len(buffer') = b + n
        /\ \A j \in 1..b : buffer'[j] = buffer[j]
        /\ \A j \in 1..n : buffer'[b + j] = wire[j]
    BY <1>1, <2>1 DEF WireInv
  <2>4. /\ wire' \in Seq(Event \cup {Newline}) /\ Len(wire') = w - n
        /\ \A j \in 1..(w - n) : wire'[j] = wire[n + j]
    BY <1>1, <2>1 DEF WireInv
  <2>5. Tokens(sent, buffer', Place)
    <3> SUFFICES ASSUME NEW j \in 1..(b + n) PROVE IsToken(sent, buffer'[j], Place + j)
      BY <2>3 DEF Tokens
    <3>1. CASE j \in 1..b
      BY <2>3, <3>1 DEF WireInv, Tokens
    <3>2. CASE j \in (b + 1)..(b + n)
      <4>1. PICK k \in 1..n : j = b + k /\ k \in 1..w
        BY <1>1, <3>2
      <4>2. buffer'[j] = wire[k] /\ Place + b + k = Place + j
        BY <1>1, <2>3, <4>1 DEF Place
      <4>3. IsToken(sent, wire[k], Place + b + k)
        BY <4>1 DEF WireInv, Tokens
      <4> QED
        BY <4>2, <4>3
    <3> QED
      BY <1>1, <3>1, <3>2
  <2>6. Tokens(sent, wire', Place + (b + n))
    <3> SUFFICES ASSUME NEW j \in 1..(w - n)
                 PROVE  IsToken(sent, wire'[j], Place + (b + n) + j)
      BY <2>4 DEF Tokens
    <3>1. n + j \in 1..w /\ wire'[j] = wire[n + j]
      BY <1>1, <2>4
    <3>2. Place + b + (n + j) = Place + (b + n) + j
      BY <1>1 DEF Place
    <3>3. IsToken(sent, wire[n + j], Place + b + (n + j))
      BY <3>1 DEF WireInv, Tokens
    <3> QED
      BY <3>1, <3>2, <3>3
  <2>7. (Place + Len(buffer) + Len(wire))' = Place + b + w /\ UNCHANGED Place
    BY <1>1, <2>2, <2>3, <2>4 DEF Place
  <2>8. Tokens(sent, buffer, Place)' /\ Tokens(sent, wire, Place + Len(buffer))'
    BY <2>2, <2>3, <2>5, <2>6, <2>7
  <2>9. WireInv'
    BY <2>2, <2>3, <2>4, <2>7, <2>8 DEF WireInv
  <2> QED
    BY <2>2, <2>9 DEF ResultInv
<1>3. CASE Disconnect
  <2>1. PICK n \in 0..w : wire' = SubSeq(wire, 1, n)
    BY <1>3 DEF Disconnect
  <2>2. UNCHANGED <<sent, gotResult, buffer, delivered>> /\ stream' \in {"complete", "broken"}
    BY <1>3 DEF Disconnect, attempt
  <2>3. /\ wire' \in Seq(Event \cup {Newline}) /\ Len(wire') = n
        /\ \A j \in 1..n : wire'[j] = wire[j]
    BY <1>1, <2>1 DEF WireInv
  <2>4. UNCHANGED Place /\ Place \in Nat
    BY <1>1, <2>2 DEF Place
  <2>5. Tokens(sent, buffer, Place)' /\ Tokens(sent, wire, Place + Len(buffer))'
    <3>1. \A j \in 1..n : j \in 1..w /\ wire'[j] = wire[j]
      BY <1>1, <2>3
    <3>2. Tokens(sent, wire', Place + b)
      BY <2>3, <3>1 DEF WireInv, Tokens
    <3> QED
      BY <2>2, <2>4, <3>2 DEF WireInv
  <2>6. (Place + Len(buffer) + Len(wire))' <= Place + b + w /\ Place + b + w <= 3 * Len(sent)
    BY <1>1, <2>2, <2>3, <2>4 DEF WireInv
  <2>7. (Place + Len(buffer) + Len(wire))' <= 3 * Len(sent)'
    BY <1>1, <2>2, <2>3, <2>4, <2>6
  <2>8. WireInv'
    BY <2>2, <2>3, <2>5, <2>7 DEF WireInv
  <2> QED
    BY <2>2, <2>8 DEF ResultInv
<1> QED
  BY <1>2, <1>3

\* With a boundary in the buffer, its first block is the next event.
LEMMA NextEvent ==
    ASSUME WireInv, Boundary(buffer) > 0
    PROVE  /\ Len(buffer) >= 3 /\ Boundary(buffer) = 2
           /\ Len(delivered) + 1 \in 1..Len(sent)
           /\ buffer[1] = sent[Len(delivered) + 1]
<1> DEFINE b == Len(buffer)  d == Len(delivered)
           at == {k \in 1..(b - 1) : buffer[k] = Newline /\ buffer[k + 1] = Newline}
<1>1. b \in Nat /\ d \in Nat /\ Len(sent) \in Nat /\ Len(wire) \in Nat
  BY DEF WireInv
<1>2. PICK k \in 1..(b - 1) : buffer[k] = Newline /\ buffer[k + 1] = Newline
  BY DEF Boundary
<1>3. 3*d + b <= 3 * Len(sent)
  BY <1>1 DEF WireInv, Place
<1>4. d + 1 \in 1..Len(sent) /\ 1 \in 1..b
  BY <1>1, <1>2, <1>3
<1>5. buffer[1] = sent[d + 1] /\ buffer[1] # Newline
  <2>1. buffer[1] = sent[d + 1]
    <3>1. IsToken(sent, buffer[1], 3*d + 1)
      BY <1>4 DEF WireInv, Tokens, Place
    <3>2. 3*d + 1 = 3*(d + 1) - 2
      BY <1>1
    <3> QED
      BY <1>4, <3>1, <3>2 DEF IsToken
  <2> QED
    BY <1>4, <2>1, EventsAreText DEF WireInv
<1>6. b >= 3
  BY <1>1, <1>2, <1>5
<1>7. buffer[2] = Newline /\ buffer[3] = Newline
  <2>1. /\ 2 \in 1..b /\ 3*d + 2 = 3*(d + 1) - 1
        /\ 3 \in 1..b /\ 3*d + 3 = 3*(d + 1)
    BY <1>1, <1>6
  <2>2. IsToken(sent, buffer[2], 3*d + 2) /\ IsToken(sent, buffer[3], 3*d + 3)
    BY <2>1 DEF WireInv, Tokens, Place
  <2> QED
    BY <1>4, <2>1, <2>2 DEF IsToken
<1>8. 2 \in at /\ \A l \in at : 2 <= l
  BY <1>1, <1>5, <1>6, <1>7
<1>9. Boundary(buffer) = CHOOSE j \in at : \A l \in at : j <= l
  BY <1>8 DEF Boundary
<1>10. \A j \in at : (\A l \in at : j <= l) => j = 2
  BY <1>1, <1>8
<1> QED
  BY <1>4, <1>5, <1>6, <1>8, <1>9, <1>10

LEMMA ParsedOne ==
    ASSUME NEW e \in Event, NEW s \in Seq(Event \cup {Newline}), Len(s) = 1, s[1] = e
    PROVE  Parsed(s) = <<e>>
<1> DEFINE data == {k \in 1..Len(s) : s[k] # Newline}
<1>1. data = {1}
  BY EventsAreText
<1>2. (CHOOSE k \in data : \A l \in data : l <= k) = 1
  BY <1>1
<1> QED
  BY <1>1, <1>2 DEF Parsed

LEMMA DropThree ==
    ASSUME NEW S, NEW s \in Seq(S), Len(s) >= 3
    PROVE  /\ SubSeq(s, 4, Len(s)) \in Seq(S) /\ Len(SubSeq(s, 4, Len(s))) = Len(s) - 3
           /\ \A j \in 1..(Len(s) - 3) : SubSeq(s, 4, Len(s))[j] = s[j + 3]
<1>1. PICK n \in Nat : n = Len(s) /\ n >= 3
  OBVIOUS
<1>2. \A i \in 4..n : s[i] \in S
  BY <1>1
<1>3. PICK t : t = SubSeq(s, 4, n)
  OBVIOUS
<1>4. /\ t \in Seq(S) /\ Len(t) = IF 4 <= n THEN n - 4 + 1 ELSE 0
      /\ \A i \in 1..(n - 4 + 1) : t[i] = s[4 + i - 1]
  BY <1>1, <1>2, <1>3, SubSeqProperties
<1>5. Len(t) = n - 3
  BY <1>1, <1>4
<1>6. ASSUME NEW j \in 1..(n - 3) PROVE t[j] = s[j + 3]
  <2>1. j \in 1..(n - 4 + 1) /\ 4 + j - 1 = j + 3
    BY <1>1
  <2> QED
    BY <1>4, <2>1
<1> QED
  BY <1>1, <1>3, <1>4, <1>5, <1>6

\* One event is handed to the form: the next one.
LEMMA YieldKeeps == ASSUME WireInv, ResultInv, Yield PROVE WireInv' /\ ResultInv'
<1> DEFINE b == Len(buffer)  w == Len(wire)  d == Len(delivered)
<1>1. b \in Nat /\ w \in Nat /\ d \in Nat /\ Len(sent) \in Nat
  BY DEF WireInv
<1>2. Boundary(buffer) = 2 /\ b >= 3 /\ d + 1 \in 1..Len(sent) /\ buffer[1] = sent[d + 1]
  BY NextEvent DEF Yield
<1>3. PICK e \in Event : e = sent[d + 1]
  BY <1>2 DEF WireInv
<1>4. /\ sent \in Seq(Event) /\ delivered \in Seq(Event)
      /\ buffer \in Seq(Event \cup {Newline}) /\ wire \in Seq(Event \cup {Newline})
      /\ stream \in {"none", "open", "complete", "broken"}
      /\ \A i \in 1..d : delivered[i] = sent[i]
      /\ Place + b + w <= 3 * Len(sent)
      /\ stream = "open" => Place + b + w = 3 * Len(sent)
      /\ Tokens(sent, buffer, Place) /\ Tokens(sent, wire, Place + b)
  BY DEF WireInv
<1>5. Parsed(SubSeq(buffer, 1, Boundary(buffer) - 1)) = <<e>>
  <2>1. /\ SubSeq(buffer, 1, 1) \in Seq(Event \cup {Newline})
        /\ Len(SubSeq(buffer, 1, 1)) = 1 /\ SubSeq(buffer, 1, 1)[1] = e
    BY <1>1, <1>2, <1>3, <1>4
  <2>2. Parsed(SubSeq(buffer, 1, 1)) = <<e>>
    BY <2>1, ParsedOne
  <2>3. Boundary(buffer) - 1 = 1
    BY <1>2
  <2> QED
    BY <2>2, <2>3
<1>6. /\ buffer' = SubSeq(buffer, 4, b) /\ delivered' = delivered \o <<e>>
      /\ UNCHANGED <<stream, wire, sent>>
      /\ gotResult' => gotResult \/ e[1] = "result"
  <2>1. Last(<<e>>) = e /\ <<e>> # <<>>
    BY DEF Last
  <2>2. /\ buffer' = SubSeq(buffer, 2 + 2, b) /\ delivered' = delivered \o <<e>>
        /\ UNCHANGED apiSide
    BY <1>2, <1>5, Zenon DEF Yield
  <2>3. gotResult' => gotResult \/ e[1] = "result"
    BY <1>5, <2>1 DEF Yield
  <2> QED
    BY <2>2, <2>3 DEF apiSide
<1>7. /\ delivered' \in Seq(Event) /\ Len(delivered') = d + 1 /\ delivered'[d + 1] = e
      /\ \A i \in 1..d : delivered'[i] = delivered[i]
  BY <1>1, <1>4, <1>6
<1>8. /\ buffer' \in Seq(Event \cup {Newline}) /\ Len(buffer') = b - 3
      /\ \A j \in 1..(b - 3) : buffer'[j] = buffer[j + 3]
  BY <1>2, <1>4, <1>6, DropThree
<1>9. Place' = Place + 3 /\ Place \in Nat /\ Place' + Len(buffer') = Place + b
  <2>1. Place' = 3 * (d + 1) /\ Place = 3 * d
    BY <1>7 DEF Place
  <2> HIDE DEF d, b
  <2> QED
    BY <1>1, <1>2, <1>8, <2>1
<1>10. Tokens(sent, buffer, Place)'
  <2>1. ASSUME NEW j \in 1..(b - 3) PROVE IsToken(sent, buffer'[j], Place + 3 + j)
    <3>1. PICK k \in 1..b : k = j + 3 /\ Place + k = Place + 3 + j
      <4>1. b \in Nat /\ b >= 3 /\ Place \in Nat
        BY <1>1, <1>2, <1>9
      <4> HIDE DEF b
      <4> QED
        BY <4>1
    <3>2. IsToken(sent, buffer[k], Place + k)
      BY <1>4 DEF Tokens
    <3> QED
      BY <1>8, <3>1, <3>2
  <2>2. Tokens(sent, buffer', Place + 3)
    BY <1>8, <2>1 DEF Tokens
  <2> QED
    BY <1>6, <1>9, <2>2
<1>11. Tokens(sent, wire, Place + Len(buffer))'
  BY <1>4, <1>6, <1>9
<1>12. \A i \in 1..(d + 1) : delivered'[i] = sent[i]
  <2> TAKE i \in 1..(d + 1)
  <2>1. i \in 1..d \/ i = d + 1
    BY <1>1
  <2> QED
    BY <1>3, <1>4, <1>7, <2>1
<1>13. (Place + Len(buffer) + Len(wire))' = Place + b + w
  BY <1>6, <1>9
<1>14. WireInv'
  <2>1. d + 1 <= Len(sent)
    BY <1>1, <1>2
  <2> QED
    BY <1>4, <1>6, <1>7, <1>8, <1>10, <1>11, <1>12, <1>13, <2>1 DEF WireInv
<1>15. ResultInv'
  <2>1. ASSUME gotResult' PROVE delivered' # <<>> /\ Last(delivered')[1] = "result"
    <3>1. CASE e[1] = "result"
      BY <1>1, <1>7, <3>1 DEF Last
    <3>2. CASE e[1] # "result"
      <4>1. d > 0 /\ delivered[d][1] = "result" /\ d < Len(sent)
        BY <1>1, <1>2, <1>6, <2>1, <3>2 DEF ResultInv, Last, WireInv
      <4>2. sent[d][1] = "chunk"
        BY <1>1, <4>1 DEF ResultInv
      <4> QED
        BY <1>1, <4>1, <4>2 DEF WireInv
    <3> QED
      BY <3>1, <3>2
  <2> QED
    BY <1>6, <2>1 DEF ResultInv
<1> QED
  BY <1>14, <1>15

\* A draft begins, or the form is gone: nothing is on its way.
LEMMA EmptyKeeps ==
    ASSUME sent' = <<>>, wire' = <<>>, buffer' = <<>>, delivered' = <<>>, gotResult' = FALSE,
           stream' \in {"none", "open", "complete", "broken"}
    PROVE  WireInv' /\ ResultInv'
BY DEF WireInv, ResultInv, Tokens, Place

LEMMA StreamInvHolds == DraftSpec => [](WireInv /\ ResultInv)
<1>1. DraftInit => WireInv /\ ResultInv
  BY DEF DraftInit, WireInv, ResultInv, Tokens, Place
<1>2. WireInv /\ ResultInv /\ [DraftNext]_draftVars => WireInv' /\ ResultInv'
  <2> SUFFICES ASSUME WireInv, ResultInv, [DraftNext]_draftVars PROVE WireInv' /\ ResultInv'
    OBVIOUS
  <2>1. CASE UNCHANGED <<stream, wire, sent, gotResult, buffer, delivered>>
    BY <2>1 DEF WireInv, ResultInv, Tokens, Place
  <2>2. CASE StreamChunk
    <3>1. Len(sent) + 1 \in 1..MaxChunks
      BY <2>2, DraftBounds DEF StreamChunk, WireInv
    <3>2. <<"chunk", Len(sent) + 1>> \in Event
      BY <3>1 DEF Event
    <3> QED
      BY <2>2, <3>2, WriteKeeps DEF StreamChunk, attempt
  <2>3. CASE StreamEnds
    <3>1. PICK e \in {"result", "error"} : Write(<<e, 0>>)
      BY <2>3 DEF StreamEnds
    <3>2. <<e, 0>> \in Event
      BY DEF Event
    <3> QED
      BY <2>3, <3>1, <3>2, WriteKeeps DEF StreamEnds, attempt
  <2>4. CASE GenerateDraft \/ Remount
    <3>1. stream' \in {"none", "open", "complete", "broken"}
      BY <2>4 DEF GenerateDraft, Remount
    <3> QED
      BY <2>4, <3>1, EmptyKeeps DEF GenerateDraft, Remount
  <2>5. CASE \/ Redeploy \/ AskStatus \/ StreamDone \/ SubmitForm \/ Submitted
             \/ (\E f \in Fields : Edit(f)) \/ UNCHANGED draftVars
    BY <2>1, <2>5 DEF Redeploy, AskStatus, StreamDone, SubmitForm, Submitted, Edit,
                      draftVars, apiSide, attempt
  <2> QED
    BY <2>2, <2>3, <2>4, <2>5, ReadKeeps, YieldKeeps DEF DraftNext, DraftStays
<1> QED
  BY <1>1, <1>2, PTL DEF DraftSpec

\* However the stream is cut into pieces, or cut short, the form is handed the
\* API's events in their order.
THEOREM Delivery == DraftSpec => []EventsInOrder
<1>1. WireInv => EventsInOrder
  <2> SUFFICES ASSUME WireInv PROVE EventsInOrder
    OBVIOUS
  <2>1. Len(delivered) \in Nat /\ Len(sent) \in Nat
    BY DEF WireInv
  <2>2. SubSeq(delivered, 1, Len(delivered)) = SubSeq(sent, 1, Len(delivered))
    BY <2>1 DEF WireInv
  <2> QED
    BY <2>2 DEF EventsInOrder, IsPrefix, WireInv
<1> QED
  BY <1>1, StreamInvHolds, PTL

\* Drafting that ends without an error has applied the whole draft.
THEOREM DraftsComplete == DraftSpec => DraftEndsKnown
<1>1. WireInv /\ ResultInv /\ [DraftNext]_draftVars
      => [drafting /\ ~drafting' /\ ~error' =>
            \/ delivered' = sent /\ sent # <<>> /\ Last(sent)[1] = "result"
            \/ Remount]_draftVars
  <2> SUFFICES ASSUME WireInv, ResultInv, DraftNext, drafting, ~drafting', ~error', ~Remount
               PROVE  delivered' = sent /\ sent # <<>> /\ Last(sent)[1] = "result"
    OBVIOUS
  <2>1. StreamDone
    BY DEF DraftNext, DraftStays, Redeploy, StreamChunk, StreamEnds, Disconnect, AskStatus,
           GenerateDraft, Read, Yield, Quit, Edit, SubmitForm, Submitted, attempt
  <2>2. gotResult /\ UNCHANGED delivered
    BY <2>1 DEF StreamDone, Quit, MissingResult
  <2> DEFINE d == Len(delivered)
  <2>3. /\ d \in Nat /\ Len(sent) \in Nat /\ d > 0 /\ delivered[d][1] = "result"
        /\ d <= Len(sent) /\ sent[d] = delivered[d]
    BY <2>2 DEF WireInv, ResultInv, Last
  <2>4. d = Len(sent)
    BY <2>3 DEF ResultInv
  <2>5. delivered = sent
    BY <2>4 DEF WireInv
  <2> QED
    BY <2>2, <2>3, <2>5 DEF Last
<1> QED
  BY <1>1, StreamInvHolds, PTL DEF DraftSpec, DraftEndsKnown

------------------------------------------------------------------------------
\* The other pages.

\* A request its page still waits for: the only one of its control, which is
\* disabled, and newer than what the control shows.
AwaitedInv ==
    \A q \in {x \in reqs : x.here /\ x.ctl \in Controls} :
        /\ q.ctl \in pending /\ answer[q.ctl] < q.n
        /\ \A o \in reqs : o.here /\ o.ctl = q.ctl => o = q

\* Whatever is sent for a card, and nothing else, changes it; clicks are numbered.
PagesInv ==
    /\ PagesTypeOK /\ AwaitedInv
    /\ \A q \in reqs : /\ q.ctl \in Providers <=> q.op # "send"
                       /\ q.n <= clicks
    /\ \A c \in Controls : answer[c] <= clicks

\* No card is named like another control.
LEMMA ControlNames ==
    "list" \notin Controls /\ {"login", "select-tenant", "search", "trigger"} \cap Providers = {}
  BY PagesNames DEF Controls

LEMMA SummariesTyped ==
    /\ Loading \in [Providers -> Summary] /\ Removed \in Summary
    /\ \A q, row : Summaries(q, row) \subseteq [Providers -> Summary]
<1>1. [status |-> "loading", configured |-> FALSE] \in Summary /\ Removed \in Summary
  BY DEF Summary, Removed, Config
<1>2. Loading \in [Providers -> Summary]
  BY <1>1 DEF Loading
<1> QED
  BY <1>1, <1>2 DEF Summaries

\* A page that mounts waits for nothing but the list it asks for.
LEMMA MountKeeps ==
    ASSUME PagesInv, NEW r \in Routes, NEW t \in Tenants \cup {NoToken},
           NEW qs \in SUBSET reqs, Mount(r, t, qs), UNCHANGED <<cfg, clicks>>
    PROVE  PagesInv'
<1> DEFINE asked == [New("list", "send", 0) EXCEPT !.as = t]
           left == {[q EXCEPT !.here = FALSE] : q \in {x \in qs : x.n > 0}}
<1>1. /\ route' = r /\ token' = t
      /\ choosing' = FALSE /\ cards' = Loading /\ pending' = {} /\ removed' = {}
      /\ usable' \in BOOLEAN /\ answer' = NothingShown
      /\ reqs' \subseteq left \cup {asked}
  BY DEF Mount
<1>2. MaxClicks \in Nat /\ reqs \subseteq Request
  BY PagesBounds DEF PagesInv, PagesTypeOK
<1>3. asked \in Request /\ asked.ctl = "list" /\ asked.n = 0 /\ asked.op = "send"
  <2>1. Loading \in [Providers -> Summary] /\ 0 \in 0..MaxClicks
    BY <1>2, SummariesTyped
  <2>2. New("list", "send", 0) \in Request /\ New("list", "send", 0).ctl = "list"
        /\ New("list", "send", 0).n = 0 /\ New("list", "send", 0).op = "send"
    BY <2>1 DEF New, Request, PagesInv, PagesTypeOK
  <2> HIDE DEF New
  <2> QED
    BY <2>2 DEF Request
<1>4. \A q \in left : /\ q \in Request /\ ~q.here /\ q.n <= clicks
                      /\ q.ctl \in Providers <=> q.op # "send"
  <2> SUFFICES ASSUME NEW x \in reqs
               PROVE  LET q == [x EXCEPT !.here = FALSE]
                      IN  /\ q \in Request /\ ~q.here /\ q.n <= clicks
                          /\ q.ctl \in Providers <=> q.op # "send"
    OBVIOUS
  <2> QED
    BY <1>2 DEF Request, PagesInv
<1> HIDE DEF asked, left
<1>5. PagesTypeOK'
  <2>1. cards' \in [Providers -> Summary] /\ answer' \in [Controls -> 0..MaxClicks]
    BY <1>1, <1>2, SummariesTyped DEF NothingShown
  <2>2. reqs' \subseteq Request
    BY <1>1, <1>3, <1>4
  <2> QED
    BY <1>1, <2>1, <2>2 DEF PagesInv, PagesTypeOK
<1>6. AwaitedInv'
  BY <1>1, <1>3, <1>4, ControlNames DEF AwaitedInv
<1>7. \A q \in reqs' : /\ q.ctl \in Providers <=> q.op # "send"
                       /\ q.n <= clicks'
  <2>1. 0 <= clicks
    BY <1>2 DEF PagesInv, PagesTypeOK
  <2> QED
    BY <1>1, <1>3, <1>4, <2>1, ControlNames DEF Controls
<1>8. \A c \in Controls : answer'[c] <= clicks'
  BY <1>1, <1>2 DEF NothingShown, PagesInv, PagesTypeOK
<1> QED
  BY <1>5, <1>6, <1>7, <1>8 DEF PagesInv

\* A click sends the only request of a control that was enabled.
LEMMA ClickKeeps ==
    ASSUME PagesInv, NEW c \in Controls, NEW op \in Offers(c), Click(c, op)
    PROVE  PagesInv'
<1> DEFINE n == clicks + 1
           new == New(c, op, n)
<1>1. /\ c \notin pending /\ clicks < MaxClicks /\ clicks' = n
      /\ pending' = pending \cup {c} /\ reqs' = reqs \cup {new}
      /\ UNCHANGED <<cfg, token, route, choosing, usable, cards, removed, answer>>
  BY DEF Click, CanClick
<1>2. /\ MaxClicks \in Nat /\ clicks \in 0..MaxClicks /\ reqs \subseteq Request
      /\ answer \in [Controls -> 0..MaxClicks]
  BY PagesBounds DEF PagesInv, PagesTypeOK
<1>3. n \in 0..MaxClicks /\ n \in Nat /\ clicks < n
  BY <1>1, <1>2
<1>4. /\ op \in {"send", "configure", "remove"} \cup Config
      /\ c \in Providers <=> op # "send"
  <2>1. CASE c \in Providers
    <3>1. c # "login" /\ c # "select-tenant" /\ c # "search" /\ c # "trigger"
      BY <2>1, ControlNames
    <3>2. op \in IF cards[c].status = "loading" THEN {}
                 ELSE IF ~cards[c].configured THEN {"configure"}
                 ELSE ({"ACTIVE", "BROKEN"} \ {cards[c].status}) \cup {"remove"}
      BY <3>1 DEF Offers
    <3>3. op \in {"configure", "remove", "ACTIVE", "BROKEN"}
      BY <3>2
    <3>4. op \in {"configure", "remove"} \cup Config
      BY <3>3 DEF Config
    <3>5. op # "send"
      BY <3>3
    <3> QED
      BY <2>1, <3>4, <3>5
  <2>2. CASE c \in {"login", "select-tenant", "search", "trigger"}
    BY <2>2, ControlNames DEF Offers
  <2> QED
    BY <2>1, <2>2 DEF Controls
<1> HIDE DEF n
<1>5. /\ new \in Request /\ new.ctl = c /\ new.op = op /\ new.n = n
  <2>1. Loading \in [Providers -> Summary]
    BY SummariesTyped
  <2>2. token \in Tenants \cup {NoToken}
    BY DEF PagesInv, PagesTypeOK
  <2> QED
    BY <1>3, <1>4, <2>1, <2>2 DEF New, Request
<1> HIDE DEF new
<1>6. PagesTypeOK'
  <2>1. reqs' \subseteq Request /\ clicks' \in 0..MaxClicks /\ pending' \subseteq Controls
    BY <1>1, <1>2, <1>3, <1>5 DEF PagesInv, PagesTypeOK
  <2> QED
    BY <1>1, <2>1 DEF PagesInv, PagesTypeOK
<1>7. AwaitedInv'
  <2>1. \A q \in reqs : ~(q.here /\ q.ctl = c)
    BY <1>1 DEF PagesInv, AwaitedInv
  <2>2. answer[c] < n
    <3>1. answer[c] <= clicks /\ answer[c] \in Nat
      BY <1>2 DEF PagesInv
    <3> QED
      BY <1>2, <1>3, <3>1
  <2>3. \A q \in reqs : q.here /\ q.ctl \in Controls =>
           /\ q.ctl \in pending /\ answer[q.ctl] < q.n
           /\ \A o \in reqs : o.here /\ o.ctl = q.ctl => o = q
    BY DEF PagesInv, AwaitedInv
  <2> QED
    BY <1>1, <1>5, <2>1, <2>2, <2>3 DEF AwaitedInv
<1>8. \A q \in reqs' : /\ q.ctl \in Providers <=> q.op # "send"
                       /\ q.n <= clicks'
  <2> SUFFICES ASSUME NEW q \in reqs PROVE /\ q.ctl \in Providers <=> q.op # "send"
                                           /\ q.n <= n
    BY <1>1, <1>3, <1>4, <1>5
  <2>1. q.n \in Nat /\ q.n <= clicks
    BY <1>2 DEF PagesInv, Request
  <2> QED
    BY <1>2, <1>3, <2>1 DEF PagesInv
<1>9. \A d \in Controls : answer'[d] <= clicks'
  <2> SUFFICES ASSUME NEW d \in Controls PROVE answer[d] <= n
    BY <1>1
  <2>1. answer[d] <= clicks /\ answer[d] \in Nat
    BY <1>2 DEF PagesInv
  <2> QED
    BY <1>2, <1>3, <2>1
<1> QED
  BY <1>6, <1>7, <1>8, <1>9 DEF PagesInv

\* The API settles a request: what it is about stays.
LEMMA ServeKeeps ==
    ASSUME PagesInv, NEW q \in reqs, Serve(q)
    PROVE  PagesInv'
<1>1. PICK s \in {"ok", "failed"}, seen \in [Providers -> Summary] :
        reqs' = (reqs \ {q}) \cup {[q EXCEPT !.state = s, !.seen = seen]}
  <2>1. q.seen \in [Providers -> Summary]
    BY DEF PagesInv, PagesTypeOK, Request
  <2>2. \E row : \E s \in {"ok", "failed"}, seen \in Summaries(q, row) \cup {q.seen} :
           reqs' = (reqs \ {q}) \cup {[q EXCEPT !.state = s, !.seen = seen]}
    <3> DEFINE settled(s, seen) == (reqs \ {q}) \cup {[q EXCEPT !.state = s, !.seen = seen]}
               after == IF q.ctl \in Providers
                        THEN [cfg EXCEPT ![q.as][q.ctl] = Effect(q)] ELSE cfg
    <3>1. \/ reqs' = settled("failed", q.seen)
          \/ \E seen \in Summaries(q, after[q.as]) \cup {q.seen} : reqs' = settled("ok", seen)
      BY DEF Serve
    <3> HIDE DEF after
    <3> QED
      BY <3>1
  <2> QED
    BY <2>1, <2>2, SummariesTyped
<1>2. UNCHANGED <<token, route, choosing, usable, cards, pending, removed, clicks, answer>>
  BY DEF Serve
<1>3. cfg' \in [Tenants -> [Providers -> Config]]
  <2>0. q \in Request /\ cfg \in [Tenants -> [Providers -> Config]]
    BY DEF PagesInv, PagesTypeOK
  <2>1. CASE q.ctl \in Providers
    <3>1. Effect(q) \in Config
      <4>1. q.op \in {"configure", "remove", "send"} \cup Config /\ q.op # "send"
        BY <2>0, <2>1 DEF Request, PagesInv
      <4> QED
        BY <4>1 DEF Effect, Config
    <3>2. cfg' = cfg \/ cfg' = [cfg EXCEPT ![q.as][q.ctl] = Effect(q)]
      BY <2>1 DEF Serve
    <3>3. q.as \in Tenants \/ cfg' = cfg
      BY <2>0, <2>1, ControlNames DEF Serve, Request
    <3>4. ASSUME q.as \in Tenants
          PROVE  [cfg EXCEPT ![q.as][q.ctl] = Effect(q)] \in [Tenants -> [Providers -> Config]]
      <4>1. cfg[q.as] \in [Providers -> Config]
        BY <2>0, <3>4
      <4>2. [cfg[q.as] EXCEPT ![q.ctl] = Effect(q)] \in [Providers -> Config]
        BY <2>1, <3>1, <4>1
      <4> QED
        BY <2>0, <4>2
    <3> QED
      BY <2>0, <3>2, <3>3, <3>4
  <2>2. CASE q.ctl \notin Providers
    <3>1. cfg' = cfg
      BY <2>2 DEF Serve
    <3> QED
      BY <2>0, <3>1
  <2> QED
    BY <2>1, <2>2
<1> DEFINE new == [q EXCEPT !.state = s, !.seen = seen]
<1>4. /\ q \in Request /\ new \in Request /\ new.ctl = q.ctl /\ new.op = q.op
      /\ new.n = q.n /\ new.here = q.here
  BY DEF PagesInv, PagesTypeOK, Request
<1>5. reqs' = (reqs \ {q}) \cup {new}
  BY <1>1
<1> HIDE DEF new
<1>6. PagesTypeOK'
  BY <1>2, <1>3, <1>4, <1>5 DEF PagesInv, PagesTypeOK
<1>7. AwaitedInv'
  BY <1>2, <1>4, <1>5 DEF PagesInv, AwaitedInv
<1> QED
  BY <1>2, <1>4, <1>5, <1>6, <1>7 DEF PagesInv

\* A request is gone, and maybe its control is enabled.
LEMMA GoneKeeps ==
    ASSUME PagesInv, NEW q \in reqs, reqs' = reqs \ {q},
           pending' = pending \/ (q.here /\ pending' = pending \ {q.ctl}),
           UNCHANGED <<cfg, token, route, usable, cards, removed, clicks, answer>>,
           choosing' \in BOOLEAN
    PROVE  PagesInv'
<1>1. PagesTypeOK'
  BY DEF PagesInv, PagesTypeOK
<1>2. AwaitedInv'
  BY DEF PagesInv, AwaitedInv
<1> QED
  BY <1>1, <1>2 DEF PagesInv

\* An answer replaces an older one, and what a page waits for stays newer.
LEMMA ArrivesKeeps ==
    ASSUME PagesInv, NEW q \in reqs, Arrives(q)
    PROVE  /\ PagesInv'
           /\ \A c \in Controls : answer[c] <= answer'[c]
<1>1. /\ q \in Request /\ answer \in [Controls -> 0..MaxClicks] /\ MaxClicks \in Nat
      /\ reqs' = reqs \ {q}
      /\ pending' = pending \/ (q.here /\ pending' = pending \ {q.ctl})
      /\ answer' = [c \in Controls |-> IF q.here /\ c = q.ctl THEN q.n ELSE answer[c]]
      /\ UNCHANGED <<cfg, token, route, choosing, usable, clicks>>
      /\ removed' = removed \/ (q.ctl \in Providers /\ removed' = removed \cup {q.ctl})
  BY PagesBounds DEF Arrives, PagesInv, PagesTypeOK
<1>2. q.n \in 0..MaxClicks /\ q.seen \in [Providers -> Summary]
  BY <1>1 DEF Request
<1>3. cards' \in [Providers -> Summary] /\ removed' \subseteq Providers
  <2>1. cards \in [Providers -> Summary] /\ removed \subseteq Providers
    BY DEF PagesInv, PagesTypeOK
  <2>2. \/ cards' = cards
        \/ cards' = q.seen
        \/ cards' = [cards EXCEPT ![q.ctl] = Removed]
        \/ q.ctl \in Providers /\ cards' = [cards EXCEPT ![q.ctl] = q.seen[q.ctl]]
    BY DEF Arrives
  <2> QED
    BY <1>1, <1>2, <2>1, <2>2, SummariesTyped
<1>4. \A c \in Controls : answer[c] \in Nat /\ answer'[c] \in 0..MaxClicks
  BY <1>1, <1>2
<1>5. PagesTypeOK'
  <2>1. answer' \in [Controls -> 0..MaxClicks]
    BY <1>1, <1>4
  <2> QED
    BY <1>1, <1>3, <2>1 DEF PagesInv, PagesTypeOK
<1>6. \A o \in reqs' : o.here /\ o.ctl \in Controls => ~(q.here /\ q.ctl = o.ctl)
  BY <1>1 DEF PagesInv, AwaitedInv
<1>7. AwaitedInv'
  <2>1. \A o \in reqs : o.here /\ o.ctl \in Controls =>
           /\ o.ctl \in pending /\ answer[o.ctl] < o.n
           /\ \A p \in reqs : p.here /\ p.ctl = o.ctl => p = o
    BY DEF PagesInv, AwaitedInv
  <2>2. \A o \in reqs' : o.here /\ o.ctl \in Controls =>
           answer'[o.ctl] = answer[o.ctl] /\ o.ctl \in pending'
    BY <1>1, <1>6, <2>1
  <2> QED
    BY <1>1, <2>1, <2>2 DEF AwaitedInv
<1>8. \A c \in Controls : q.here /\ c = q.ctl => answer[c] < q.n
  BY DEF PagesInv, AwaitedInv
<1>9. q.here /\ q.ctl \in Controls => q.n <= clicks
  BY DEF PagesInv
<1>10. \A c \in Controls : answer[c] <= answer'[c]
  <2> SUFFICES ASSUME NEW c \in Controls PROVE answer[c] <= answer'[c]
    OBVIOUS
  <2>1. answer'[c] = answer[c] \/ (answer'[c] = q.n /\ answer[c] < q.n)
    BY <1>1, <1>8
  <2> QED
    BY <1>2, <1>4, <2>1
<1>11. \A c \in Controls : answer'[c] <= clicks'
  BY <1>1, <1>9 DEF PagesInv
<1> QED
  BY <1>1, <1>5, <1>7, <1>10, <1>11 DEF PagesInv

LEMMA PagesInvHolds == PagesSpec => []PagesInv
<1>1. PagesInit => PagesInv
  <2> SUFFICES ASSUME PagesInit PROVE PagesInv
    OBVIOUS
  <2>1. MaxClicks \in Nat /\ 0 \in 0..MaxClicks
    BY PagesBounds
  <2>2. PagesTypeOK
    BY <2>1, SummariesTyped DEF PagesInit, PagesTypeOK, Config, Routes, NothingShown
  <2> QED
    BY <2>2 DEF PagesInit, PagesInv, AwaitedInv, NothingShown
<1>2. PagesInv /\ [PagesNext]_pagesVars => PagesInv'
  <2> SUFFICES ASSUME PagesInv, [PagesNext]_pagesVars PROVE PagesInv'
    OBVIOUS
  <2>1. ASSUME NEW r \in Routes, Go(r) PROVE PagesInv'
    <3>1. Mount(r, token, reqs) /\ UNCHANGED <<cfg, clicks>>
      BY <2>1 DEF Go
    <3>2. token \in Tenants \cup {NoToken}
      BY DEF PagesInv, PagesTypeOK
    <3> QED
      BY <3>1, <3>2, MountKeeps
  <2>2. ASSUME NEW c \in Controls, NEW op \in Offers(c), Click(c, op) PROVE PagesInv'
    BY <2>2, ClickKeeps
  <2>3. CASE Back \/ OtherTab \/ UNCHANGED pagesVars
    <3>1. /\ UNCHANGED <<cfg, route, usable, cards, pending, removed, clicks, answer, reqs>>
          /\ token' \in Tenants \cup {NoToken} /\ choosing' \in BOOLEAN
      BY <2>3 DEF Back, OtherTab, pagesVars, PagesInv, PagesTypeOK
    <3> QED
      BY <3>1 DEF PagesInv, PagesTypeOK, AwaitedInv
  <2>4. ASSUME NEW q \in reqs, Serve(q) PROVE PagesInv'
    BY <2>4, ServeKeeps
  <2>5. ASSUME NEW q \in reqs, Fails(q) PROVE PagesInv'
    <3>1. /\ reqs' = reqs \ {q}
          /\ pending' = pending \/ (q.here /\ pending' = pending \ {q.ctl})
          /\ UNCHANGED <<cfg, token, route, choosing, usable, cards, removed, clicks, answer>>
      BY <2>5 DEF Fails, FreedByFailure
    <3>2. choosing' \in BOOLEAN
      BY <3>1 DEF PagesInv, PagesTypeOK
    <3> QED
      BY <3>1, <3>2, GoneKeeps
  <2>6. ASSUME NEW q \in reqs, SignsIn(q) PROVE PagesInv'
    <3>1. ASSUME NEW t \in Tenants, Mount("home", t, reqs \ {q}), UNCHANGED <<cfg, clicks>>
          PROVE  PagesInv'
      BY <3>1, MountKeeps DEF Routes
    <3>2. CASE \A t \in Tenants : ~Mount("home", t, reqs \ {q})
      <4>1. /\ reqs' = reqs \ {q} /\ choosing' = (choosing \/ q.here)
            /\ pending' = pending \/ (q.here /\ pending' = pending \ {q.ctl})
            /\ UNCHANGED <<cfg, token, route, usable, cards, removed, clicks, answer>>
        BY <2>6, <3>2 DEF SignsIn
      <4>2. choosing' \in BOOLEAN
        BY <4>1
      <4> QED
        BY <4>1, <4>2, GoneKeeps
    <3> QED
      BY <2>6, <3>1, <3>2 DEF SignsIn
  <2>7. ASSUME NEW q \in reqs, Triggered(q) PROVE PagesInv'
    <3>1. Mount("home", token, reqs \ {q}) /\ UNCHANGED <<cfg, clicks>>
      BY <2>7 DEF Triggered
    <3>2. token \in Tenants \cup {NoToken}
      BY DEF PagesInv, PagesTypeOK
    <3>3. "home" \in Routes /\ reqs \ {q} \in SUBSET reqs
      BY DEF Routes
    <3> QED
      BY <3>1, <3>2, <3>3, MountKeeps
  <2>8. ASSUME NEW q \in reqs, Arrives(q) PROVE PagesInv'
    BY <2>8, ArrivesKeeps
  <2> QED
    BY <2>1, <2>2, <2>3, <2>4, <2>5, <2>6, <2>7, <2>8 DEF PagesNext, Settle
<1> QED
  BY <1>1, <1>2, PTL DEF PagesSpec

\* Every reachable state of the other pages is well typed.
THEOREM PagesTypes == PagesSpec => []PagesTypeOK
<1>1. PagesInv => PagesTypeOK
  BY DEF PagesInv
<1> QED
  BY <1>1, PagesInvHolds, PTL

\* What a control shows is never replaced by the answer to an older request:
\* the request a page waits for is newer than what is shown, and the only one.
THEOREM NewestAnswerStays == PagesSpec => AnswersInOrder
<1>1. PagesInv /\ [PagesNext]_pagesVars =>
        [\A c \in Controls : answer'[c] < answer[c] => answer'[c] = 0 /\ pending' = {}]_pagesVars
  <2> SUFFICES ASSUME PagesInv, PagesNext, NEW c \in Controls, answer'[c] < answer[c]
               PROVE  answer'[c] = 0 /\ pending' = {}
    OBVIOUS
  <2>1. answer[c] \in Nat
    BY PagesBounds DEF PagesInv, PagesTypeOK
  <2>2. answer' # answer
    BY <2>1
  <2>3. ASSUME NEW q \in reqs, Arrives(q) PROVE FALSE
    <3>1. answer[c] <= answer'[c] /\ answer'[c] \in Nat
      BY <2>3, ArrivesKeeps, PagesBounds DEF PagesInv, PagesTypeOK
    <3> QED
      BY <2>1, <3>1
  <2>4. \E r \in Routes, t \in Tenants \cup {NoToken}, qs \in SUBSET reqs : Mount(r, t, qs)
    BY <2>2, <2>3 DEF PagesNext, Settle, Go, Click, Back, OtherTab, Serve, Fails, SignsIn,
                      Triggered, Routes, PagesInv, PagesTypeOK
  <2> QED
    BY <2>4 DEF Mount, NothingShown
<1> QED
  BY <1>1, PagesInvHolds, PTL DEF PagesSpec, AnswersInOrder

==============================================================================
