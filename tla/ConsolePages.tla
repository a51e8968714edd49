----------------------------- MODULE ConsolePages -----------------------------
(***************************************************************************)
(* The web console's other pages: signing in (with the choice of a tenant  *)
(* for an account of several), the integrations page and its cards, the    *)
(* knowledge-base search and the simulation scenarios.                     *)
(*                                                                         *)
(* They share one shape.  A control sends a request and is disabled        *)
(* (pending) until the handler behind it resumes.  The handler goes on     *)
(* when its page is gone: what it sets on the page is lost, the token it   *)
(* stores and the route it pushes are not.  The stored token belongs to    *)
(* all tabs, so another tab may change the tenant under a page.            *)
(***************************************************************************)
EXTENDS Integers

CONSTANTS
    Tenants,
    Providers,      \* the integration cards
    NoToken,
    MaxClicks       \* bound on the requests the user sends

ASSUME PagesBounds == MaxClicks \in Nat
ASSUME PagesNames ==
    /\ NoToken \notin Tenants
    /\ Providers \cap {"login", "select-tenant", "search", "trigger", "list"} = {}

VARIABLES
    cfg,            \* API: the configuration of each tenant's providers
    token,          \* localStorage: the tenant of the stored token
    route,
    choosing,       \* login page: the form shown is the choice of a tenant
    usable,         \* the page had a token when it mounted (or needs none)
    cards,          \* integrations page: the summaries
    pending,        \* the controls that are disabled
    removed,        \* history: the cards whose removal this page was told of
    clicks,         \* requests sent by the user so far
    answer,         \* history: the request whose answer a control shows
    reqs            \* requests on their way

pagesVars == <<cfg, token, route, choosing, usable, cards, pending, removed, clicks, answer, reqs>>

Config == {"NOT_CONFIGURED", "ACTIVE", "BROKEN"}

\* What a card shows; `configured` says that the API's provider has credentials.
Summary == [status : Config \cup {"loading"}, configured : BOOLEAN]
Removed == [status |-> "NOT_CONFIGURED", configured |-> FALSE]

Controls == Providers \cup {"login", "select-tenant", "search", "trigger"}
Loading == [p \in Providers |-> [status |-> "loading", configured |-> FALSE]]
NothingShown == [c \in Controls |-> 0]

RouteOf(c) ==
    CASE c \in {"login", "select-tenant"} -> "login"
      [] c = "search" -> "knowledge-base"
      [] c = "trigger" -> "simulation"
      [] OTHER -> "integrations"
Routes == {"home", "login", "integrations", "knowledge-base", "simulation"}

\* `as` is the tenant of the token sent, `n` counts the clicks (0 for the list
\* the integrations page loads), `here` says that its page is still mounted,
\* `seen` are the summaries the answer holds.
Request == [ctl : Controls \cup {"list"}, op : {"send", "configure", "remove"} \cup Config,
            as : Tenants \cup {NoToken}, n : 0..MaxClicks, here : BOOLEAN,
            state : {"sent", "ok", "failed"}, seen : [Providers -> Summary]]

PagesTypeOK ==
    /\ cfg \in [Tenants -> [Providers -> Config]]
    /\ token \in Tenants \cup {NoToken}
    /\ route \in Routes /\ choosing \in BOOLEAN /\ usable \in BOOLEAN
    /\ cards \in [Providers -> Summary]
    /\ pending \subseteq Controls /\ removed \subseteq Providers
    /\ clicks \in 0..MaxClicks /\ answer \in [Controls -> 0..MaxClicks]
    /\ reqs \subseteq Request

------------------------------------------------------------------------------
New(c, op, n) == [ctl |-> c, op |-> op, as |-> token, n |-> n, here |-> TRUE,
                  state |-> "sent", seen |-> Loading]

\* A page mounts: the state of the last one is gone, its requests go on (a list
\* nobody waits for any more is left out).  Without a token every page but the
\* login only offers to sign in.
Mount(r, t, qs) ==
    /\ route' = r /\ token' = t
    /\ usable' = (r = "login" \/ t # NoToken)
    /\ choosing' = FALSE /\ cards' = Loading /\ pending' = {} /\ removed' = {}
    /\ answer' = NothingShown
    /\ reqs' = {[q EXCEPT !.here = FALSE] : q \in {x \in qs : x.n > 0}}
               \cup (IF r = "integrations" /\ t # NoToken
                     THEN {[New("list", "send", 0) EXCEPT !.as = t]} ELSE {})

Go(r) ==
    /\ Mount(r, token, reqs)
    /\ UNCHANGED <<cfg, clicks>>

\* Another tab signs in, maybe to another tenant, or out.
OtherTab ==
    /\ token' \in (Tenants \cup {NoToken}) \ {token}
    /\ UNCHANGED <<cfg, route, choosing, usable, cards, pending, removed, clicks, answer, reqs>>

\* What a card offers for the summary it shows (a configured provider any status
\* but its own, any other one only to configure it), and the other controls.
Offers(c) ==
    CASE c = "login" -> IF choosing THEN {} ELSE {"send"}
      [] c = "select-tenant" -> IF choosing THEN {"send"} ELSE {}
      [] c \in {"search", "trigger"} -> {"send"}
      [] OTHER -> IF cards[c].status = "loading" THEN {}
                  ELSE IF ~cards[c].configured THEN {"configure"}
                  ELSE ({"ACTIVE", "BROKEN"} \ {cards[c].status}) \cup {"remove"}

\* Faulty variant: the button stays enabled while its request is on its way.
EnabledAlways(c) == TRUE

CanClick(c) == c \notin pending

Click(c, op) ==
    /\ route = RouteOf(c) /\ usable
    /\ op \in Offers(c) /\ CanClick(c) /\ clicks < MaxClicks
    /\ clicks' = clicks + 1
    /\ pending' = pending \cup {c}
    /\ reqs' = reqs \cup {New(c, op, clicks + 1)}
    /\ UNCHANGED <<cfg, token, route, choosing, usable, cards, removed, answer>>

\* "Back" leaves the choice of a tenant, unless it is being sent.
Back ==
    /\ choosing /\ "select-tenant" \notin pending
    /\ choosing' = FALSE
    /\ UNCHANGED <<cfg, token, route, usable, cards, pending, removed, clicks, answer, reqs>>

------------------------------------------------------------------------------
\* What the API writes, and the summaries it may answer when it holds `row`.  The
\* status is the row's; `configured` is asked of the cached provider, which may
\* lag behind the row when the list is read, and has nothing of credentials that
\* do not decrypt.  The answer to a change is of the row that was written.
Effect(q) ==
    CASE q.op = "configure" -> "ACTIVE"
      [] q.op = "remove" -> "NOT_CONFIGURED"
      [] OTHER -> q.op

Summaries(q, row) ==
    {s \in [Providers -> Summary] :
        /\ \A p \in Providers : s[p].status = row[p]
        /\ q.op = "configure" => s[q.ctl].configured
        /\ q.op = "BROKEN" => ~s[q.ctl].configured}

\* The API serves a request: a status is only set of a row that exists, a removal
\* gets through also when there is none.  Any request may fail.
Serve(q) ==
    LET after == IF q.ctl \in Providers
                 THEN [cfg EXCEPT ![q.as][q.ctl] = Effect(q)] ELSE cfg
        answers == IF q.ctl \in Providers \cup {"list"} /\ q.op # "remove"
                   THEN Summaries(q, after[q.as]) ELSE {q.seen}
        settled(s, seen) == (reqs \ {q}) \cup {[q EXCEPT !.state = s, !.seen = seen]}
    IN  /\ q.state = "sent"
        /\ \/ reqs' = settled("failed", q.seen) /\ UNCHANGED cfg
           \/ /\ q.as # NoToken \/ q.ctl \in {"login", "select-tenant"}
              /\ q.op \in Config => cfg[q.as][q.ctl] # "NOT_CONFIGURED"
              /\ cfg' = after
              /\ \E seen \in answers : reqs' = settled("ok", seen)
        /\ UNCHANGED <<token, route, choosing, usable, cards, pending, removed, clicks, answer>>

\* Faulty variant: a failure is shown, and the control stays disabled.
FreedByFailureNever(c) == {}

FreedByFailure(c) == {c}

Fails(q) ==
    /\ q.state = "failed"
    /\ reqs' = reqs \ {q}
    /\ pending' = IF q.here THEN pending \ FreedByFailure(q.ctl) ELSE pending
    /\ UNCHANGED <<cfg, token, route, choosing, usable, cards, removed, clicks, answer>>

\* Signing in: the tokens are stored and the home page opens, wherever the user
\* is by then; or the account has several tenants.
SignsIn(q) ==
    /\ q.state = "ok" /\ q.ctl \in {"login", "select-tenant"}
    /\ \/ \E t \in Tenants : Mount("home", t, reqs \ {q})
       \/ /\ q.ctl = "login"
          /\ reqs' = reqs \ {q}
          /\ choosing' = (choosing \/ q.here)
          /\ pending' = IF q.here THEN pending \ {"login"} ELSE pending
          /\ UNCHANGED <<token, route, usable, cards, removed, answer>>
    /\ UNCHANGED <<cfg, clicks>>

\* A scenario was created: the home page opens, wherever the user is by then.
Triggered(q) ==
    /\ q.state = "ok" /\ q.ctl = "trigger"
    /\ Mount("home", token, reqs \ {q})
    /\ UNCHANGED <<cfg, clicks>>

\* An answer for the page.  A removal does not reset the card's pending: its
\* finally-less handler only does so when it fails.
Arrives(q) ==
    /\ q.state = "ok" /\ q.ctl \in Providers \cup {"search", "list"}
    /\ reqs' = reqs \ {q}
    /\ cards' = IF ~q.here \/ q.ctl = "search" THEN cards
                ELSE IF q.ctl = "list" THEN q.seen
                ELSE [cards EXCEPT ![q.ctl] = IF q.op = "remove" THEN Removed
                                              ELSE q.seen[q.ctl]]
    /\ removed' = IF q.here /\ q.op = "remove" THEN removed \cup {q.ctl} ELSE removed
    /\ pending' = IF q.here /\ q.op # "remove" THEN pending \ {q.ctl} ELSE pending
    /\ answer' = [c \in Controls |-> IF q.here /\ c = q.ctl THEN q.n ELSE answer[c]]
    /\ UNCHANGED <<cfg, token, route, choosing, usable, clicks>>

------------------------------------------------------------------------------
PagesInit ==
    /\ cfg = [t \in Tenants |-> [p \in Providers |-> "NOT_CONFIGURED"]]
    /\ token = NoToken /\ route = "login" /\ choosing = FALSE /\ usable = TRUE
    /\ cards = Loading /\ pending = {} /\ removed = {} /\ clicks = 0 /\ answer = NothingShown
    /\ reqs = {}

Settle(q) == Fails(q) \/ SignsIn(q) \/ Triggered(q) \/ Arrives(q)

PagesNext ==
    \/ \E r \in Routes : Go(r)
    \/ \E c \in Controls : \E op \in Offers(c) : Click(c, op)
    \/ Back \/ OtherTab
    \/ \E q \in reqs : Serve(q) \/ Settle(q)

PagesSpec == PagesInit /\ [][PagesNext]_pagesVars

\* Every request is answered or fails, and its handler resumes.
PagesFairness ==
    \A n \in 0..MaxClicks :
        WF_pagesVars(\E q \in reqs : q.n = n /\ (Serve(q) \/ Settle(q)))

------------------------------------------------------------------------------
\* What a control shows is never replaced by the answer to an older request.
AnswersInOrder ==
    [][\A c \in Controls : answer'[c] < answer[c] => answer'[c] = 0 /\ pending' = {}]_pagesVars

\* The console comes back, again and again, to where every control is usable,
\* whatever fails, arrives late or leaves the page; except a card that was told
\* of its removal: that one stays disabled until the page is left.
PendingResolves == []<>(pending \subseteq removed)

=============================================================================
