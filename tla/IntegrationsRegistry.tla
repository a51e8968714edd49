------------------------- MODULE IntegrationsRegistry -------------------------
(***************************************************************************)
(* The provider cache of IntegrationsRegistryService for one tenant and    *)
(* one provider key, and the `integration_configs` row it is filled from.  *)
(*                                                                         *)
(* The cache is process memory, the row belongs to Postgres: an admin      *)
(* request writes the row inside its transaction, drops the cached         *)
(* provider before the commit, and rebuilds one from its own uncommitted   *)
(* row to answer with.  Other requests (broadcast, listAll) fill the cache *)
(* from the committed row, with an await between reading the row and       *)
(* storing the provider.                                                   *)
(***************************************************************************)
CONSTANTS
    Requests,       \* requests of the tenant that can be in flight at once
    Credentials,    \* values an administrator may configure
    None,           \* no credentials: STUB_MODE
    NoProvider      \* nothing cached

ASSUME NoneIsNoCredential == None \notin Credentials
ASSUME NoProviderIsNone == NoProvider \notin Credentials \cup {None}

VARIABLES
    config,     \* the committed row, or NoConfig
    cache,      \* the cached provider, or NoProvider
    req,        \* the requests
    raced       \* history: since the cache was last dropped, a fill overlapped
                \* a change of the row, or a change rolled back

vars == <<config, cache, req, raced>>

Config == [cred : Credentials, status : {"ACTIVE", "BROKEN"}]

NoConfig == [cred |-> None, status |-> "ABSENT"]

MaybeConfig == Config \cup {NoConfig}

\* A provider is told apart by the credentials it was built with, for good.
Provider == Credentials \cup {None}

Readers == {"broadcast"}

Changes == {"configure", "setStatus", "remove"}

Request == [ pc     : {"idle", "write", "invalidate", "load", "store", "use", "commit"},
             op     : {"none"} \cup Readers \cup Changes,
             want   : MaybeConfig,                  \* what the body asks for
             wrote  : BOOLEAN,                      \* holds the row lock
             pend   : MaybeConfig,                  \* its uncommitted row
             loaded : Provider,
             prov   : Provider \cup {NoProvider} ]

Idle == [ pc |-> "idle", op |-> "none", want |-> NoConfig, wrote |-> FALSE,
          pend |-> NoConfig, loaded |-> None, prov |-> NoProvider ]

TypeOK ==
    /\ config \in MaybeConfig
    /\ cache \in Provider \cup {NoProvider}
    /\ req \in [Requests -> Request]
    /\ raced \in BOOLEAN

------------------------------------------------------------------------------
\* loadCredentials: only an ACTIVE row yields credentials.
Effective(row) == IF row.status = "ACTIVE" THEN row.cred ELSE None

\* A transaction sees its own write, the others see the committed row.
VisibleTo(r) == IF req[r].wrote THEN req[r].pend ELSE config

RowLocked == \E s \in Requests : req[s].wrote

Set(r, new) == req' = [req EXCEPT ![r] = new]

\* getProvider up to its await: a hit is used, a miss starts to load.
LookedUp(t, cached) ==
    IF cached # NoProvider THEN [t EXCEPT !.pc = "use", !.prov = cached]
                           ELSE [t EXCEPT !.pc = "load"]

\* r has dropped the provider of a row it has yet to commit.
Dropped(r) == req[r].wrote /\ req[r].pc # "invalidate"

------------------------------------------------------------------------------
\* A broadcast, or a GET /integrations, asks for the provider.
Ask(r) ==
    /\ req[r] = Idle
    /\ Set(r, LookedUp([Idle EXCEPT !.op = "broadcast"], cache))
    /\ UNCHANGED <<config, cache, raced>>

\* The row is read; the answer comes back at a later await point.
Load(r) ==
    /\ req[r].pc = "load"
    /\ Set(r, [req[r] EXCEPT !.pc = "store", !.loaded = Effective(VisibleTo(r))])
    /\ raced' = (raced \/ \E s \in Requests \ {r} : Dropped(s))
    /\ UNCHANGED <<config, cache>>

\* The rest of getProvider: build, and overwrite whatever the cache holds.
Store(r) ==
    /\ req[r].pc = "store"
    /\ cache' = req[r].loaded
    /\ Set(r, [req[r] EXCEPT !.pc = "use", !.prov = req[r].loaded])
    /\ UNCHANGED <<config, raced>>

\* A reader has notified or summarised with its provider and commits; an
\* administrator's request still has its row to commit.
Use(r) ==
    /\ req[r].pc = "use"
    /\ Set(r, IF req[r].op \in Changes THEN [req[r] EXCEPT !.pc = "commit"] ELSE Idle)
    /\ UNCHANGED <<config, cache, raced>>

------------------------------------------------------------------------------
\* POST .../config, PATCH .../config/status, DELETE .../config
AskConfigure(r, c) ==
    /\ req[r] = Idle
    /\ Set(r, [Idle EXCEPT !.pc = "write", !.op = "configure",
                           !.want = [cred |-> c, status |-> "ACTIVE"]])
    /\ UNCHANGED <<config, cache, raced>>

\* updateStatus first looks the row up: none, and the request is a 404.
AskSetStatus(r, s) ==
    /\ req[r] = Idle
    /\ config # NoConfig
    /\ Set(r, [Idle EXCEPT !.pc = "write", !.op = "setStatus",
                           !.want = [cred |-> config.cred, status |-> s]])
    /\ UNCHANGED <<config, cache, raced>>

AskRemove(r) ==
    /\ req[r] = Idle
    /\ Set(r, [Idle EXCEPT !.pc = "write", !.op = "remove"])
    /\ UNCHANGED <<config, cache, raced>>

\* What the statement leaves: updateStatus sets the status alone.
NewRow(t) == IF t.op = "setStatus" THEN [config EXCEPT !.status = t.want.status]
             ELSE t.want

\* Faulty variant: updateStatus upserts, and revives a row deleted meanwhile.
WriteRowUpserting(r) ==
    /\ req[r].pc = "write"
    /\ ~RowLocked
    /\ Set(r, [req[r] EXCEPT !.pc = "invalidate", !.wrote = TRUE,
                             !.pend = NewRow(req[r])])
    /\ UNCHANGED <<config, cache, raced>>

\* The upsert, update or deleteMany, under the row lock.  An update of a row
\* that has been deleted meanwhile fails (Abort).
WriteRow(r) ==
    /\ req[r].pc = "write"
    /\ ~RowLocked
    /\ req[r].op \in {"setStatus", "remove"} => config # NoConfig
    /\ Set(r, [req[r] EXCEPT !.pc = "invalidate", !.wrote = TRUE,
                             !.pend = NewRow(req[r])])
    /\ UNCHANGED <<config, cache, raced>>

\* deleteMany of no row locks nothing and waits for nobody.
RemoveNothing(r) ==
    /\ req[r].pc = "write" /\ req[r].op = "remove"
    /\ config = NoConfig
    /\ Set(r, [req[r] EXCEPT !.pc = "invalidate"])
    /\ UNCHANGED <<config, cache, raced>>

\* A fill has read the row and not yet stored its provider.
FillPending == \E s \in Requests : req[s].pc = "store"

\* What follows the drop: toSummary's getProvider, at once; remove answers
\* without a summary.
AfterDrop(t, cached) ==
    IF t.op = "remove" THEN [t EXCEPT !.pc = "commit"] ELSE LookedUp(t, cached)

\* Faulty variant: nothing is dropped, the summary is built from what is cached.
InvalidateForgotten(r) ==
    /\ req[r].pc = "invalidate"
    /\ Set(r, AfterDrop(req[r], cache))
    /\ raced' = FillPending
    /\ UNCHANGED <<config, cache>>

\* Faulty variant: only configure and remove drop the cached provider.
InvalidateNotOnStatus(r) ==
    /\ req[r].pc = "invalidate"
    /\ cache' = IF req[r].op = "setStatus" THEN cache ELSE NoProvider
    /\ Set(r, AfterDrop(req[r], cache'))
    /\ raced' = FillPending
    /\ UNCHANGED config

\* registry.invalidate, and toSummary's lookup, which misses.
Invalidate(r) ==
    /\ req[r].pc = "invalidate"
    /\ cache' = NoProvider
    /\ Set(r, AfterDrop(req[r], NoProvider))
    /\ raced' = FillPending
    /\ UNCHANGED config

Commit(r) ==
    /\ req[r].pc = "commit"
    /\ config' = IF req[r].wrote THEN req[r].pend ELSE config
    /\ Set(r, Idle)
    /\ UNCHANGED <<cache, raced>>

\* What a rollback leaves of a request: a handler that has read the row stores
\* its provider all the same, no await is in between.
Leftover(t) ==
    IF t.pc = "store"
    THEN [Idle EXCEPT !.pc = "store", !.op = "broadcast", !.loaded = t.loaded]
    ELSE Idle

\* Faulty variant: the lock of a rolled-back transaction is not released.
AbortHolding(r) ==
    /\ req[r].pc # "idle"
    /\ Set(r, [Leftover(req[r]) EXCEPT !.wrote = req[r].wrote])
    /\ raced' = (raced \/ Dropped(r))
    /\ UNCHANGED <<config, cache>>

\* Rollback (an error, or the 30 s limit): nothing of the row remains, the cache
\* stays as it is.
Abort(r) ==
    /\ req[r].pc # "idle"
    /\ Set(r, Leftover(req[r]))
    /\ raced' = (raced \/ Dropped(r))
    /\ UNCHANGED <<config, cache>>

\* The process restarts: the cache and every request are gone, the row stays.
Restart ==
    /\ cache' = NoProvider
    /\ req' = [r \in Requests |-> Idle]
    /\ raced' = FALSE
    /\ UNCHANGED config

------------------------------------------------------------------------------
Init ==
    /\ config = NoConfig
    /\ cache = NoProvider
    /\ req = [r \in Requests |-> Idle]
    /\ raced = FALSE

Progress(r) ==
    Load(r) \/ Store(r) \/ Use(r) \/ Invalidate(r) \/ Commit(r)

Next ==
    \/ \E r \in Requests :
        \/ Ask(r)
        \/ \E c \in Credentials : AskConfigure(r, c)
        \/ \E s \in {"ACTIVE", "BROKEN"} : AskSetStatus(r, s)
        \/ AskRemove(r)
        \/ Progress(r) \/ WriteRow(r) \/ RemoveNothing(r) \/ Abort(r)
    \/ Restart

\* The statement of a change: it writes, finds nothing to delete, or fails for
\* want of the row.
Statement(r) ==
    \/ WriteRow(r)
    \/ RemoveNothing(r)
    \/ Abort(r) /\ req[r].pc = "write" /\ config = NoConfig

\* Handlers run on; Postgres queues the waiters of the row lock.
Fairness ==
    \A r \in Requests :
        /\ WF_vars(Progress(r))
        /\ SF_vars(Statement(r))

Spec == Init /\ [][Next]_vars

FairSpec == Spec /\ Fairness

------------------------------------------------------------------------------
(* Properties. *)

\* The cache agrees with the committed row.
Fresh == cache # NoProvider => cache = Effective(config)

\* invalidate's promise, as far as it goes: the cached provider holds the
\* credentials of the committed row, except while a change has dropped it and not
\* committed, and unless, since the last drop, a fill overlapped a change of the
\* row or a change rolled back.
FreshUnlessRaced == ~raced /\ (\A r \in Requests : ~Dropped(r)) => Fresh

\* The answer of configure and updateStatus speaks of the row the request wrote,
\* whatever other requests store in the cache meanwhile.
SummaryIsOwn ==
    \A r \in Requests :
        req[r].op \in Changes /\ req[r].pc = "use" =>
            req[r].prov = Effective(req[r].pend)

\* Every request ends, also those that wait for the row.
RequestsFinish == \A r \in Requests : req[r].pc # "idle" ~> req[r].pc = "idle"

\* invalidate: "Drop a cached provider (e.g. after its IntegrationConfig changes)
\* so the next call re-reads it": when nothing is under way, the cache is fresh.
InvalidateWorks == (\A r \in Requests : req[r].pc = "idle") => Fresh

==============================================================================
