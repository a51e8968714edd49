# A TLA+ model of the decision intelligence platform

The platform (`src/`) is a multi-tenant incident-response product: a NestJS API
over PostgreSQL (`apps/api`), a Next.js web client (`apps/web`) and shared types
(`packages/shared`).  Its promise is "the AI decides nothing alone": analyses are
drafted and scored by machine, decisions are made by named humans, and a timeline
records what happened.

This directory models the parts of the API and of the web console in which that
promise can break: requests that overlap, transactions that roll back, external calls
that fail late, answers that arrive out of order.  TLC checks the models on small instances; TLAPS proves most of the safety
properties for all of them.

    tlc -config MCIncidentRoom.cfg MCIncidentRoom        # one run
    tlapm IncidentRoomProofs.tla                         # one set of proofs

## 1. The system

| component (under `apps/api/src` unless said) | state | operations that change it | what makes it correct |
|---|---|---|---|
| lifecycle maps `common/state-machine`, `*.state-machine.ts` | none | `assertValidTransition` | only listed moves, repeats rejected |
| incidents, decisions, actions | rows `incidents`, `decisions`, `actions`; shared `timeline_events` | create, open, updateStatus, decide, cancel | a decided row names a member and is final; time columns agree with the status; the timeline explains every row |
| tenants `tenants` | `memberships`, `tenants` | addMember, removeMember, update | the owner stays; named people were members |
| tenant transactions `prisma/tenant-rls.context.ts`, `common/interceptors` | one open transaction per request | begin, commit, rollback, 30 s timeout | all of a handler or nothing of it; no request waits for ever |
| circuit breaker, retry `common/resilience` | state, failure count, openedAt | execute, onSuccess, onFailure | opens exactly on a streak, ends its cooldown |
| resilient provider, broadcast `integrations` | last success; blocked events | notify..., broadcast | blocked events have a cause; a call never hangs its request |
| integrations registry and configuration `integrations` | provider cache (memory), `integration_configs` (database) | getProvider, invalidate, configure, updateStatus, remove | the cache follows the committed row |
| evidence, webhooks | `evidence` | create, receive | belongs to its incident |
| decision intelligence engine, scoring, AI drafts | `intelligence_analyses` | analyze, generateDraft, streamDraft | scores in 0..100 and reproducible |
| outcomes, calibration, lessons, reports, briefs | one table each | record, create, generate | only after the end; one outcome per decision; snapshots agree with themselves |
| knowledge graph, audit log `entities`, `relationships`, `audit-log` | entities, edges with citations, audit entries | create, confirm, reject, searches | the log explains the status of every edge; a settled edge stays settled; every look-up leaves an entry |
| sessions `auth` | users, refresh tokens | register, login, selectTenant, refresh, logout | a refresh token is used once |
| simulation | none of its own | two scripts over the other services | |
| web client `apps/web` | page state, tokens in the browser | polling, stream parsing, SLA countdown | what is shown is the newest answer for the selected incident |

How they interact.  `TenantRlsInterceptor` wraps every authenticated handler in one
interactive transaction (READ COMMITTED) and every `this.prisma` call of the handler
is routed into it by the proxy of `tenant-aware-prisma.factory.ts`.  Creating an
incident and deciding a decision call `IntegrationsRegistryService.broadcast` inside
that transaction; broadcast looks its providers up in the cache, filling it from the
configuration, and calls each through its circuit breaker.  Administrators change the
configuration through `IntegrationConfigService`, which drops the cached provider.

What is hard: two handlers on one row (read, check, write are three statements); the
row lock and the 30 s limit; a rollback that undoes rows but neither broadcasts nor
process memory; calls that settle after the circuit changed; a cache that is filled
across an await; logins and refreshes, which run in no transaction at all; a page that
polls while its user selects something else.  `PROJECT.json` lists each hazard at its line.

## 2. The modules

`StateMachines` holds the kinds of rows and the three maps as sets of pairs.

| module | role |
|---|---|
| `StateMachines` | rows, maps, statuses |
| `RoomPromise` | abstract: rows are inserted once and move legally from some status they have had |
| `IncidentRoom` | the handlers, transactions and locks behind it; implements `RoomPromise` |
| `Retrospective` | the handlers that only read the room: analyses, outcomes, lessons, reports; its room is `RoomPromise` |
| `IntegrationsRegistry` | provider cache and configuration |
| `CircuitBreaker` | one provider's calls |
| `Sessions` | accounts, memberships, access and refresh tokens |
| `Scoring` | the four scores of an analysis and their tables |
| `IntelligencePromise` | abstract: incidents, evidence, analyses and scenarios appear in one step each |
| `Intelligence` | evidence, webhooks, analyses, the simulated scenarios, as open transactions; implements `IntelligencePromise` |
| `AuditedGraph` | abstract: each change and each answer is one step with one audit record |
| `KnowledgeGraph` | entities, relationships and the audit log, as open transactions; implements `AuditedGraph` |
| `CommandCenter` | the console's home page: polling, tabs, the panels and forms of the Reports tab |
| `DraftForm` | the analysis form and the AI draft it streams |
| `ConsolePages` | sign-in, integrations, search and simulation pages |

`IncidentRoom` (incidents, decisions, actions, memberships, transactions of one tenant).
A request is a transaction record `tx[r]` with a program counter:

| step | code | what is read or written |
|---|---|---|
| `CreateIncident`, `OpenDecision`, `CreateAction`, `UpdateStatus`, `Decide`, `Cancel` | the handler up to its first validated read | `seen` = the committed row; the transition is checked on it |
| `CheckMember` | the membership lookup of `decide`, and of `create` of an action with an assignee | fails = the handler throws = rollback |
| `Write` | the `create`/`update` and the `timelineEvent.create` after it | waits while another open transaction has written the row; computes the new row over the CURRENT one, the time column from `seen` |
| `Announce` | `integrations.broadcast` | `notified`, never rolled back |
| `Commit`, `Abort` | the end of `$transaction` | row and event appear together, or not at all |

The update's own lock is what `Locked` says; the reads take none.  A handler that
throws at its first read changes nothing and has no action.  A rollback can come
between any two steps (failed statement, timeout, lost process).
`AddMember`/`RemoveMember` are single steps: their only shared effect is one row.
Columns are reduced to the status, the parent, the person named and whether the time
column is set.  The `from` of an event is what the handler read: status changes store
it in `metadata.from`, for `decide` and `cancel` it can only be OPEN.

`RoomPromise` is what other services may assume of the room.  It is weaker than the
lifecycle maps: a change was validated against a row read earlier, so it starts at a
status the row has HAD.  `IncidentRoom` maps `status` to the committed column and
`reached` to the statuses its timeline tells (`Told`).

`Retrospective` has one step per statement of the handlers of outcomes (`AskOutcome`,
`ReadIncident`, `FindExisting`, `FindAnalysis`, `InsertOutcome`), lessons, analyses and
reports (`AskReport`, `ReadTimeline`), with `Commit` and `Abort` as above.  It instantiates
`RoomPromise`, so its rooms do whatever overlapping room requests can do, and adds what
these handlers read besides: `decidedAt`.  An analysis carries `at` (createdAt, set at
the insert) and `seen` (when its transaction committed, history): between the two it is
stamped but invisible.  A unique index makes an insert wait for an uncommitted duplicate
and fail on a committed one.  A report's timeline is reduced to the statuses it tells.

`CircuitBreaker` (one provider under concurrent broadcasts).  JavaScript runs from
await to await, so `Execute` (read `stateBefore`, admit or fail fast), each
`AttemptSucceeds`/`AttemptFails` (with `onSuccess`/`onFailure` when the call is over)
and `Report` (read `stateAfter`, record INTEGRATION_BLOCKED) are one action each.  HALF_OPEN
is computed by `GetState`, as in the code; `age` is `now() - openedAt` up to the
cooldown.  `trips`, `recent` and `tripped` are history, read by properties only.
`execute` reads the clock in the same synchronous stretch as `stateBefore`; the model
reads it once.

`IntegrationsRegistry` (cache and configuration row of one tenant and provider).
`Ask`/`Load`/`Store`/`Use` are `getProvider` cut at its await; a change is
`Ask...`, `WriteRow` (under the row lock), `Invalidate`, its own look-up (which sees its
uncommitted row) and `Commit`.  `Leftover` is what a rolled-back handler still does: one
that already has its row stores the provider, no await is in between.  A provider is
identified by its credentials; credentials that do not decrypt are the same as none.
`Restart` empties the process.

`Sessions` (one action per database call of `/auth`: these routes run outside the
interceptor's transaction, each call commits by itself).  `Refresh` reads the row by its
hash, `Revoke` stamps it by its id, `ReadMembership` reads the role, `Issue` signs the
access token and stores the new row; `Login`, `SelectTenant` and `Register` join at
`Issue`.  `Fail` ends a request between any two of them: a failed call or a crash, which
leaves what is committed.  An access token is a copy of the role that was read, and is
dropped at its expiry; a refresh token keeps the login it descends from (`family`).
`lastHeld` and `forks` are history.

`Intelligence` (incidents, evidence and analyses of one tenant).  A job is one open
transaction with the statements of its handler in `Program`; its rows stay in the job
until `Commit`.  `TakeClock` and `ReadEvidence` are the first two things `analyze` does,
`CreateAnalysis` validates the contract and stores the scores, as of the first clock and
stamped by the second.  The scores are the operators of `Scoring`: integers, with
freshness in tenths of a point per minute and `Round` for `Math.round`; the sum behind a mean goes
by the source categories, not by the rows.  `Listed` is the breakdown `list` recomputes.  A scenario is one job over the same statements; `FailAnalysis` is the
database error it catches, which leaves its transaction aborted.  `by`, what created an
incident, is history.

`IntelligencePromise` has no transactions.  A row appears whole and for good, stamped at most
`Timeout` ago; a scenario's rows appear together; an analysis uses evidence of its own
incident, scores it as of a time `asOf` at most one transaction before its `createdAt`, and
overlooks none that was stamped more than a transaction before `asOf` (what is younger may
have been uncommitted when the evidence was read).

`KnowledgeGraph` (one tenant's graph).  A visit is one request: `Open`, then `List`,
`LookUp`, `Create` or `Review`/`Judge` (read and check, then update by id behind the row
lock), `Record` (the awaited audit entry) and `Deliver` (commit, then the answer, which
may be lost).  `shown` is what analysts received; `opened` is history.

`AuditedGraph` is what the audit log promises: creating, reviewing and looking up are one
step that changes the graph, appends one record naming who did what to which row, and
perhaps answers; a relationship joins entities that exist, its ends never change, and a
search answers at most what exists.

`CommandCenter` (`page.tsx` and `ReportsPanel` with the panels under it).  A poll is one
`Promise.all`: `Refresh` sends it, `ServePoll`/`LosePoll` answer it at the API's state of
that moment, `Apply`/`PollFails` are its continuation, which looks at `cancelled` and at
the selected incident of its own closure.  `Show` is the effect on the selection, `Render`
what React does with the panels: a panel that is no longer rendered loses its state and
the answers under way.  `ServeAsk`/`ShowAsk` are a panel's GETs, `Submit`, `ServePost` and
`Created` a form's POST.  `SomeoneAdds`/`SomeoneUpdatesStatus` are other users of the API,
whose status changes are written by id: an incident closes, or a change that was read
before it closed is written over CLOSED.  Of a status only that is kept (`Stages`).
`TokenChanges` is expiry or another tab.

`DraftForm`: the API's `streamDraft` (`StreamChunk`, `StreamEnds`), a connection that can
be cut anywhere (`Disconnect`), `streamSse`'s loop (`Read` a piece of any length, `Yield`
one event per empty line, `StreamDone`) and the form (`GenerateDraft`, `Edit`,
`SubmitForm`, `Submitted`).  An event is one token and a newline another, so a piece may
end between the two newlines of a boundary.

`ConsolePages`: a control is clicked (`Click`), its request served or failed (`Serve`) and
its handler resumed (`Fails`, `SignsIn`, `Triggered`, `Arrives`), also when its page is
gone (`Mount`).  A page looks for a token when it mounts (`usable`) and each request takes
the one stored when it is sent, which another tab may have changed or removed.  A card
shows a `Summary`: the status of the row, and whether the provider has credentials, by
which `Offers` decides; they disagree for a BROKEN row, for credentials that do not
decrypt, and while the provider's cache lags (`Summaries`).  `removed` is history.

The services of `MCServices` share no row, and the parts of `MCConsole` no state; each
composition drives one part per behaviour, chosen at the start, so that no product of
unrelated states is explored.

`MC*` modules only give the constants their values for TLC.  Definitions introduced by
"Faulty variant" are deliberate mistakes in one definition of the code; replacing the
definition by one of them makes the named property fail, which shows that the property
depends on the code and not on the shape of the model.

## 3. What is checked

| run | question | result |
|---|---|---|
| `room` | two requests, one row of each kind, members coming and going | holds |
| `room_serial` | one request at a time, two decisions, a longer timeline | holds |
| `room_terminal` | is a decided decision final when requests overlap? | violated |
| `retrospective` | two requests writing about a room that moves on | holds |
| `report_snapshot` | is a report a point-in-time snapshot? | violated |
| `breaker` | three calls at one provider, threshold 2, cooldown 2, two attempts | holds |
| `breaker_probe` | is exactly one probe admitted after the cooldown? | violated |
| `breaker_blocked` | is INTEGRATION_BLOCKED written once per opening? | violated |
| `registry` | three requests reading and changing one configuration | holds |
| `registry_stale` | is the cache fresh whenever nothing is under way? | violated |
| `services` | two overlapping requests of one service: sessions, intelligence or graph | holds |
| `console` | one user, two incidents, two tenants, overlapping requests and other people | holds |

Properties of the room.  `DecidedNamesStakeholder` (Principle 1), `StampedExactlyAtEnd`
(`closedAt`/`completedAt` agree with the status although the code copies them from a
stale read), `LastEventExplainsRow` and `EventsBuildOnHistory` (the timeline explains the
rows and skips nothing, even when requests overwrite each other), `VisibleWasAnnounced`
(committed implies broadcast), `StakeholderNeverCleared`, `RequestsFinish`, and `KeepsPromise`: the
room implements `RoomPromise`.
`DecisionIsTerminal` and `IncidentIsLinear` hold for one request at a time (`room_serial`)
and only then: `room_terminal` shows a decide, or a cancel, that read OPEN before another
decide committed, waits for its lock and then overwrites it.

Properties of the retrospective rows.  `RetrospectAfterTheEnd`: an outcome or lesson is
about an incident that has gone through its whole lifecycle (although its status may have
been thrown back since it was read).  `OutcomeOncePerDecision`: two requests that both
find no outcome cannot both commit one.  `InformedByTheNewest`: the linked analysis is
stamped before a time the decision was made, and nothing visible before that time is
newer.  `ReportExplainsItsStatus`: a report's status is in its own timeline.  The
converse fails (`report_snapshot`): decision and timeline are two statements, and a
decision committed in between shows in the second only.

Properties of the breaker.  `OpenIffStreak`: OPEN exactly when the last
`FailureThreshold` calls to settle all failed.  `BlockedAfterTrip`: a recorded block has a
real transition during its call.  `CooldownEnds`, `CallsReturn`.  The code does not keep
two stated promises: a single probe (`circuit-breaker.ts:27`) and one event per
transition (ADR-0012).

Properties of the registry.  `FreshUnlessRaced`: the cached provider holds the committed
credentials, except in windows the definition names: a change between its drop and its
commit, and, until the next drop, after a fill that overlapped a change or a change that
rolled back.  `SummaryIsOwn`: the answer to a change describes the row it wrote.
`InvalidateWorks`, the promise without those exceptions, fails.

Properties of the services.  `RoleStaleBounded`: an access token outlives the loss of its
role by at most its own lifetime and one request.  `RotationConserves`: refreshing keeps
one login one session, except that every refresh which reads a token another is about to
revoke adds one (`refresh` revokes by id and checks nothing, so both succeed;
`docs/api/README.md:13` reads as if only one could).  `ScoresStand`: stored scores are
percentages, and a breakdown listed at any later time shows the same numbers, up to the
freshness lost during one request.  `ScenarioWhole`: a simulated scenario leaves all its
rows or none, also when it catches the database error of its analysis.  `ScoresMeetContract`:
the scores `analyze` computes are percentages, as its own contract demands, unless a row
it read was stamped after its clock; freshness then exceeds 100 and the request is refused
(400).  In a scenario that cannot happen.  `KeepsIntelligence`: the whole implements
`IntelligencePromise`.
`SettledStaysSettled`: a confirmed or rejected relationship is final, except for a review
that had begun before it was settled.  `EveryAccessAudited`: everything an analyst was
shown has a record of its own.  `AuditExplainsStatus`: the last record about a relationship is the
one that gave it its status.  `ActsAudited`: the graph implements `AuditedGraph`.

Properties of the console.  `ScreenOfSelected`: what is shown belongs to the selected
incident, except the analyses, where `onCreated` prepends whatever comes.
`FormsWait`: a form is disabled exactly as long as one POST of its own is awaited, and that
one is about the selected incident, whatever is left, reopened or selected meanwhile; a
closed-only one is of an incident that has been CLOSED, though it need not be so any more.
`Converges`: an incident that stays selected with a good
token is finally shown as it is.  `AiLabelled`: model text never stands without its
notice.  `EventsInOrder`: stream events arrive whole and in order however the network cuts
them.  `DraftEndsKnown`: a stream that stops early ends with an error message.
`AnswersInOrder`: an older answer never replaces a newer one.  `PendingResolves`: the
console returns, again and again, to where all controls are usable; excepted is only a
card whose removal this page was told of, which `IntegrationCard.remove` leaves disabled
until the page is left.  A card that failed to be configured or changed is not excepted.

**Bounds.**  `MaxEvents` bounds the timeline (5 with two requests: create, open, decide
and two racing writes; 9 with one).  One row of each kind suffices for the races on a
row: requests on different rows share only the order of the timeline.  Two requests
suffice for a lost update; a third would only queue behind the same lock.
`MaxTime` (2) orders a stamp, a decision and a
commit before or after each other; one report at a time is enough, as reports do not meet.
`MaxFailures` and `MaxTrips` bound two counters; 6 and 5 let the circuit open, half open,
reopen and close with all three calls under way.  Each bound is tested together
with the calls in flight, so a started request is never stopped by it.  The breaker run
does not check deadlock: nobody has to call, and at the bounds nothing may be left to do.
The room stops only at `MaxEvents`, where members still come and go.  The
retrospective runs check safety only and may stop: nobody has to ask.

In `services`: two requests race for one token, evidence, edge or role; a third would
repeat what the second does.  Two time steps take a token past its lifetime (1) and one
request (1), two rows allow one rotation and one fork (`MaxForks`).  A clock of 60 s in
steps of 30 s, with a timeout of 30 s, lets evidence be written between the clock, the
read and the stamp of an analysis, evidence be too old to be overlooked, and an analysis lose freshness on the way (5 points per
minute when CRITICAL).  Four audit records (`MaxLog`) create a node and an edge and settle
it twice.  Requests, tenants, jobs, evidence and visits are interchangeable (symmetry; no
liveness in that run).  In `console`: two incidents, one CLOSED; two polls overtake each
other; one change by others, which adds a row, closes the open incident or
overwrites the closed one, one POST (`ButtonsWait` is about any number) and one row per list; a summary and a list as what a
poll reads, the decisions and the list that depends on them as panels; two chunks and a
result put boundaries inside, between and at the end of pieces; two clicks let one
request overtake another.  Neither run checks deadlock: users may stop.

**Fairness.**  A handler that can go on does (WF); a write waiting for a row lock gets it
if it can again and again (SF): PostgreSQL queues the waiters.  The network answers each
attempt one way or the other, timers fire, the clock ticks (WF).  No fairness on new
requests, new calls, aborts, restarts or member changes.  In the console the interval
goes on and promises settle (WF on `Refresh`, on the continuations and on posts, WF per
request on the other pages), and of the polls sent again and again some are answered (SF:
with WF a poll could always be lost, or cancelled, before its answer).  Nothing is assumed of users, tokens or
other tabs.  The services' properties need no fairness.

## 4. What is proved

For all values of the constants (under the named ASSUMEs: the kinds of rows, and of
ids, are disjoint, the owner is a user, NULL is no row, every decision has an incident, the
bounds are naturals, users send values of the enums, the breaker's options and the lifetimes of tokens are positive, there are
finitely many requests, rows of the graph and ids of evidence, no integration is named like another control):

- `IncidentRoomProofs`: `TypeCorrect`, `Principle1`, `ClosedAtAgrees`, `AnnouncedFirst`,
  `StakeholderKept`, `TimelineExplains`, `HistoryIsGapless`, `ImplementsPromise`
  (the refinement of `RoomPromise`), and, when there is at most
  one request, `SerialDecisionsStay` and `SerialIncidentsAdvance`.
- `RetrospectiveProofs`: `TypeCorrect`, `AfterTheEnd`, `OneOutcome`, `Informed`,
  `ReportsExplain`.
- `CircuitBreakerProofs`: `TypeCorrect`, `OpensOnStreak`, `BlockedMeansTripped`.
- `IntegrationsRegistryProofs`: `TypeCorrect`, `CacheIsFresh`, `SummaryDescribesOwnRow`.
- `SessionsProofs`: `SessionTypes`, `StaleRoleIsBounded`, `Rotation`.
- `KnowledgeGraphProofs`: `GraphTypes`, `LogExplainsEdges`, `SettledEdges`,
  `AccessAudited`, `ImplementsAudited` (the refinement of `AuditedGraph`).
- `ConsoleProofs`: `ConsoleTypes`, `SelectedOnScreen`, `ButtonsWait`, `DraftsLabelled`,
  `Delivery`, `DraftsComplete`, `PagesTypes`, `NewestAnswerStays`.
- `IntelligenceProofs`: `IntelTypes`, `ScoresStandAgain`, `ScenariosWhole`, `ContractMet`
  (the scores are percentages for any evidence no later than the clock), `ContractHolds`,
  `ImplementsIntelligence` (the refinement of `IntelligencePromise`).

Type correctness is checked by TLC where it says something the other properties do not
(`registry`, where an update must not revive a deleted row) and proved everywhere.

The arguments.  *Room*: none of the properties is inductive: a transaction in flight may
be about to break it.  The invariant says of every open transaction what its copies are
worth: `seen` was a legal start of the move and its status has been reached in the
timeline; its operation fits the kind of its row; once past the membership check the
person named has been a member; once past the announcement the notice is out; the pending
row is what `Written` says of the current row, which nobody else can change because the
row is locked by exactly one transaction.  The time columns follow because only the last
move of a map stamps and no move leaves its end: a stale `seen` is never stamped.
The refinement
uses the same facts: only a commit changes what is seen from outside, a create finds its
row absent (nobody else can name a row being inserted) and every other commit starts at a
status its request found in the history.  *Retrospective*: the invariant keeps, of what a
handler has read, only what cannot change any more: statuses a row has had, times it was
decided, analyses visible before a past time.  An incident has had every status before
those it has had, so having been CLOSED stands for the whole lifecycle; an analysis that
appears now is not visible before any time of a decision; of two requests at the index
only one is past the insert.  *Breaker*: the counter is the length of the failing suffix of `recent`, and `state` is OPEN
exactly when it reaches the threshold; for the blocked events, a call that began when
the circuit was not OPEN and finds it OPEN has seen a transition unless it is `tripped`.
*Registry*: whoever is between load and store read the committed row, or its own, unless
a race is on record; only the holder of the row lock has a pending row.

*Sessions*: a role that is held was last held now; the role a request will sign was held
since the request began, and no request is older than `MaxRequest`; hence what a token
says was true at most `AccessTTL + MaxRequest` ago.  For rotation, each step trades, within
one login, a live token for a request or a request for a token, or is counted as a fork.
*Graph*: a request holds the row its action calls for, an id is given by one open request,
a review past its check found the edge unsettled when it began; the record and the row
become visible in the same commit.  For the refinement, what a request
read or counted still stands when it commits: rows are only added, and edges keep their
ends (`Stands`); `SameCount` says that counting means the same in both modules.  *Console*: every poll that counts, every GET of a mounted panel and
every POST of a mounted form is of the selected incident; what has been CLOSED stays one
that has been, whatever is written over it, so what the list once said still tells that.
Each busy form waits for exactly one POST (`Waits`): sending adds both, hearing the answer
takes both away, and a form that unmounts drops its flag and stops listening at once.  For the stream, the tokens in the buffer and on the wire
are those written from place `3 * Len(delivered)` on (`WireInv`); an empty line can therefore
only be the end of the next event, and a `result` only the last.  On the other pages a mounted page waits
for at most one request per control, newer than the answer shown: the button stays
disabled until then, and a page that mounts waits for nothing older (`AwaitedInv`).
*Scoring*: the invariant says of every open transaction
what the statements it has done left (`Did`): the rows it holds are new and nobody else's,
what it read is committed or its own, its clock lies between its beginning and now, and
its result is the breakdown of what it read.  A committed row of evidence never changes,
so `list` finds what `analyze` scored, and only the freshness depends on the clock, which
the timeout bounds.  A transaction that caught a database error is exempt from `Did`, and
does not commit.  That a set of times has a latest rests on well-foundedness (`LatestExists`),
that rounding adds at most the decay rounded up on linear arithmetic (`RoundedLoss`).
The bounds of the scores follow from counting: there are no more required sources covered
than required, rows counted by category are all rows (`CountByCategory`, one category at a
time), so a mean lies between the least and the greatest weight also when rounded
(`RoundWithin`), and only freshness needs to know that no row is later than the clock.  The
refinement needs a second invariant (`SInv`): everything a transaction stamps lies between its
start and now, hence at most `Timeout` ago; what it read is evidence of its own incident,
in a scenario only its own, since no evidence exists of an incident that does not
(`Attached`); and evidence committed later was stamped by a transaction still alive, so it is
not old enough to have been overlooked.  A commit is then one step of the promise, by the
kind of its job, and every other step a stutter or a tick.

Not proved, only checked by TLC: the liveness properties (`RequestsFinish`,
`CallsReturn`, `CooldownEnds`, `Converges`, `PendingResolves`), as fairness and ENABLED are
out of the prover's reach.

## 5. What is not modelled

*Tenants and processes.*  One tenant in the services behind the interceptor: row-level
security separates tenants in the database and no handler crosses it.  One API process: the
provider cache is per process, and with several processes `invalidate` reaches only its
own.  A handler whose transaction timed out may still run its broadcast to the end; the
model stops it, so `notified` may miss a broadcast of something that never became visible,
which no property counts.  Two providers built at once for one key count failures
separately; the breaker module has one provider.  PostgreSQL answers the COMMIT of an
aborted transaction by rolling back without an error, so a scenario whose analysis failed
may answer 201 with nothing stored: the model has the rollback, not the answer.

*Parts.*  Credential encryption (a failure to decrypt counts as no credentials), the
network simulator (any attempt may fail), the webhook guard's own transaction and signature
check, the arithmetic of calibration (a pure aggregation of stored rows) and the executive
brief (the shape of the decision report over more tables, with the same hazard), prompts
and the model's text, distances, logging, health and bootstrap.  `createdAt` is the time of the statement.  In the
console: layout, wording, the SLA badge; the `decision-log` tab counts as
`command-center`, with which it shares its data.

A relationship is confirmed only with at least one citation
(`relationships.service.ts:72-79`); the graph keeps no citations, so `Review` lets any be
confirmed, and no property says that a confirmed edge has evidence.  A page of the console
also looks for its token whenever it renders again, and then offers only to sign in: the
model keeps its controls, whose requests are then refused.

*Seen in the code while modelling, and covered by no run.*
- `IntegrationCard.tsx:80-90`: `remove` resets its pending flag only on failure.
- `IntelligenceAnalysisForm.tsx:172-182`: `impactLevel` is not reset after a submission;
  `:101-103` describes a fallback to the endpoint without streaming that the code lacks.
- `page.tsx:288`: `onCreated` may prepend the analysis of the incident left behind, until the next poll.
- `LessonsLearnedPanel.tsx:53`: the list read at mount can replace a row prepended meanwhile.
- The handlers of sign-in and of the scenarios push a route after their page was left.
- A 401 on a page that is ready shows nothing: the old data stays.
- `types.ts`: `AuditAction` lacks `VIEW_MAP`, which the schema has.
- `decision-intelligence-engine.service.ts:143-146` says a recomputed breakdown is always
  the exact same number; it differs by the decay between the clock of `analyze` and
  `createdAt`, which `ScoresStand` bounds.
