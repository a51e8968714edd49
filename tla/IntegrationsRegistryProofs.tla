---------------------- MODULE IntegrationsRegistryProofs ----------------------
(***************************************************************************)
(* Theorems about IntegrationsRegistry for any number of requests and      *)
(* credentials.  The cache can be trusted as long as no fill straddles the *)
(* drop or the commit of a change and no change rolls back after its drop. *)
(***************************************************************************)
EXTENDS IntegrationsRegistry, TLAPS

\* The row lock has one holder.
Exclusive == \A r, s \in Requests : req[r].wrote /\ req[s].wrote => r = s

\* A change that has written holds what it looked up from its own row; one that
\* is past its statement has written, unless there was nothing to remove.
ChangeInv ==
    \A r \in Requests :
        /\ req[r].wrote =>
              /\ req[r].op \in Changes
              /\ req[r].pc \notin {"idle", "write"}
              /\ req[r].pc = "store" => req[r].loaded = Effective(req[r].pend)
              /\ req[r].pc = "use" => req[r].prov = Effective(req[r].pend)
        /\ req[r].op \in Changes /\ req[r].pc \notin {"idle", "write"} =>
              \/ req[r].wrote
              \/ req[r].op = "remove" /\ req[r].pc \in {"invalidate", "commit"}
        /\ req[r].pc \in {"write", "commit"} => req[r].op \in Changes
        /\ req[r].op = "setStatus" => req[r].want \in Config

\* While a change has dropped the provider and not committed, the cache can hold
\* its row only, and no other fill is about to store; otherwise the cache, and
\* whatever is about to be stored, agrees with the committed row.
CleanInv ==
    ~raced =>
        /\ \A r \in Requests : Dropped(r) =>
              /\ cache \in {NoProvider, Effective(req[r].pend)}
              /\ \A s \in Requests \ {r} : req[s].pc # "store"
        /\ (\A r \in Requests : ~Dropped(r)) =>
              /\ Fresh
              /\ \A s \in Requests : req[s].pc = "store" => req[s].loaded = Effective(config)

IInv == TypeOK /\ Exclusive /\ ChangeInv /\ CleanInv

------------------------------------------------------------------------------
\* Only an ACTIVE row has credentials to use, and a row has a provider.
LEMMA EffectiveIsProvider ==
    ASSUME NEW row \in MaybeConfig PROVE Effective(row) \in Provider
  BY DEF Effective, MaybeConfig, Config, NoConfig, Provider

LEMMA InitIInv == Init => IInv
<1> SUFFICES ASSUME Init PROVE IInv
  OBVIOUS
<1>1. Idle \in Request
  BY DEF Idle, Request, MaybeConfig, Provider
<1>2. TypeOK
  BY <1>1 DEF Init, TypeOK, MaybeConfig
<1>3. \A r \in Requests : req[r].pc = "idle" /\ req[r].wrote = FALSE /\ req[r].op = "none"
  BY DEF Init, Idle
<1>4. Exclusive /\ ChangeInv
  BY <1>3 DEF Exclusive, ChangeInv, Changes
<1>5. CleanInv
  BY <1>3 DEF Init, CleanInv, Dropped, Fresh
<1> QED
  BY <1>2, <1>4, <1>5 DEF IInv

\* What an action leaves of the requests when it replaces one of them.
LEMMA SetFacts ==
    ASSUME IInv, NEW r \in Requests, NEW new \in Request, Set(r, new)
    PROVE  /\ req' \in [Requests -> Request]
           /\ req'[r] = new
           /\ \A s \in Requests \ {r} : req'[s] = req[s]
  BY DEF IInv, TypeOK, Set

\* A new request has written nothing and stores nothing yet.
LEMMA AskStep ==
    ASSUME IInv, NEW r \in Requests, NEW new \in Request, Set(r, new),
           req[r] = Idle, new.pc \in {"write", "load", "use"}, ~new.wrote,
           new.op \in Changes <=> new.pc = "write",
           new.op = "setStatus" => new.want \in Config,
           UNCHANGED <<config, cache, raced>>
    PROVE  IInv'
<1>1. /\ req' \in [Requests -> Request] /\ req'[r] = new
      /\ \A s \in Requests \ {r} : req'[s] = req[s]
  BY SetFacts
<1>2. ~Dropped(r) /\ ~Dropped(r)' /\ req'[r].pc # "store"
  BY <1>1 DEF Dropped, Idle
<1>3. TypeOK' /\ Exclusive' /\ ChangeInv'
  BY <1>1 DEF IInv, TypeOK, Exclusive, ChangeInv
<1>4. CleanInv'
  BY <1>1, <1>2 DEF IInv, CleanInv, Fresh, Dropped
<1> QED
  BY <1>3, <1>4 DEF IInv

\* The fill of a request reads its own row, or the committed one.
LEMMA LoadStep ==
    ASSUME IInv, NEW r \in Requests, Load(r)
    PROVE  IInv'
<1> DEFINE new == [req[r] EXCEPT !.pc = "store", !.loaded = Effective(VisibleTo(r))]
<1>1. req[r] \in Request /\ req[r].pc = "load" /\ config \in MaybeConfig
  BY DEF Load, IInv, TypeOK
<1>2. Effective(VisibleTo(r)) \in Provider
  <2>1. VisibleTo(r) \in MaybeConfig
    BY <1>1 DEF VisibleTo, Request
  <2> QED
    BY <2>1, EffectiveIsProvider
<1>3. new \in Request
  BY <1>1, <1>2 DEF Request
<1>4. /\ req' \in [Requests -> Request] /\ req'[r] = new
      /\ \A s \in Requests \ {r} : req'[s] = req[s]
      /\ UNCHANGED <<config, cache>>
      /\ raced' = (raced \/ \E s \in Requests \ {r} : Dropped(s))
  BY <1>3, SetFacts DEF Load
<1>5. /\ new.pc = "store" /\ new.loaded = Effective(VisibleTo(r))
      /\ new.op = req[r].op /\ new.wrote = req[r].wrote /\ new.pend = req[r].pend
      /\ new.want = req[r].want
  BY <1>1 DEF Request
<1> HIDE DEF new
<1>6. TypeOK'
  BY <1>4 DEF IInv, TypeOK
<1>7. Exclusive' /\ ChangeInv'
  BY <1>1, <1>4, <1>5 DEF IInv, Exclusive, ChangeInv, VisibleTo
<1>8. CleanInv'
  <2> SUFFICES ASSUME ~raced' PROVE CleanInv'
    BY DEF CleanInv
  <2>1. ~raced /\ \A s \in Requests \ {r} : ~Dropped(s)
    BY <1>4
  <2>2. \A s \in Requests : Dropped(s)' <=> Dropped(s)
    BY <1>1, <1>4, <1>5 DEF Dropped
  <2>3. CASE Dropped(r)
    BY <1>4, <1>5, <2>1, <2>2, <2>3 DEF IInv, CleanInv
  <2>4. CASE ~Dropped(r)
    <3>1. new.loaded = Effective(config)
      BY <1>1, <1>5, <2>4 DEF VisibleTo, Dropped
    <3> QED
      BY <1>4, <1>5, <2>1, <2>2, <2>4, <3>1 DEF IInv, CleanInv, Fresh
  <2> QED
    BY <2>3, <2>4
<1> QED
  BY <1>6, <1>7, <1>8 DEF IInv

\* A fill that ends while a change has dropped the provider is the change's own.
LEMMA StoreStep ==
    ASSUME IInv, NEW r \in Requests, Store(r)
    PROVE  IInv'
<1> DEFINE new == [req[r] EXCEPT !.pc = "use", !.prov = req[r].loaded]
<1>1. req[r] \in Request /\ req[r].pc = "store" /\ req[r].loaded \in Provider
  BY DEF Store, IInv, TypeOK, Request
<1>2. new \in Request
  BY <1>1 DEF Request
<1>3. /\ req' \in [Requests -> Request] /\ req'[r] = new
      /\ \A s \in Requests \ {r} : req'[s] = req[s]
      /\ UNCHANGED <<config, raced>> /\ cache' = req[r].loaded
  BY <1>2, SetFacts DEF Store
<1>4. /\ new.pc = "use" /\ new.prov = req[r].loaded
      /\ new.op = req[r].op /\ new.wrote = req[r].wrote /\ new.pend = req[r].pend
      /\ new.want = req[r].want
  BY <1>1 DEF Request
<1> HIDE DEF new
<1>5. TypeOK'
  BY <1>1, <1>3 DEF IInv, TypeOK
<1>6. Exclusive' /\ ChangeInv'
  BY <1>1, <1>3, <1>4 DEF IInv, Exclusive, ChangeInv
<1>7. CleanInv'
  <2>1. \A s \in Requests : Dropped(s)' <=> Dropped(s)
    BY <1>1, <1>3, <1>4 DEF Dropped
  <2> SUFFICES ASSUME ~raced PROVE CleanInv'
    BY <1>3 DEF CleanInv
  <2>2. \A s \in Requests : Dropped(s) => s = r
    BY <1>1 DEF IInv, CleanInv
  <2>3. CASE Dropped(r)
    <3>1. cache' = Effective(req'[r].pend)
      BY <1>1, <1>3, <1>4, <2>3 DEF IInv, ChangeInv, Dropped
    <3> QED
      BY <1>3, <1>4, <2>1, <2>2, <2>3, <3>1 DEF IInv, CleanInv
  <2>4. CASE ~Dropped(r)
    BY <1>1, <1>3, <1>4, <2>1, <2>2, <2>4 DEF IInv, CleanInv, Fresh
  <2> QED
    BY <2>3, <2>4
<1> QED
  BY <1>5, <1>6, <1>7 DEF IInv

\* A request that has its provider stores nothing more.
LEMMA UseStep ==
    ASSUME IInv, NEW r \in Requests, Use(r)
    PROVE  IInv'
<1> DEFINE new == IF req[r].op \in Changes THEN [req[r] EXCEPT !.pc = "commit"] ELSE Idle
<1>1. req[r] \in Request /\ req[r].pc = "use"
  BY DEF Use, IInv, TypeOK
<1>2. /\ new \in Request /\ new.pc # "store"
      /\ req[r].wrote => /\ new.pc = "commit" /\ new.op = req[r].op
                         /\ new.wrote = req[r].wrote /\ new.pend = req[r].pend
                         /\ new.want = req[r].want
      /\ ~req[r].wrote => new = Idle
  <2>1. CASE req[r].op \in Changes
    BY <1>1, <2>1 DEF IInv, ChangeInv, Request
  <2>2. CASE req[r].op \notin Changes
    BY <1>1, <2>2 DEF IInv, ChangeInv, Request, Idle, MaybeConfig, Provider
  <2> QED
    BY <2>1, <2>2
<1> HIDE DEF new
<1>3. /\ req' \in [Requests -> Request] /\ req'[r] = new
      /\ \A s \in Requests \ {r} : req'[s] = req[s]
      /\ UNCHANGED <<config, cache, raced>>
  BY <1>2, SetFacts DEF Use, new
<1>4. TypeOK'
  BY <1>3 DEF IInv, TypeOK
<1>5. Exclusive' /\ ChangeInv'
  BY <1>1, <1>2, <1>3 DEF IInv, Exclusive, ChangeInv, Idle, Changes
<1>6. CleanInv'
  <2>1. \A s \in Requests : Dropped(s)' <=> Dropped(s)
    BY <1>1, <1>2, <1>3 DEF Dropped, Idle
  <2> QED
    BY <1>1, <1>2, <1>3, <2>1 DEF IInv, CleanInv, Fresh, Dropped
<1> QED
  BY <1>4, <1>5, <1>6 DEF IInv

\* A change takes the row lock, or finds nothing to remove; the committed row and
\* the cache stay as they are.
LEMMA StatementStep ==
    ASSUME IInv, NEW r \in Requests, WriteRow(r) \/ RemoveNothing(r)
    PROVE  IInv'
<1>1. /\ req[r] \in Request /\ req[r].pc = "write" /\ ~req[r].wrote
      /\ UNCHANGED <<config, cache, raced>>
  BY DEF WriteRow, RemoveNothing, IInv, TypeOK, ChangeInv, Request
<1>2. PICK new \in Request :
        /\ Set(r, new) /\ new.pc = "invalidate"
        /\ new.op = req[r].op /\ new.want = req[r].want
        /\ \/ new.wrote /\ new.op \in Changes /\ \A s \in Requests : ~req[s].wrote
           \/ ~new.wrote /\ new.op = "remove"
  <2>1. CASE WriteRow(r)
    <3> DEFINE n == [req[r] EXCEPT !.pc = "invalidate", !.wrote = TRUE,
                                   !.pend = NewRow(req[r])]
    <3>1. req[r].op \in Changes
      BY <1>1 DEF IInv, ChangeInv
    <3>2. NewRow(req[r]) \in MaybeConfig
      <4>1. CASE req[r].op = "setStatus"
        BY <2>1, <4>1 DEF WriteRow, NewRow, IInv, TypeOK, ChangeInv, MaybeConfig, Config
      <4>2. CASE req[r].op # "setStatus"
        BY <1>1, <4>2 DEF NewRow, Request
      <4> QED
        BY <4>1, <4>2
    <3>3. /\ n \in Request /\ n.pc = "invalidate" /\ n.wrote
          /\ n.op = req[r].op /\ n.want = req[r].want
      BY <1>1, <3>2 DEF Request
    <3>4. Set(r, n) /\ \A s \in Requests : ~req[s].wrote
      BY <2>1 DEF WriteRow, RowLocked
    <3> HIDE DEF n
    <3> QED
      BY <3>1, <3>3, <3>4
  <2>2. CASE RemoveNothing(r)
    <3> DEFINE n == [req[r] EXCEPT !.pc = "invalidate"]
    <3>1. /\ n \in Request /\ n.pc = "invalidate" /\ n.op = req[r].op /\ ~n.wrote
          /\ n.op = "remove" /\ n.want = req[r].want /\ Set(r, n)
      BY <1>1, <2>2 DEF Request, RemoveNothing
    <3> HIDE DEF n
    <3> QED
      BY <3>1
  <2> QED
    BY <2>1, <2>2
<1>3. /\ req' \in [Requests -> Request] /\ req'[r] = new
      /\ \A s \in Requests \ {r} : req'[s] = req[s]
  BY <1>2, SetFacts
<1>4. TypeOK' /\ Exclusive' /\ ChangeInv'
  BY <1>1, <1>2, <1>3 DEF IInv, TypeOK, Exclusive, ChangeInv
<1>5. CleanInv'
  <2>1. \A s \in Requests : Dropped(s)' <=> Dropped(s)
    BY <1>1, <1>2, <1>3 DEF Dropped
  <2> QED
    BY <1>1, <1>2, <1>3, <2>1 DEF IInv, CleanInv, Fresh, Dropped
<1> QED
  BY <1>4, <1>5 DEF IInv

\* The drop makes a fresh start, unless a fill is about to store.
LEMMA InvalidateStep ==
    ASSUME IInv, NEW r \in Requests, Invalidate(r)
    PROVE  IInv'
<1> DEFINE new == AfterDrop(req[r], NoProvider)
<1>1. req[r] \in Request /\ req[r].pc = "invalidate"
  BY DEF Invalidate, IInv, TypeOK
<1>2. /\ new \in Request /\ new.op = req[r].op
      /\ new.wrote = req[r].wrote /\ new.pend = req[r].pend /\ new.want = req[r].want
      /\ new.pc = IF req[r].op = "remove" THEN "commit" ELSE "load"
  BY <1>1 DEF AfterDrop, LookedUp, Request
<1> HIDE DEF new
<1>3. /\ req' \in [Requests -> Request] /\ req'[r] = new
      /\ \A s \in Requests \ {r} : req'[s] = req[s]
      /\ config' = config /\ cache' = NoProvider /\ raced' = FillPending
  BY <1>2, SetFacts DEF Invalidate, new
<1>4. TypeOK'
  BY <1>3 DEF IInv, TypeOK, FillPending
<1>5. Exclusive' /\ ChangeInv'
  BY <1>1, <1>2, <1>3 DEF IInv, Exclusive, ChangeInv, Changes
<1>6. CleanInv'
  BY <1>2, <1>3 DEF CleanInv, FillPending, Fresh
<1> QED
  BY <1>4, <1>5, <1>6 DEF IInv

\* What the cache holds when a change commits is the row it commits.
LEMMA CommitStep ==
    ASSUME IInv, NEW r \in Requests, Commit(r)
    PROVE  IInv'
<1>1. req[r] \in Request /\ req[r].pc = "commit" /\ Idle \in Request
  BY DEF Commit, IInv, TypeOK, Idle, Request, MaybeConfig, Provider
<1>2. /\ req' \in [Requests -> Request] /\ req'[r] = Idle
      /\ \A s \in Requests \ {r} : req'[s] = req[s]
      /\ config' = IF req[r].wrote THEN req[r].pend ELSE config
      /\ UNCHANGED <<cache, raced>>
  BY <1>1, SetFacts DEF Commit
<1>3. TypeOK'
  BY <1>1, <1>2 DEF IInv, TypeOK, Request
<1>4. Exclusive' /\ ChangeInv'
  BY <1>2 DEF IInv, Exclusive, ChangeInv, Idle, Changes
<1>5. CleanInv'
  <2> SUFFICES ASSUME ~raced PROVE CleanInv'
    BY <1>2 DEF CleanInv
  <2>1. CASE req[r].wrote
    <3>1. Dropped(r) /\ \A s \in Requests : ~Dropped(s)'
      BY <1>1, <1>2, <2>1 DEF IInv, Exclusive, Dropped, Idle
    <3>2. /\ cache' \in {NoProvider, Effective(config')}
          /\ \A s \in Requests : req'[s].pc # "store"
      BY <1>2, <2>1, <3>1 DEF IInv, CleanInv, Idle
    <3> QED
      BY <3>1, <3>2 DEF CleanInv, Fresh
  <2>2. CASE ~req[r].wrote
    <3>1. \A s \in Requests : Dropped(s)' <=> Dropped(s)
      BY <1>2, <2>2 DEF Dropped, Idle
    <3> QED
      BY <1>2, <2>2, <3>1 DEF IInv, CleanInv, Fresh, Dropped, Idle
  <2> QED
    BY <2>1, <2>2
<1> QED
  BY <1>3, <1>4, <1>5 DEF IInv

\* A rollback releases the lock; what it may have left in the cache is recorded.
LEMMA AbortStep ==
    ASSUME IInv, NEW r \in Requests, Abort(r)
    PROVE  IInv'
<1> DEFINE new == Leftover(req[r])
<1>1. req[r] \in Request /\ req[r].pc # "idle"
  BY DEF Abort, IInv, TypeOK
<1>2. /\ new \in Request /\ ~new.wrote /\ new.op \notin Changes
      /\ new.pc \in {"idle", "store"}
      /\ new.pc = "store" => req[r].pc = "store" /\ new.loaded = req[r].loaded
  BY <1>1 DEF Leftover, Idle, Request, MaybeConfig, Provider, Readers, Changes
<1> HIDE DEF new
<1>3. /\ req' \in [Requests -> Request] /\ req'[r] = new
      /\ \A s \in Requests \ {r} : req'[s] = req[s]
      /\ UNCHANGED <<config, cache>> /\ raced' = (raced \/ Dropped(r))
  BY <1>2, SetFacts DEF Abort, new
<1>4. TypeOK'
  BY <1>3 DEF IInv, TypeOK, Dropped, Request
<1>5. Exclusive' /\ ChangeInv'
  BY <1>2, <1>3 DEF IInv, Exclusive, ChangeInv, Changes
<1>6. CleanInv'
  <2> SUFFICES ASSUME ~raced, ~Dropped(r) PROVE CleanInv'
    BY <1>3 DEF CleanInv
  <2>1. \A s \in Requests : Dropped(s)' <=> Dropped(s)
    BY <1>2, <1>3 DEF Dropped
  <2> QED
    BY <1>2, <1>3, <2>1 DEF IInv, CleanInv, Fresh, Dropped
<1> QED
  BY <1>4, <1>5, <1>6 DEF IInv

\* A restart begins with an empty cache and no request.
LEMMA RestartStep == ASSUME IInv, Restart PROVE IInv'
<1>1. Idle \in Request /\ Idle.pc = "idle" /\ Idle.wrote = FALSE /\ Idle.op = "none"
  BY DEF Idle, Request, MaybeConfig, Provider
<1>2. TypeOK'
  BY <1>1 DEF Restart, IInv, TypeOK
<1>3. \A r \in Requests : req'[r] = Idle
  BY DEF Restart
<1>4. Exclusive' /\ ChangeInv' /\ CleanInv'
  BY <1>1, <1>3 DEF Restart, Exclusive, ChangeInv, CleanInv, Dropped, Fresh, Changes
<1> QED
  BY <1>2, <1>4 DEF IInv

LEMMA NextIInv == IInv /\ [Next]_vars => IInv'
<1> SUFFICES ASSUME IInv, [Next]_vars PROVE IInv'
  OBVIOUS
<1>1. ASSUME NEW r \in Requests, Ask(r) PROVE IInv'
  <2> DEFINE new == LookedUp([Idle EXCEPT !.op = "broadcast"], cache)
  <2>1. /\ new \in Request /\ new.pc \in {"load", "use"} /\ ~new.wrote
        /\ new.op \notin Changes
    BY DEF LookedUp, Idle, Request, IInv, TypeOK, MaybeConfig, Provider, Readers, Changes
  <2> HIDE DEF new
  <2>2. req[r] = Idle /\ Set(r, new) /\ UNCHANGED <<config, cache, raced>>
    BY <1>1 DEF Ask, new
  <2> QED
    BY <2>1, <2>2, AskStep DEF Changes
<1>2. ASSUME NEW r \in Requests, NEW c \in Credentials, AskConfigure(r, c) PROVE IInv'
  <2> DEFINE new == [Idle EXCEPT !.pc = "write", !.op = "configure",
                                 !.want = [cred |-> c, status |-> "ACTIVE"]]
  <2>1. /\ new \in Request /\ new.pc = "write" /\ ~new.wrote
        /\ new.op \in Changes /\ new.op # "setStatus"
    BY DEF Idle, Request, MaybeConfig, Config, Provider, Changes
  <2> HIDE DEF new
  <2>2. req[r] = Idle /\ Set(r, new) /\ UNCHANGED <<config, cache, raced>>
    BY <1>2 DEF AskConfigure, new
  <2> QED
    BY <2>1, <2>2, AskStep
<1>3. ASSUME NEW r \in Requests, NEW s \in {"ACTIVE", "BROKEN"}, AskSetStatus(r, s)
      PROVE  IInv'
  <2> DEFINE new == [Idle EXCEPT !.pc = "write", !.op = "setStatus",
                                 !.want = [cred |-> config.cred, status |-> s]]
  <2>1. config \in Config
    BY <1>3 DEF AskSetStatus, IInv, TypeOK, MaybeConfig
  <2>2. /\ new \in Request /\ new.pc = "write" /\ ~new.wrote /\ new.op \in Changes
        /\ new.want \in Config
    BY <2>1 DEF Idle, Request, MaybeConfig, Config, Provider, Changes
  <2> HIDE DEF new
  <2>3. req[r] = Idle /\ Set(r, new) /\ UNCHANGED <<config, cache, raced>>
    BY <1>3 DEF AskSetStatus, new
  <2> QED
    BY <2>2, <2>3, AskStep
<1>4. ASSUME NEW r \in Requests, AskRemove(r) PROVE IInv'
  <2> DEFINE new == [Idle EXCEPT !.pc = "write", !.op = "remove"]
  <2>1. /\ new \in Request /\ new.pc = "write" /\ ~new.wrote
        /\ new.op \in Changes /\ new.op # "setStatus"
    BY DEF Idle, Request, MaybeConfig, Provider, Changes
  <2> HIDE DEF new
  <2>2. req[r] = Idle /\ Set(r, new) /\ UNCHANGED <<config, cache, raced>>
    BY <1>4 DEF AskRemove, new
  <2> QED
    BY <2>1, <2>2, AskStep
<1>5. ASSUME NEW r \in Requests, Progress(r) PROVE IInv'
  BY <1>5, LoadStep, StoreStep, UseStep, InvalidateStep, CommitStep DEF Progress
<1>6. CASE UNCHANGED vars
  BY <1>6 DEF vars, IInv, TypeOK, Exclusive, ChangeInv, CleanInv, Fresh, Dropped
<1> QED
  BY <1>1, <1>2, <1>3, <1>4, <1>5, <1>6, StatementStep, AbortStep, RestartStep DEF Next

------------------------------------------------------------------------------
\* The fields keep their types: no transaction ever holds half a row.
THEOREM TypeCorrect == Spec => []TypeOK
<1>1. IInv => TypeOK
  BY DEF IInv
<1> QED
  BY <1>1, InitIInv, NextIInv, PTL DEF Spec

\* The cached provider holds the credentials of the committed row unless, since
\* the last drop, a fill straddled a drop or a commit or a change rolled back.
THEOREM CacheIsFresh == Spec => []FreshUnlessRaced
<1>1. IInv => FreshUnlessRaced
  BY DEF IInv, CleanInv, FreshUnlessRaced
<1> QED
  BY <1>1, InitIInv, NextIInv, PTL DEF Spec

\* configure and updateStatus answer with the provider of the row they wrote.
THEOREM SummaryDescribesOwnRow == Spec => []SummaryIsOwn
<1>1. IInv => SummaryIsOwn
  BY DEF IInv, ChangeInv, SummaryIsOwn
<1> QED
  BY <1>1, InitIInv, NextIInv, PTL DEF Spec

==============================================================================
