----------------------------- MODULE ReconProofs -----------------------------
(***************************************************************************)
(* Theorems about Recon, for every set of events, accounts, sweeps and     *)
(* every bound.                                                            *)
(***************************************************************************)
EXTENDS Recon, LedgerProofs

(***************************************************************************)
(* TypeOK is not inductive: what a step writes to the database comes from  *)
(* the item and the route that earlier steps of the same process have set. *)
(***************************************************************************)

\* A process at work has an item.
ItemsPresent == \A p \in Procs : pc[p] # "idle" => item[p] \in EventRecord

\* Only a credit to a wallet is checked against limits, and a credit on its way
\* to suspense carries its reason.
RoutesExplained ==
    \A p \in Procs :
        /\ pc[p] \in {"tier", "daily"} => route[p].account # Suspense
        /\ (pc[p] = "post" /\ ~IsReversal(item[p]) /\ route[p].account = Suspense) =>
               route[p].reason \in Reasons
        /\ pc[p] = "suspend" => route[p].reason \in Reasons

LocalType ==
    /\ pc \in [Procs -> Steps]
    /\ item \in [Procs -> EventRecord \cup {NoEvent}]
    /\ route \in [Procs -> Route]
    /\ found \in [Procs -> Collections \cup {NoCollection}]

LocalInv == LocalType /\ ItemsPresent /\ RoutesExplained

TypeInv == TypeOK /\ ItemsPresent /\ RoutesExplained

-----------------------------------------------------------------------------
(* The rows of the ledger.                                                 *)

\* The entries of an event along a route are entries of the ledger.
LEMMA EntriesType ==
    ASSUME NEW e \in EventRecord, NEW r \in Route
    PROVE  Entries(e, r) \in SUBSET LedgerEntry
<1>1. r.account \in Accounts /\ e.amount \in Int
  BY DEF Route, EventRecord
<1>2. Settlement \in Accounts /\ Suspense \in Accounts
  BY DEF Accounts
<1>3. /\ ReversalToSuspense(e.amount) \in SUBSET LedgerEntry
      /\ ReversalEntries(r.account, e.amount) \in SUBSET LedgerEntry
      /\ CreditSuspense(e.amount) \in SUBSET LedgerEntry
      /\ CreditCustomer(r.account, e.amount) \in SUBSET LedgerEntry
  BY <1>1, <1>2, TransferType
     DEF ReversalToSuspense, ReversalEntries, CreditSuspense, CreditCustomer
<1> QED
  BY <1>3 DEF Entries

\* The row a process would post is a row of the ledger.
LEMMA RowType ==
    ASSUME LocalType, NEW p \in Procs, item[p] \in EventRecord
    PROVE  Row(p) \in Transaction
<1>1. Entries(item[p], route[p]) \in SUBSET LedgerEntry
  BY EntriesType DEF LocalType
<1> QED
  BY <1>1 DEF Row, Transaction

-----------------------------------------------------------------------------
(* The control state of the processes.                                     *)

\* Constants of the control state.
LEMMA ControlConstants ==
    /\ Worker \in Procs
    /\ NoRoute \in Route
    /\ NoRoute.account # Suspense
    /\ Verdicts \subseteq Steps
    /\ \A reason \in Reasons : /\ ToSuspense(reason) \in Route
                               /\ ToSuspense(reason).reason \in Reasons
    /\ ToSuspense("none") \in Route
    /\ \A c \in Customers : /\ ToWallet(c) \in Route
                            /\ ToWallet(c).account # Suspense
BY AccountsAssumption
   DEF Procs, NoRoute, Route, Accounts, Verdicts, Steps, ToSuspense, ToWallet

\* A process gives up its item.
LEMMA ReleaseLocal ==
    ASSUME LocalInv, NEW p \in Procs, Release(p)
    PROVE  LocalInv'
<1> USE DEF LocalInv, Release, Goto
<1>1. LocalType'
  BY ControlConstants DEF LocalType, Steps, NoCollection
<1>2. ItemsPresent'
  BY DEF LocalType, ItemsPresent
<1>3. RoutesExplained'
  BY DEF LocalType, RoutesExplained
<1> QED
  BY <1>1, <1>2, <1>3

\* A process moves on to a step that has no claim on its route.
LEMMA GotoLocal ==
    ASSUME LocalInv, NEW p \in Procs, pc[p] # "idle",
           NEW step \in Steps \ {"tier", "daily", "post", "suspend"},
           Goto(p, step), UNCHANGED <<item, route>>,
           found' \in [Procs -> Collections \cup {NoCollection}]
    PROVE  LocalInv'
<1> USE DEF LocalInv, Goto
<1>1. LocalType'
  BY DEF LocalType
<1>2. ItemsPresent'
  BY DEF LocalType, ItemsPresent
<1>3. RoutesExplained'
  BY DEF LocalType, RoutesExplained
<1> QED
  BY <1>1, <1>2, <1>3

\* A process has dealt with its item.
LEMMA ConcludeLocal ==
    ASSUME LocalInv, NEW p \in Procs, pc[p] # "idle", NEW verdict \in Verdicts,
           Conclude(p, verdict)
    PROVE  LocalInv'
<1>1. CASE p = Worker
  <2>1. found' \in [Procs -> Collections \cup {NoCollection}]
    BY <1>1 DEF Conclude, LocalInv, LocalType
  <2>2. verdict \in Steps \ {"tier", "daily", "post", "suspend"}
    BY DEF Verdicts, Steps
  <2> QED
    BY <1>1, <2>1, <2>2, GotoLocal DEF Conclude
<1>2. CASE p # Worker
  BY <1>2, ReleaseLocal DEF Conclude
<1> QED
  BY <1>1, <1>2

\* The route of a process changes together with its step.
LEMMA RouteLocal ==
    ASSUME LocalInv, NEW p \in Procs, pc[p] # "idle", NEW r \in Route,
           NEW step \in {"tier", "daily", "post", "suspend"},
           Goto(p, step), route' = [route EXCEPT ![p] = r], UNCHANGED <<item, found>>,
           step \in {"tier", "daily"} => r.account # Suspense,
           (step = "post" /\ ~IsReversal(item[p]) /\ r.account = Suspense) =>
               r.reason \in Reasons,
           step = "suspend" => r.reason \in Reasons
    PROVE  LocalInv'
<1> USE DEF LocalInv, Goto
<1>1. LocalType'
  BY DEF LocalType, Steps
<1>2. ItemsPresent'
  BY DEF LocalType, ItemsPresent
<1>3. RoutesExplained'
  BY DEF LocalType, RoutesExplained, IsReversal
<1> QED
  BY <1>1, <1>2, <1>3

\* The route of a process stays, and so it does for the step that follows.
LEMMA SameRouteLocal ==
    ASSUME LocalInv, NEW p \in Procs, pc[p] # "idle",
           NEW step \in {"tier", "daily", "post", "suspend"},
           Goto(p, step), UNCHANGED <<item, route, found>>,
           step \in {"tier", "daily"} => route[p].account # Suspense,
           (step = "post" /\ ~IsReversal(item[p]) /\ route[p].account = Suspense) =>
               route[p].reason \in Reasons,
           step = "suspend" => route[p].reason \in Reasons
    PROVE  LocalInv'
<1>1. route' = [route EXCEPT ![p] = route[p]]
  BY DEF LocalInv, LocalType
<1>2. route[p] \in Route
  BY DEF LocalInv, LocalType
<1> QED
  BY <1>1, <1>2, RouteLocal

-----------------------------------------------------------------------------
(* Type correctness.                                                       *)

\* The routes the matcher chooses.
LEMMA MatchRoute ==
    ASSUME TypeOK, NEW e \in EventRecord
    PROVE  /\ Match(e) \in Route
           /\ Match(e).account = Suspense => Match(e).reason \in Reasons
           /\ MatchReversal(e) \in Route
<1>1. StatusOf(e) # Missing => Owner[e.va] \in Customers
  BY ReconAssumption DEF StatusOf, EventRecord
<1>2. /\ "unmatched" \in Reasons
      /\ "closed_account" \in Reasons
      /\ "suspended_account" \in Reasons
  BY DEF Reasons
<1> QED
  BY <1>1, <1>2, ControlConstants DEF Match, MatchReversal

\* The initial state satisfies the inductive invariant of types.
LEMMA TypeInit == Init => TypeInv
<1> SUFFICES ASSUME Init PROVE TypeInv
  OBVIOUS
<1> USE DEF Init
<1>1. TypeOK
  <2>1. /\ ledger \in [TxIds -> Transaction]
        /\ collections \in [Collections -> Collection]
    BY DEF EmptyLedger, Absent, Transaction, Collection
  <2>2. LocalType
    BY ControlConstants DEF LocalType, Steps, NoCollection
  <2>3. /\ made \subseteq Events
        /\ since \in [Events -> SUBSET (VAStatus \cup {Missing})]
        /\ today \in 0..MaxDay
        /\ vaStatus \in [VAs -> VAStatus \cup {Missing}]
        /\ webhookEvents \in [DedupeKeys -> {"none", "received"} \cup Verdicts]
        /\ handlers \subseteq Events
        /\ queue \in Seq(Events)
        /\ suspenseItems \in [TxIds -> Seq(Reasons)]
        /\ relayed \subseteq EventRecord
        /\ todo \in [Sweeps -> SUBSET Events]
        /\ crashes \in 0..MaxCrashes
        /\ faults \in 0..MaxFaults
    BY ReconAssumption
  <2> QED
    BY <2>1, <2>2, <2>3 DEF TypeOK, LocalType
<1>2. ItemsPresent
  BY DEF ItemsPresent
<1>3. RoutesExplained
  BY DEF RoutesExplained
<1> QED
  BY <1>1, <1>2, <1>3 DEF TypeInv

\* The provider and the other handlers.
LEMMA EnvironmentType ==
    ASSUME TypeInv, Environment
    PROVE  TypeInv'
<1>0. TypeOK
  BY DEF TypeInv
<1>1. UNCHANGED local
  BY DEF Environment, MakePayment, NextDay, CreateVirtualAccount, UpdateVAStatus, SetStatus,
         CreateCollection, CancelCollection, ExpireCollection, SetCollection
<1>2. ItemsPresent' /\ RoutesExplained'
  BY <1>1 DEF TypeInv, ItemsPresent, RoutesExplained, IsReversal, local
<1>3. ASSUME NEW e \in Events, MakePayment(e) PROVE TypeOK'
  <2>1. StatusOf(e) \in VAStatus \cup {Missing}
    BY <1>0, ReconAssumption DEF StatusOf, TypeOK, EventRecord
  <2>2. since' \in [Events -> SUBSET (VAStatus \cup {Missing})]
    BY <1>0, <1>3, <2>1 DEF MakePayment, TypeOK
  <2> QED
    BY <1>0, <1>3, <2>2 DEF MakePayment, TypeOK, ingest, posted, local
<1>4. ASSUME NEW v \in VAs, NEW status \in VAStatus, SetStatus(v, status) PROVE TypeOK'
  <2>1. since' \in [Events -> SUBSET (VAStatus \cup {Missing})]
    BY <1>0, <1>4 DEF SetStatus, TypeOK
  <2>2. vaStatus' \in [VAs -> VAStatus \cup {Missing}]
    BY <1>0, <1>4 DEF SetStatus, TypeOK
  <2> QED
    BY <1>0, <1>4, <2>1, <2>2 DEF SetStatus, TypeOK, ingest, posted, local
<1>5. ASSUME NEW c \in Collections, NEW row \in Collection, SetCollection(c, row)
      PROVE  TypeOK'
  BY <1>0, <1>5 DEF SetCollection, TypeOK, provider, ingest, local
<1>6. \A c \in Collections :
          /\ [collections[c] EXCEPT !.status = "open"] \in Collection
          /\ [collections[c] EXCEPT !.status = "cancelled"] \in Collection
          /\ [collections[c] EXCEPT !.expired = TRUE] \in Collection
  <2> SUFFICES ASSUME NEW c \in Collections
               PROVE  /\ [collections[c] EXCEPT !.status = "open"] \in Collection
                      /\ [collections[c] EXCEPT !.status = "cancelled"] \in Collection
                      /\ [collections[c] EXCEPT !.expired = TRUE] \in Collection
    OBVIOUS
  <2>1. collections[c] \in Collection
    BY <1>0 DEF TypeOK
  <2> QED
    BY <2>1 DEF Collection
<1>7. TypeOK'
  <2>1. CASE \E e \in Events : MakePayment(e)
    BY <1>3, <2>1
  <2>2. CASE \E v \in VAs : CreateVirtualAccount(v)
    BY <1>4, <2>2 DEF CreateVirtualAccount, VAStatus
  <2>3. CASE \E v \in VAs, status \in StatusUpdates : UpdateVAStatus(v, status)
    BY <1>4, <2>3, ReconAssumption DEF UpdateVAStatus, VAStatus
  <2>4. CASE \E c \in Collections : CreateCollection(c)
    BY <1>5, <1>6, <2>4 DEF CreateCollection
  <2>5. CASE \E c \in Collections : CancelCollection(c)
    BY <1>5, <1>6, <2>5 DEF CancelCollection
  <2>6. CASE \E c \in Collections : ExpireCollection(c)
    BY <1>5, <1>6, <2>6 DEF ExpireCollection
  <2>7. CASE NextDay
    <3>1. today' \in 0..MaxDay
      BY <1>0, <2>7, ReconAssumption DEF NextDay, TypeOK
    <3> QED
      BY <1>0, <2>7, <3>1 DEF NextDay, TypeOK, ingest, posted, local
  <2> QED
    BY <2>1, <2>2, <2>3, <2>4, <2>5, <2>6, <2>7 DEF Environment
<1> QED
  BY <1>2, <1>7 DEF TypeInv

\* Webhook ingestion.
LEMMA IngestType ==
    ASSUME TypeInv, NEW e \in Events, HandleNombaWebhook(e) \/ Enqueue(e)
    PROVE  TypeInv'
<1>0. TypeOK
  BY DEF TypeInv
<1>1. UNCHANGED local
  BY DEF HandleNombaWebhook, Enqueue
<1>2. ItemsPresent' /\ RoutesExplained'
  BY <1>1 DEF TypeInv, ItemsPresent, RoutesExplained, IsReversal, local
<1>3. CASE HandleNombaWebhook(e)
  BY <1>0, <1>2, <1>3 DEF TypeInv, TypeOK, HandleNombaWebhook, provider, posted, local
<1>4. CASE Enqueue(e)
  <2>1. queue' \in Seq(Events)
    BY <1>0, <1>4 DEF TypeOK, Enqueue
  <2> QED
    BY <1>0, <1>2, <1>4, <2>1 DEF TypeInv, TypeOK, Enqueue, provider, posted, local
<1> QED
  BY <1>3, <1>4

\* What a step that only moves a process has to show.
LEMMA LocalSuffices ==
    ASSUME TypeInv, LocalInv',
           UNCHANGED <<provider, vaStatus, ingest, posted, todo, crashes>>,
           faults' \in 0..MaxFaults
    PROVE  TypeInv'
BY DEF TypeInv, TypeOK, LocalInv, LocalType, provider, ingest, posted

\* The calls of the pipeline, worker and sweep alike.
LEMMA PipelineType ==
    ASSUME TypeInv, NEW p \in Procs, Pipeline(p)
    PROVE  TypeInv'
<1>0. TypeOK /\ LocalInv /\ LocalType
  BY DEF TypeInv, TypeOK, LocalInv, LocalType
<1>1. pc[p] # "idle" /\ item[p] \in EventRecord
  BY DEF Pipeline, MatchItem, CheckMaxBalance, CheckDailyCredit, Post,
         CreateSuspenseItem, FindCollection, FulfillCollection, TypeInv, ItemsPresent
<1>2. CASE MatchItem(p)
  <2> DEFINE e == item[p]
             r == IF IsReversal(e) THEN MatchReversal(e) ELSE Match(e)
             step == IF IsReversal(e) \/ r.account = Suspense THEN "post" ELSE "tier"
  <2>1. r \in Route /\ (~IsReversal(e) /\ r.account = Suspense => r.reason \in Reasons)
    BY <1>0, <1>1, MatchRoute
  <2>2. CASE Entries(e, r) = {}
    <3>1. LocalInv'
      BY <1>0, <1>1, <1>2, <2>2, ConcludeLocal DEF MatchItem, Abandon, Verdicts
    <3> QED
      BY <1>0, <1>2, <3>1, LocalSuffices DEF MatchItem, TypeOK
  <2>3. CASE Entries(e, r) # {}
    <3>1. /\ Goto(p, step)
          /\ route' = [route EXCEPT ![p] = r]
          /\ UNCHANGED <<item, found>>
      BY <1>2, <2>3 DEF MatchItem
    <3>2. step \in {"tier", "post"} /\ (step = "tier" => r.account # Suspense)
      OBVIOUS
    <3> HIDE DEF r, step
    <3>3. LocalInv'
      BY <1>0, <1>1, <2>1, <3>1, <3>2, RouteLocal
    <3> QED
      BY <1>0, <1>2, <3>3, LocalSuffices DEF MatchItem, TypeOK
  <2> QED
    BY <2>2, <2>3
<1>3. ASSUME NEW breach, NEW next \in {"daily", "post"},
             pc[p] \in {"tier", "daily"}, CheckLimit(p, breach, next)
      PROVE  TypeInv'
  <2>1. route[p].account # Suspense
    BY <1>3 DEF TypeInv, RoutesExplained
  <2>2. CASE breach
    <3>1. "tier_limit" \in Reasons
      BY DEF Reasons
    <3>2. LocalInv'
      BY <1>0, <1>1, <1>3, <2>2, <3>1, ControlConstants, RouteLocal DEF CheckLimit
    <3> QED
      BY <1>0, <1>3, <3>2, LocalSuffices DEF CheckLimit, TypeOK
  <2>3. CASE ~breach
    <3>1. LocalInv'
      BY <1>0, <1>1, <1>3, <2>1, <2>3, SameRouteLocal DEF CheckLimit
    <3> QED
      BY <1>0, <1>3, <3>1, LocalSuffices DEF CheckLimit, TypeOK
  <2> QED
    BY <2>2, <2>3
<1>4. CASE CheckMaxBalance(p) \/ CheckDailyCredit(p)
  BY <1>3, <1>4 DEF CheckMaxBalance, CheckDailyCredit
<1>5. CASE Post(p)
  <2>1. LocalInv'
    <3>1. ASSUME NEW created \in BOOLEAN, AfterPost(p, created) PROVE LocalInv'
      <4>1. CASE Conclude(p, "processed") \/ Conclude(p, "ignored")
        BY <1>0, <1>1, <4>1, ConcludeLocal DEF Verdicts
      <4>2. CASE /\ ~IsReversal(item[p])
                 /\ Goto(p, IF route[p].account = Suspense THEN "suspend" ELSE "find")
                 /\ UNCHANGED <<item, route, found>>
        <5>1. CASE route[p].account = Suspense
          <6>1. route[p].reason \in Reasons
            BY <1>5, <4>2, <5>1 DEF Post, TypeInv, RoutesExplained
          <6> QED
            BY <1>0, <1>1, <4>2, <5>1, <6>1, SameRouteLocal
        <5>2. CASE route[p].account # Suspense
          <6>1. found' \in [Procs -> Collections \cup {NoCollection}]
            BY <1>0, <4>2 DEF LocalType
          <6> QED
            BY <1>0, <1>1, <4>2, <5>2, <6>1, GotoLocal DEF Steps
        <5> QED
          BY <5>1, <5>2
      <4> QED
        BY <3>1, <4>1, <4>2 DEF AfterPost
    <3>2. CASE Abandon(p)
      BY <1>0, <1>1, <3>2, ConcludeLocal DEF Abandon, Verdicts
    <3> QED
      BY <1>5, <3>1, <3>2 DEF Post, Exists
  <2>2. ledger' \in [TxIds -> Transaction]
    <3>1. item[p].tx \in TxIds /\ Row(p) \in Transaction
      BY <1>0, <1>1, RowType DEF EventRecord
    <3>2. ledger \in [TxIds -> Transaction]
      BY <1>0 DEF TypeOK
    <3> QED
      BY <1>5, <3>1, <3>2, PostKeeps DEF Post
  <2> QED
    BY <1>0, <1>5, <2>1, <2>2
       DEF Post, TypeInv, TypeOK, LocalInv, LocalType, provider, ingest
<1>6. CASE CreateSuspenseItem(p)
  <2>1. LocalInv'
    BY <1>0, <1>1, <1>6, ConcludeLocal DEF CreateSuspenseItem, Verdicts
  <2>2. suspenseItems' \in [TxIds -> Seq(Reasons)]
    <3>1. item[p].tx \in TxIds
      BY <1>1 DEF EventRecord
    <3>2. route[p].reason \in Reasons
      BY <1>6 DEF CreateSuspenseItem, TypeInv, RoutesExplained
    <3>3. Append(suspenseItems[item[p].tx], route[p].reason) \in Seq(Reasons)
      BY <1>0, <3>1, <3>2 DEF TypeOK
    <3> QED
      BY <1>0, <1>6, <3>1, <3>3 DEF CreateSuspenseItem, TypeOK
  <2> QED
    BY <1>0, <1>6, <2>1, <2>2
       DEF CreateSuspenseItem, TypeInv, TypeOK, LocalInv, LocalType, provider, ingest
<1>7. CASE FindCollection(p)
  <2> DEFINE open == FindOpenCollectionForVA(item[p])
  <2>1. CASE open = {}
    <3>1. LocalInv'
      BY <1>0, <1>1, <1>7, <2>1, ConcludeLocal DEF FindCollection, Verdicts
    <3> QED
      BY <1>0, <1>7, <3>1, LocalSuffices DEF FindCollection, TypeOK
  <2>2. CASE open # {}
    <3>1. PICK c \in open : found' = [found EXCEPT ![p] = c]
      BY <1>7, <2>2 DEF FindCollection
    <3>2. found' \in [Procs -> Collections \cup {NoCollection}]
      BY <1>0, <3>1 DEF LocalType, FindOpenCollectionForVA
    <3>3. LocalInv'
      BY <1>0, <1>1, <1>7, <2>2, <3>2, GotoLocal DEF FindCollection, Steps
    <3> QED
      BY <1>0, <1>7, <3>3, LocalSuffices DEF FindCollection, TypeOK
  <2> QED
    BY <2>1, <2>2
<1>8. CASE FulfillCollection(p)
  <2>1. LocalInv'
    BY <1>0, <1>1, <1>8, ConcludeLocal DEF FulfillCollection, Verdicts
  <2>2. collections' \in [Collections -> Collection]
    <3>1. item[p].tx \in TxIds
      BY <1>1 DEF EventRecord
    <3>2. \A c \in Collections :
              [collections[c] EXCEPT !.status = "fulfilled", !.by = item[p].tx]
                  \in Collection
      BY <1>0, <3>1 DEF TypeOK, Collection
    <3> QED
      BY <1>0, <1>8, <3>2 DEF FulfillCollection, Fulfilled, TypeOK
  <2> QED
    BY <1>0, <1>8, <2>1, <2>2
       DEF FulfillCollection, TypeInv, TypeOK, LocalInv, LocalType, provider, ingest
<1> QED
  BY <1>2, <1>4, <1>5, <1>6, <1>7, <1>8 DEF Pipeline

\* A process takes an item and starts to work on it.
LEMMA TakeLocal ==
    ASSUME LocalInv, NEW p \in Procs, NEW e \in EventRecord,
           NEW step \in {"check", "match", "ignored"},
           item' = [item EXCEPT ![p] = e], Goto(p, step), UNCHANGED <<route, found>>
    PROVE  LocalInv'
<1> USE DEF LocalInv, Goto
<1>1. LocalType'
  BY DEF LocalType, Steps, Verdicts
<1>2. ItemsPresent'
  BY DEF LocalType, ItemsPresent
<1>3. RoutesExplained'
  BY DEF LocalType, RoutesExplained, IsReversal
<1> QED
  BY <1>1, <1>2, <1>3

\* The steps only the worker takes.
LEMMA WorkerType ==
    ASSUME TypeInv, Dequeue \/ MarkWebhookProcessed \/ DispatchRelay
    PROVE  TypeInv'
<1>0. TypeOK /\ LocalInv /\ LocalType /\ Worker \in Procs
  BY ControlConstants DEF TypeInv, TypeOK, LocalInv, LocalType
<1>1. CASE Dequeue
  <2>1. Head(queue) \in Events /\ Tail(queue) \in Seq(Events)
    BY <1>0, <1>1 DEF Dequeue, TypeOK
  <2>2. Head(queue) \in EventRecord
    BY <2>1, ReconAssumption
  <2> DEFINE step == IF Head(queue).type = "payment_failed" THEN "ignored" ELSE "match"
  <2>3. LocalInv'
    <3>1. Goto(Worker, step) /\ step \in {"check", "match", "ignored"}
      BY <1>1 DEF Dequeue
    <3> QED
      BY <1>0, <1>1, <2>2, <3>1, TakeLocal DEF Dequeue
  <2> QED
    BY <1>0, <1>1, <2>1, <2>3
       DEF Dequeue, TypeInv, TypeOK, LocalInv, LocalType, provider, posted
<1>2. ASSUME pc[Worker] # "idle", AfterMark PROVE LocalInv'
  <2>1. CASE Release(Worker)
    BY <1>0, <2>1, ReleaseLocal
  <2>2. CASE Goto(Worker, "relay") /\ UNCHANGED <<item, route, found>>
    BY <1>0, <1>2, <2>2, GotoLocal DEF Steps, LocalType
  <2> QED
    BY <1>2, <2>1, <2>2 DEF AfterMark
<1>3. CASE MarkWebhookProcessed
  <2>1. LocalInv'
    BY <1>2, <1>3 DEF MarkWebhookProcessed, Verdicts
  <2>2. webhookEvents' \in [DedupeKeys -> {"none", "received"} \cup Verdicts]
    BY <1>0, <1>3 DEF MarkWebhookProcessed, TypeOK
  <2> QED
    BY <1>0, <1>3, <2>1, <2>2
       DEF MarkWebhookProcessed, TypeInv, TypeOK, LocalInv, LocalType, provider, posted
<1>4. CASE DispatchRelay
  <2>1. LocalInv'
    BY <1>0, <1>4, ReleaseLocal DEF DispatchRelay
  <2>2. item[Worker] \in EventRecord
    BY <1>0, <1>4 DEF DispatchRelay, TypeInv, ItemsPresent
  <2> QED
    BY <1>0, <1>4, <2>1, <2>2
       DEF DispatchRelay, TypeInv, TypeOK, LocalInv, LocalType, provider, ingest
<1> QED
  BY <1>1, <1>3, <1>4

\* The steps only a sweep takes.
LEMMA SweepType ==
    ASSUME TypeInv, NEW s \in Sweeps,
           ListTransactions(s) \/ SweepItem(s) \/ CheckExisting(s)
    PROVE  TypeInv'
<1>0. TypeOK /\ LocalInv /\ LocalType /\ s \in Procs
  BY DEF TypeInv, TypeOK, LocalInv, LocalType, Procs
<1>1. CASE ListTransactions(s)
  <2>1. todo' \in [Sweeps -> SUBSET Events]
    BY <1>0, <1>1 DEF ListTransactions, TypeOK
  <2>2. ItemsPresent' /\ RoutesExplained'
    BY <1>1 DEF ListTransactions, TypeInv, ItemsPresent, RoutesExplained, IsReversal
  <2> QED
    BY <1>0, <1>1, <2>1, <2>2
       DEF ListTransactions, TypeInv, TypeOK, provider, ingest, posted
<1>2. CASE SweepItem(s)
  <2>1. PICK e \in todo[s], identified \in BOOLEAN :
            /\ item' = [item EXCEPT ![s] = BuildWorkItem(e, identified)]
            /\ todo' = [todo EXCEPT ![s] = @ \ {e}]
    BY <1>2 DEF SweepItem
  <2>2. e \in EventRecord
    BY <1>0, ReconAssumption DEF TypeOK
  <2>3. BuildWorkItem(e, identified) \in EventRecord
    BY <2>2 DEF BuildWorkItem, EventRecord, EventTypes
  <2>4. LocalInv'
    BY <1>0, <1>2, <2>1, <2>3, TakeLocal DEF SweepItem
  <2>5. todo' \in [Sweeps -> SUBSET Events]
    BY <1>0, <2>1 DEF TypeOK
  <2> QED
    BY <1>0, <1>2, <2>4, <2>5
       DEF SweepItem, TypeInv, TypeOK, LocalInv, LocalType, provider, ingest, posted
<1>3. CASE CheckExisting(s)
  <2>1. CASE Release(s)
    BY <1>0, <1>3, <2>1, ReleaseLocal, LocalSuffices DEF CheckExisting, TypeOK
  <2>2. CASE Goto(s, "match") /\ UNCHANGED <<item, route, found>>
    <3>1. pc[s] # "idle"
      BY <1>3 DEF CheckExisting
    <3>2. LocalInv'
      BY <1>0, <2>2, <3>1, GotoLocal DEF LocalType, Steps
    <3> QED
      BY <1>0, <1>3, <3>2, LocalSuffices DEF CheckExisting, TypeOK
  <2> QED
    BY <1>3, <2>1, <2>2 DEF CheckExisting
<1> QED
  BY <1>1, <1>2, <1>3

\* Database errors and crashes.
LEMMA FailureType ==
    ASSUME TypeInv, Failure
    PROVE  TypeInv'
<1>0. TypeOK /\ LocalInv /\ LocalType /\ Worker \in Procs
  BY ControlConstants DEF TypeInv, TypeOK, LocalInv, LocalType
<1>1. Fault => faults' \in 0..MaxFaults
  BY <1>0, ReconAssumption DEF Fault, TypeOK
<1>2. ASSUME NEW p \in Procs, CallFails(p) PROVE TypeInv'
  <2>1. LocalInv'
    BY <1>0, <1>2, ConcludeLocal DEF CallFails, Abandon, Verdicts
  <2> QED
    BY <1>1, <1>2, <2>1, LocalSuffices DEF CallFails
<1>3. ASSUME NEW p \in Procs, LookupFails(p) PROVE TypeInv'
  <2>1. CASE /\ pc[p] = "tier"
             /\ Goto(p, "post")
             /\ UNCHANGED <<item, route, found>>
    <3>1. route[p].account # Suspense
      BY <2>1 DEF TypeInv, RoutesExplained
    <3>2. LocalInv'
      BY <1>0, <2>1, <3>1, SameRouteLocal
    <3> QED
      BY <1>1, <1>3, <3>2, LocalSuffices DEF LookupFails
  <2>2. CASE Release(p)
    BY <1>0, <1>1, <1>3, <2>2, ReleaseLocal, LocalSuffices DEF LookupFails
  <2> QED
    BY <1>3, <2>1, <2>2 DEF LookupFails
<1>4. ASSUME NEW p \in Procs, CommitUnconfirmed(p) PROVE TypeInv'
  <2>1. LocalInv'
    BY <1>0, <1>4, ConcludeLocal DEF CommitUnconfirmed, Abandon, Verdicts
  <2>2. item[p] \in EventRecord
    BY <1>4 DEF CommitUnconfirmed, TypeInv, ItemsPresent
  <2>3. item[p].tx \in TxIds /\ Row(p) \in Transaction
    BY <1>0, <2>2, RowType DEF EventRecord
  <2>4. ledger' \in [TxIds -> Transaction]
    BY <1>0, <1>4, <2>3, PostKeeps DEF CommitUnconfirmed, TypeOK
  <2> QED
    BY <1>0, <1>1, <1>4, <2>1, <2>4
       DEF CommitUnconfirmed, TypeInv, TypeOK, LocalInv, LocalType, provider, ingest
<1>5. ASSUME NEW p \in Procs, SideEffectFails(p) PROVE TypeInv'
  <2>1. LocalInv'
    BY <1>0, <1>5, ConcludeLocal DEF SideEffectFails, Verdicts
  <2> QED
    BY <1>1, <1>5, <2>1, LocalSuffices DEF SideEffectFails
<1>6. CASE MarkFails
  <2>1. LocalInv'
    <3>1. CASE Release(Worker)
      BY <1>0, <3>1, ReleaseLocal
    <3>2. CASE Goto(Worker, "relay") /\ UNCHANGED <<item, route, found>>
      BY <1>0, <1>6, <3>2, GotoLocal DEF MarkFails, Verdicts, Steps, LocalType
    <3> QED
      BY <1>6, <3>1, <3>2 DEF MarkFails, AfterMark
  <2> QED
    BY <1>1, <1>6, <2>1, LocalSuffices DEF MarkFails
<1>7. CASE Crash
  <2>1. LocalType'
    BY <1>7, ControlConstants DEF Crash, LocalType, Steps, NoCollection
  <2>2. ItemsPresent' /\ RoutesExplained'
    BY <1>7 DEF Crash, ItemsPresent, RoutesExplained
  <2>3. /\ queue' \in Seq(Events)
        /\ handlers' \subseteq Events
        /\ todo' \in [Sweeps -> SUBSET Events]
        /\ crashes' \in 0..MaxCrashes
    BY <1>0, <1>7, ReconAssumption DEF Crash, TypeOK
  <2> QED
    BY <1>0, <1>7, <2>1, <2>2, <2>3
       DEF Crash, TypeInv, TypeOK, LocalType, provider, posted
<1>8. ASSUME NEW e \in Events, InsertUnconfirmed(e) PROVE TypeInv'
  <2>1. ItemsPresent' /\ RoutesExplained'
    BY <1>8 DEF InsertUnconfirmed, TypeInv, ItemsPresent, RoutesExplained, IsReversal,
                local
  <2> QED
    BY <1>0, <1>1, <1>8, <2>1
       DEF InsertUnconfirmed, TypeInv, TypeOK, provider, posted, local
<1> QED
  BY <1>2, <1>3, <1>4, <1>5, <1>6, <1>7, <1>8 DEF Failure

\* Every step of the specification preserves the invariant of types.
LEMMA TypeStep == TypeInv /\ [Next]_vars => TypeInv'
<1> SUFFICES ASSUME TypeInv, [Next]_vars PROVE TypeInv'
  OBVIOUS
<1>1. CASE Environment
  BY <1>1, EnvironmentType
<1>2. CASE \E e \in Events : HandleNombaWebhook(e) \/ Enqueue(e)
  BY <1>2, IngestType
<1>3. CASE WorkerStep
  BY <1>3, WorkerType, PipelineType, ControlConstants DEF WorkerStep
<1>4. CASE \E s \in Sweeps : ListTransactions(s) \/ SweepStep(s)
  BY <1>4, SweepType, PipelineType DEF SweepStep, Procs
<1>5. CASE Failure
  BY <1>5, FailureType
<1>6. CASE UNCHANGED vars
  BY <1>6 DEF TypeInv, TypeOK, ItemsPresent, RoutesExplained, IsReversal,
              vars, provider, ingest, posted, local
<1> QED
  BY <1>1, <1>2, <1>3, <1>4, <1>5, <1>6 DEF Next

\* Every reachable state is well typed; in particular no step writes to the
\* database from the leftovers of another item or from an item it does not have.
THEOREM TypeCorrect == Spec => []TypeOK
<1>1. TypeInv => TypeOK
  BY DEF TypeInv
<1> QED
  BY <1>1, TypeInit, TypeStep, PTL DEF Spec

-----------------------------------------------------------------------------
(* The ledger is append-only.                                              *)

\* A step leaves the ledger alone, or one process makes its post.
LEMMA LedgerStep ==
    ASSUME TypeInv, [Next]_vars
    PROVE  \/ UNCHANGED ledger
           \/ \E p \in Procs : /\ item[p].tx \in TxIds
                               /\ Row(p) \in Transaction
                               /\ ledger' = PostTransaction(ledger, item[p].tx, Row(p))
<1> DEFINE Posts(p) == ledger' = PostTransaction(ledger, item[p].tx, Row(p))
<1>1. ASSUME NEW p \in Procs, pc[p] = "post"
      PROVE  item[p].tx \in TxIds /\ Row(p) \in Transaction
  <2>1. item[p] \in EventRecord /\ LocalType
    BY <1>1 DEF TypeInv, TypeOK, ItemsPresent, LocalType
  <2> QED
    BY <2>1, RowType DEF EventRecord
<1>2. ASSUME NEW p \in Procs, Pipeline(p)
      PROVE  UNCHANGED ledger \/ (pc[p] = "post" /\ Posts(p))
  BY <1>2 DEF Pipeline, MatchItem, CheckMaxBalance, CheckDailyCredit, CheckLimit, Post,
              CreateSuspenseItem, FindCollection, FulfillCollection, posted
<1>3. CASE Environment \/ \E e \in Events : HandleNombaWebhook(e) \/ Enqueue(e)
  BY <1>3 DEF Environment, MakePayment, NextDay, CreateVirtualAccount, UpdateVAStatus, SetStatus,
              CreateCollection, CancelCollection, ExpireCollection, SetCollection,
              HandleNombaWebhook, Enqueue, posted
<1>4. CASE WorkerStep
  BY <1>1, <1>2, <1>4, ControlConstants
     DEF WorkerStep, Dequeue, MarkWebhookProcessed, DispatchRelay, posted
<1>5. CASE \E s \in Sweeps : ListTransactions(s) \/ SweepStep(s)
  BY <1>1, <1>2, <1>5
     DEF ListTransactions, SweepStep, SweepItem, CheckExisting, posted, Procs
<1>6. CASE Failure
  BY <1>1, <1>6
     DEF Failure, CallFails, LookupFails, CommitUnconfirmed, SideEffectFails, MarkFails,
         InsertUnconfirmed, Crash, posted
<1>7. CASE UNCHANGED vars
  BY <1>7 DEF vars, posted
<1> QED
  BY <1>3, <1>4, <1>5, <1>6, <1>7 DEF Next

\* No step changes a row that exists.
LEMMA LedgerKeeps ==
    ASSUME TypeInv, [Next]_vars
    PROVE  \A t \in TxIds : Exists(ledger, t) => ledger'[t] = ledger[t]
<1>1. ledger \in [TxIds -> Transaction]
  BY DEF TypeInv, TypeOK
<1> QED
  BY <1>1, LedgerStep, PostKeeps

\* Whoever posts, and whatever fails or crashes in between, a row of the ledger
\* is never changed: the first writer of a transaction id wins.
THEOREM LedgerIsAppendOnly == Spec => LedgerAppendOnly
<1>1. TypeInv /\ [Next]_vars =>
          [\A t \in TxIds : Exists(ledger, t) => ledger'[t] = ledger[t]]_vars
  BY LedgerKeeps
<1> QED
  BY <1>1, TypeInit, TypeStep, PTL DEF Spec, LedgerAppendOnly

-----------------------------------------------------------------------------
(* Suspense items and verdicts.                                            *)

PostedByWorker(e) ==
    /\ Exists(ledger, e.tx)
    /\ ~IsReversal(e) => /\ ledger[e.tx].source = "webhook"
                         /\ ledger[e.tx].direction = "credit"

(***************************************************************************)
(* What a process knows at its next call.  Before its post, that the       *)
(* amount is positive, so that the row it writes has entries.  Before      *)
(* CreateSuspenseItem, that the money is in suspense without an item.      *)
(* The worker, before it marks its event, that the mark will be true.      *)
(***************************************************************************)
Claim(p) ==
    /\ pc[p] \in {"tier", "daily", "post"} => item[p].amount > 0
    /\ pc[p] = "suspend" => /\ Credited(ledger[item[p].tx]) = {Suspense}
                            /\ suspenseItems[item[p].tx] = <<>>
    /\ p = Worker =>
           /\ pc[p] \in {"suspend", "find", "fulfill", "processed"} =>
                  PostedByWorker(item[p])
           /\ (pc[p] = "ignored" /\ item[p].type = "payment_success") =>
                  Exists(ledger, item[p].tx)

\* No two processes are about to create an item for the same transaction.
Exclusive ==
    \A p, q \in Procs :
        (p # q /\ pc[p] = "suspend" /\ pc[q] = "suspend") => item[p].tx # item[q].tx

SafetyInv ==
    /\ \A p \in Procs : Claim(p)
    /\ Exclusive
    /\ AtMostOneSuspenseItem
    /\ SuspenseFundsListed
    /\ VerdictTruthful

\* Every event has its dedupe key.
LEMMA KeyOfEvent == \A e \in Events : DedupeKey(e) \in DedupeKeys
BY ReconAssumption DEF DedupeKey, DedupeKeys, EventRecord

\* The initial state satisfies the invariant of claims.
LEMMA SafetyInit == Init => SafetyInv
<1> SUFFICES ASSUME Init PROVE SafetyInv
  OBVIOUS
<1>1. \A p \in Procs : Claim(p)
  BY ControlConstants DEF Init, Claim
<1>2. Exclusive
  BY DEF Init, Exclusive
<1>3. \A t \in TxIds : ledger[t].entries = {} /\ suspenseItems[t] = <<>>
  BY DEF Init, EmptyLedger, Absent
<1>4. \A t \in TxIds : Credited(ledger[t]) = {}
  BY <1>3 DEF Credited
<1>5. AtMostOneSuspenseItem
  BY <1>3 DEF AtMostOneSuspenseItem
<1>6. SuspenseFundsListed
  BY <1>4 DEF SuspenseFundsListed
<1>7. VerdictTruthful
  <2>1. \A e \in Events : webhookEvents[DedupeKey(e)] = "none"
    BY KeyOfEvent DEF Init
  <2> QED
    BY <2>1 DEF VerdictTruthful
<1> QED
  BY <1>1, <1>2, <1>5, <1>6, <1>7 DEF SafetyInv

\* The other processes stay where they are.
Frame(p) == \A q \in Procs \ {p} : pc'[q] = pc[q] /\ item'[q] = item[q]

\* A step of process p that writes neither ledger nor items nor verdicts keeps
\* the invariant, if p can make the claims of its next call and does not
\* silently leave a suspense item behind.
LEMMA QuietMove ==
    ASSUME TypeInv, SafetyInv, NEW p \in Procs,
           UNCHANGED <<ledger, suspenseItems, webhookEvents, crashes>>,
           Frame(p),
           pc'[p] # "suspend",
           pc[p] # "suspend" \/ faults' # 0,
           faults \in Nat, faults' \in {faults, faults + 1},
           Claim(p)'
    PROVE  SafetyInv'
<1>1. \A q \in Procs : Claim(q)'
  BY DEF SafetyInv, Claim, PostedByWorker, Frame
<1>2. Exclusive'
  BY DEF SafetyInv, Exclusive, Frame
<1>3. AtMostOneSuspenseItem'
  BY DEF SafetyInv, AtMostOneSuspenseItem
<1>4. SuspenseFundsListed'
  <2> SUFFICES ASSUME NEW t \in TxIds, Credited(ledger[t]) = {Suspense},
                      crashes = 0, faults' = 0, suspenseItems[t] = <<>>
               PROVE  \E q \in Procs : pc'[q] = "suspend" /\ item'[q].tx = t
    BY DEF SuspenseFundsListed
  <2>1. PICK q \in Procs : pc[q] = "suspend" /\ item[q].tx = t
    BY DEF SafetyInv, SuspenseFundsListed
  <2> QED
    BY <2>1 DEF Frame
<1>5. VerdictTruthful'
  BY DEF SafetyInv, VerdictTruthful
<1> QED
  BY <1>1, <1>2, <1>3, <1>4, <1>5 DEF SafetyInv

\* How the operators that move a process change its state.
LEMMA Moves ==
    ASSUME TypeInv, NEW p \in Procs
    PROVE  /\ Release(p) => Frame(p) /\ pc'[p] = "idle"
           /\ \A step : (Goto(p, step) /\ UNCHANGED item) =>
                  Frame(p) /\ pc'[p] = step /\ item'[p] = item[p]
           /\ \A verdict : Conclude(p, verdict) =>
                  /\ Frame(p)
                  /\ p = Worker => pc'[p] = verdict /\ item'[p] = item[p]
                  /\ p # Worker => pc'[p] = "idle"
<1>1. /\ pc \in [Procs -> Steps]
      /\ item \in [Procs -> EventRecord \cup {NoEvent}]
  BY DEF TypeInv, TypeOK
<1>2. Release(p) => Frame(p) /\ pc'[p] = "idle"
  BY <1>1 DEF Release, Goto, Frame
<1>3. ASSUME NEW step, Goto(p, step), UNCHANGED item
      PROVE  Frame(p) /\ pc'[p] = step /\ item'[p] = item[p]
  BY <1>1, <1>3 DEF Goto, Frame
<1>4. ASSUME NEW verdict, Conclude(p, verdict)
      PROVE  /\ Frame(p)
             /\ p = Worker => pc'[p] = verdict /\ item'[p] = item[p]
             /\ p # Worker => pc'[p] = "idle"
  BY <1>2, <1>3, <1>4 DEF Conclude
<1> QED
  BY <1>2, <1>3, <1>4

\* Nothing is claimed by a process that is idle, that has failed or that is
\* about to look for its event's account.
LEMMA NoClaim ==
    ASSUME NEW p \in Procs,
           pc'[p] \in {"idle", "failed", "check", "match", "relay"}
    PROVE  Claim(p)' /\ pc'[p] # "suspend"
BY DEF Claim

\* An event that reaches the post along a route has a positive amount.
LEMMA EntriesPositive ==
    ASSUME NEW e \in EventRecord, NEW r, Entries(e, r) # {}
    PROVE  e.amount > 0
<1>1. e.amount \in Int
  BY DEF EventRecord
<1> QED
  BY <1>1 DEF Entries, ReversalToSuspense, ReversalEntries, CreditSuspense,
              CreditCustomer, Transfer

\* The calls of the pipeline that write neither ledger nor items.
LEMMA QuietPipeline ==
    ASSUME TypeInv, SafetyInv, NEW p \in Procs,
           \/ MatchItem(p)
           \/ CheckMaxBalance(p)
           \/ CheckDailyCredit(p)
           \/ FindCollection(p)
           \/ FulfillCollection(p)
    PROVE  SafetyInv'
<1>0. faults \in Nat
  BY ReconAssumption DEF TypeInv, TypeOK
<1>1. Claim(p)
  BY DEF SafetyInv
<1>2. SUFFICES Frame(p) /\ pc'[p] # "suspend" /\ Claim(p)'
  <2>1. pc[p] # "suspend"
    BY DEF MatchItem, CheckMaxBalance, CheckDailyCredit, FindCollection,
           FulfillCollection
  <2>2. UNCHANGED <<ledger, suspenseItems, webhookEvents, crashes, faults>>
    BY DEF MatchItem, CheckMaxBalance, CheckDailyCredit, CheckLimit, FindCollection,
           FulfillCollection, ingest, posted
  <2> QED
    BY <1>0, <1>2, <2>1, <2>2, QuietMove
<1>3. CASE MatchItem(p)
  <2> DEFINE r == IF IsReversal(item[p]) THEN MatchReversal(item[p]) ELSE Match(item[p])
  <2>1. CASE Entries(item[p], r) = {}
    BY <1>3, <2>1, Moves, NoClaim DEF MatchItem, Abandon
  <2>2. CASE Entries(item[p], r) # {}
    <3>1. item[p] \in EventRecord
      BY <1>3 DEF MatchItem, TypeInv, ItemsPresent
    <3>2. item[p].amount > 0
      BY <2>2, <3>1, EntriesPositive
    <3>3. PICK step \in {"post", "tier"} : Goto(p, step) /\ UNCHANGED item
      BY <1>3, <2>2 DEF MatchItem
    <3>4. Frame(p) /\ pc'[p] = step /\ item'[p] = item[p]
      BY <3>3, Moves
    <3> QED
      BY <3>2, <3>4 DEF Claim
  <2> QED
    BY <2>1, <2>2
<1>4. CASE CheckMaxBalance(p) \/ CheckDailyCredit(p)
  <2>1. PICK step \in {"daily", "post"} : Goto(p, step) /\ UNCHANGED item
    BY <1>4 DEF CheckMaxBalance, CheckDailyCredit, CheckLimit
  <2>2. item[p].amount > 0
    BY <1>1, <1>4 DEF Claim, CheckMaxBalance, CheckDailyCredit
  <2>3. Frame(p) /\ pc'[p] = step /\ item'[p] = item[p]
    BY <2>1, Moves
  <2> QED
    BY <2>2, <2>3 DEF Claim
<1>5. CASE FindCollection(p) \/ FulfillCollection(p)
  <2>1. UNCHANGED ledger
    BY <1>5 DEF FindCollection, FulfillCollection, posted
  <2>2. p = Worker => PostedByWorker(item[p])
    BY <1>1, <1>5 DEF Claim, FindCollection, FulfillCollection
  <2>3. /\ Frame(p)
        /\ p = Worker => pc'[p] \in {"fulfill", "processed"} /\ item'[p] = item[p]
        /\ p # Worker => pc'[p] \in {"idle", "fulfill"}
    BY <1>5, Moves DEF FindCollection, FulfillCollection
  <2> QED
    BY <2>1, <2>2, <2>3 DEF Claim, PostedByWorker, IsReversal
<1> QED
  BY <1>3, <1>4, <1>5

\* The row a process posts has entries, and credits where its route points; a
\* reversal gives back to the settlement account.
LEMMA RowEntries ==
    ASSUME NEW p \in Procs, item[p] \in EventRecord, item[p].amount > 0
    PROVE  /\ Row(p).entries # {}
           /\ ~IsReversal(item[p]) => Credited(Row(p)) = {route[p].account}
           /\ IsReversal(item[p]) => Credited(Row(p)) = {Settlement}
<1> DEFINE amount == item[p].amount
           a == route[p].account
<1>1. amount \in Int /\ amount > 0
  BY DEF EventRecord
<1>2. Row(p).entries = Entries(item[p], route[p])
  BY DEF Row
<1>3. CASE IsReversal(item[p])
  <2>1. PICK dr : Row(p).entries = Transfer(dr, Settlement, amount)
    BY <1>2, <1>3 DEF Entries, ReversalToSuspense, ReversalEntries
  <2> HIDE DEF amount
  <2> QED
    BY <1>1, <1>3, <2>1, TransferCredits
<1>4. CASE ~IsReversal(item[p])
  <2>1. Row(p).entries = Transfer(Settlement, a, amount)
    BY <1>2, <1>4 DEF Entries, CreditSuspense, CreditCustomer
  <2> HIDE DEF amount
  <2> QED
    BY <1>1, <1>4, <2>1, TransferCredits
<1> QED
  BY <1>3, <1>4

\* A row without entries credits nobody.
LEMMA NothingCredited ==
    ASSUME NEW t \in TxIds, ~Exists(ledger, t)
    PROVE  Credited(ledger[t]) = {}
BY DEF Exists, GetTransaction, Credited

\* A process that stays where it is keeps its claims when the ledger grows.
LEMMA AppendClaims ==
    ASSUME TypeInv, SafetyInv, NEW q \in Procs, pc'[q] = pc[q], item'[q] = item[q],
           \A t \in TxIds : Exists(ledger, t) => ledger'[t] = ledger[t],
           UNCHANGED suspenseItems
    PROVE  Claim(q)'
<1>1. Claim(q)
  BY DEF SafetyInv
<1>2. pc[q] # "idle" => item[q].tx \in TxIds
  BY DEF TypeInv, ItemsPresent, EventRecord
<1>3. pc[q] = "suspend" => Exists(ledger, item[q].tx)
  BY <1>1, <1>2, NothingCredited DEF Claim
<1> QED
  BY <1>1, <1>2, <1>3
     DEF Claim, PostedByWorker, Exists, GetTransaction, IsReversal

\* The ledger grows by a row for t, and nothing else is written: the invariants
\* about items and verdicts survive, except for the new row itself.
LEMMA AppendKeeps ==
    ASSUME TypeInv, SafetyInv, NEW t0 \in TxIds, ~Exists(ledger, t0),
           \A t \in TxIds \ {t0} : ledger'[t] = ledger[t],
           UNCHANGED <<suspenseItems, webhookEvents>>
    PROVE  /\ AtMostOneSuspenseItem'
           /\ VerdictTruthful'
           /\ suspenseItems[t0] = <<>>
           /\ \A q \in Procs : pc[q] = "suspend" => item[q].tx # t0
<1>1. Credited(ledger[t0]) = {}
  BY NothingCredited
<1>2. suspenseItems[t0] = <<>>
  BY <1>1 DEF SafetyInv, AtMostOneSuspenseItem
<1>3. AtMostOneSuspenseItem'
  BY <1>2 DEF SafetyInv, AtMostOneSuspenseItem
<1>4. \A q \in Procs : pc[q] = "suspend" => item[q].tx # t0
  BY <1>1 DEF SafetyInv, Claim
<1>5. VerdictTruthful'
  <2> SUFFICES ASSUME NEW e \in Events
               PROVE  Exists(ledger, e.tx) =>
                          Exists(ledger', e.tx) /\ ledger'[e.tx] = ledger[e.tx]
    BY DEF SafetyInv, VerdictTruthful
  <2>1. e.tx \in TxIds
    BY ReconAssumption DEF EventRecord
  <2> QED
    BY <2>1 DEF Exists, GetTransaction
<1> QED
  BY <1>2, <1>3, <1>4, <1>5

\* A post, confirmed or not, that found the id free, and after which process p
\* either creates the suspense item or has failed.
LEMMA CreatedSafety ==
    ASSUME TypeInv, SafetyInv, NEW p \in Procs, pc[p] = "post",
           ~Exists(ledger, item[p].tx),
           ledger' = PostTransaction(ledger, item[p].tx, Row(p)),
           UNCHANGED <<suspenseItems, webhookEvents, crashes>>,
           Frame(p),
           p = Worker => item'[p] = item[p],
           pc'[p] = "suspend" => item'[p] = item[p],
           pc'[p] \in {"suspend", "find", "processed", "failed", "idle"},
           IF IsReversal(item[p]) THEN pc'[p] # "suspend"
           ELSE \/ pc'[p] = "suspend" <=> route[p].account = Suspense
                \/ pc'[p] # "suspend" /\ faults' # 0,
           faults \in Nat, faults' \in {faults, faults + 1}
    PROVE  SafetyInv'
<1> DEFINE t0 == item[p].tx
<1>1. /\ item[p] \in EventRecord
      /\ t0 \in TxIds
      /\ item[p].amount > 0
  BY DEF TypeInv, ItemsPresent, EventRecord, SafetyInv, Claim
<1>2. Row(p) \in Transaction /\ ledger \in [TxIds -> Transaction]
  BY <1>1, RowType DEF TypeInv, TypeOK, LocalType
<1>3. /\ ledger'[t0] = Row(p)
      /\ \A t \in TxIds \ {t0} : ledger'[t] = ledger[t]
      /\ \A t \in TxIds : Exists(ledger, t) => ledger'[t] = ledger[t]
  BY <1>1, <1>2, PostKeeps
<1>4. /\ AtMostOneSuspenseItem'
      /\ VerdictTruthful'
      /\ suspenseItems[t0] = <<>>
      /\ \A q \in Procs : pc[q] = "suspend" => item[q].tx # t0
  BY <1>1, <1>3, AppendKeeps
<1>5. /\ Row(p).entries # {}
      /\ ~IsReversal(item[p]) => Credited(Row(p)) = {route[p].account}
      /\ IsReversal(item[p]) => Credited(Row(p)) = {Settlement}
  BY <1>1, RowEntries
<1>6. Exclusive'
  BY <1>4 DEF SafetyInv, Exclusive, Frame
<1>7. \A q \in Procs : Claim(q)'
  <2>1. \A q \in Procs \ {p} : Claim(q)'
    BY <1>3, AppendClaims DEF Frame
  <2>2. Claim(p)'
    <3>1. pc'[p] = "suspend" => Credited(ledger'[t0]) = {Suspense}
      BY <1>3, <1>5
    <3>2. p = Worker => /\ Exists(ledger', t0)
                        /\ ledger'[t0].source = "webhook"
                        /\ ~IsReversal(item[p]) => ledger'[t0].direction = "credit"
      BY <1>3, <1>5 DEF Exists, GetTransaction, Row
    <3> QED
      BY <1>4, <3>1, <3>2 DEF Claim, PostedByWorker, IsReversal
  <2> QED
    BY <2>1, <2>2
<1>8. SuspenseFundsListed'
  <2> SUFFICES ASSUME NEW t \in TxIds, Credited(ledger'[t]) = {Suspense},
                      crashes = 0, faults' = 0, suspenseItems[t] = <<>>
               PROVE  \E q \in Procs : pc'[q] = "suspend" /\ item'[q].tx = t
    BY DEF SuspenseFundsListed
  <2>1. CASE t = t0
    BY <1>3, <1>5, <2>1, AccountsAssumption
  <2>2. CASE t # t0
    <3>1. PICK q \in Procs : pc[q] = "suspend" /\ item[q].tx = t
      BY <1>3, <2>2 DEF SafetyInv, SuspenseFundsListed
    <3> QED
      BY <3>1 DEF Frame
  <2> QED
    BY <2>1, <2>2
<1> QED
  BY <1>4, <1>6, <1>7, <1>8 DEF SafetyInv

\* A confirmed PostTransaction, whether it inserted the row or found one.
LEMMA PostSafety ==
    ASSUME TypeInv, SafetyInv, NEW p \in Procs, Post(p)
    PROVE  SafetyInv'
<1>0. /\ pc[p] = "post"
      /\ faults \in Nat
      /\ UNCHANGED <<suspenseItems, webhookEvents, crashes, faults>>
  BY ReconAssumption DEF Post, TypeInv, TypeOK, ingest
<1>1. CASE ~AssertBalanced(Row(p).entries)
  <2>1. UNCHANGED ledger /\ Conclude(p, "failed")
    BY <1>1 DEF Post, Abandon
  <2> QED
    BY <1>0, <2>1, Moves, NoClaim, QuietMove
<1>2. CASE AssertBalanced(Row(p).entries) /\ Exists(ledger, item[p].tx)
  <2>1. UNCHANGED ledger
    BY <1>2 DEF Post, PostTransaction
  <2>2. \/ IsReversal(item[p]) /\ Conclude(p, "processed")
        \/ ~IsReversal(item[p]) /\ Conclude(p, "ignored")
    BY <1>2 DEF Post, AfterPost
  <2>3. /\ Frame(p)
        /\ p = Worker => /\ item'[p] = item[p]
                         /\ \/ IsReversal(item[p]) /\ pc'[p] = "processed"
                            \/ pc'[p] = "ignored"
        /\ p # Worker => pc'[p] = "idle"
    BY <2>2, Moves
  <2>4. Claim(p)' /\ pc'[p] # "suspend"
    BY <1>2, <2>1, <2>3
       DEF Claim, PostedByWorker, IsReversal, Exists, GetTransaction
  <2> QED
    BY <1>0, <2>1, <2>3, <2>4, QuietMove
<1>3. CASE AssertBalanced(Row(p).entries) /\ ~Exists(ledger, item[p].tx)
  <2>1. ledger' = PostTransaction(ledger, item[p].tx, Row(p))
    BY <1>3 DEF Post
  <2>2. CASE IsReversal(item[p])
    <3>1. Conclude(p, "processed")
      BY <1>3, <2>2 DEF Post, AfterPost
    <3>2. /\ Frame(p)
          /\ p = Worker => item'[p] = item[p]
          /\ pc'[p] \in {"processed", "idle"}
      BY <3>1, Moves
    <3> QED
      BY <1>0, <1>3, <2>1, <2>2, <3>2, CreatedSafety
  <2>3. CASE ~IsReversal(item[p])
    <3> DEFINE step == IF route[p].account = Suspense THEN "suspend" ELSE "find"
    <3>1. Goto(p, step) /\ UNCHANGED item
      BY <1>3, <2>3 DEF Post, AfterPost
    <3>2. Frame(p) /\ pc'[p] = step /\ item'[p] = item[p]
      BY <3>1, Moves
    <3> QED
      BY <1>0, <1>3, <2>1, <2>3, <3>2, CreatedSafety
  <2> QED
    BY <2>2, <2>3
<1> QED
  BY <1>1, <1>2, <1>3

\* CreateSuspenseItem adds the first item of its transaction.
LEMMA CreateSuspenseItemSafety ==
    ASSUME TypeInv, SafetyInv, NEW p \in Procs, CreateSuspenseItem(p)
    PROVE  SafetyInv'
<1> DEFINE t0 == item[p].tx
<1>1. /\ pc[p] = "suspend"
      /\ t0 \in TxIds
      /\ UNCHANGED <<ledger, webhookEvents, crashes, faults>>
  BY DEF CreateSuspenseItem, TypeInv, ItemsPresent, EventRecord, ingest
<1>2. /\ suspenseItems[t0] = <<>>
      /\ Credited(ledger[t0]) = {Suspense}
      /\ p = Worker => PostedByWorker(item[p])
  BY <1>1 DEF SafetyInv, Claim
<1>3. suspenseItems' = [suspenseItems EXCEPT ![t0] = <<route[p].reason>>]
  BY <1>2 DEF CreateSuspenseItem
<1>4. /\ \A t \in TxIds \ {t0} : suspenseItems'[t] = suspenseItems[t]
      /\ suspenseItems'[t0] = <<route[p].reason>>
  BY <1>1, <1>3 DEF TypeInv, TypeOK
<1>5. /\ Frame(p)
      /\ p = Worker => pc'[p] = "processed" /\ item'[p] = item[p]
      /\ p # Worker => pc'[p] = "idle"
  BY Moves DEF CreateSuspenseItem
<1>6. \A q \in Procs : Claim(q)'
  <2>1. Claim(p)'
    BY <1>1, <1>2, <1>5 DEF Claim, PostedByWorker, IsReversal
  <2>2. ASSUME NEW q \in Procs \ {p} PROVE Claim(q)'
    <3>1. Claim(q) /\ pc'[q] = pc[q] /\ item'[q] = item[q]
      BY <1>5 DEF SafetyInv, Frame
    <3>2. pc[q] = "suspend" => item[q].tx \in TxIds \ {t0}
      BY <1>1 DEF SafetyInv, Exclusive, TypeInv, ItemsPresent, EventRecord
    <3> QED
      BY <1>1, <1>4, <3>1, <3>2 DEF Claim, PostedByWorker, IsReversal
  <2> QED
    BY <2>1, <2>2
<1>7. Exclusive'
  BY <1>5 DEF SafetyInv, Exclusive, Frame
<1>8. AtMostOneSuspenseItem'
  <2>1. Len(suspenseItems'[t0]) <= 1
    BY <1>4
  <2>2. ASSUME NEW t \in TxIds \ {t0}
        PROVE  /\ Len(suspenseItems'[t]) <= 1
               /\ suspenseItems'[t] # <<>> => Credited(ledger'[t]) = {Suspense}
    BY <1>1, <1>4 DEF SafetyInv, AtMostOneSuspenseItem
  <2>3. Credited(ledger'[t0]) = {Suspense}
    BY <1>1, <1>2
  <2>4. \A t \in TxIds :
            /\ Len(suspenseItems'[t]) <= 1
            /\ suspenseItems'[t] # <<>> => Credited(ledger'[t]) = {Suspense}
    <3> TAKE t \in TxIds
    <3>1. CASE t = t0
      BY <2>1, <2>3, <3>1
    <3>2. CASE t # t0
      BY <2>2, <3>2
    <3> QED
      BY <3>1, <3>2
  <2> QED
    BY <2>4 DEF AtMostOneSuspenseItem
<1>9. SuspenseFundsListed'
  <2> SUFFICES ASSUME NEW t \in TxIds, Credited(ledger[t]) = {Suspense},
                      crashes = 0, faults = 0, suspenseItems'[t] = <<>>
               PROVE  \E q \in Procs : pc'[q] = "suspend" /\ item'[q].tx = t
    BY <1>1 DEF SuspenseFundsListed
  <2>1. t # t0 /\ suspenseItems[t] = <<>>
    BY <1>4
  <2>2. PICK q \in Procs : pc[q] = "suspend" /\ item[q].tx = t
    BY <2>1 DEF SafetyInv, SuspenseFundsListed
  <2> QED
    BY <1>5, <2>1, <2>2 DEF Frame
<1>10. VerdictTruthful'
  BY <1>1 DEF SafetyInv, VerdictTruthful
<1> QED
  BY <1>6, <1>7, <1>8, <1>9, <1>10 DEF SafetyInv

\* The steps only the worker takes.  The mark is true because of the worker's
\* claim on the event it marks.
LEMMA WorkerSafety ==
    ASSUME TypeInv, SafetyInv, Dequeue \/ MarkWebhookProcessed \/ DispatchRelay
    PROVE  SafetyInv'
<1>0. Worker \in Procs /\ faults \in Nat
  BY ControlConstants, ReconAssumption DEF TypeInv, TypeOK
<1>1. CASE Dequeue
  <2>1. UNCHANGED <<ledger, suspenseItems, webhookEvents, crashes, faults>>
    BY <1>1 DEF Dequeue, posted
  <2>2. /\ pc[Worker] = "idle"
        /\ Frame(Worker)
        /\ item'[Worker] = Head(queue)
        /\ pc'[Worker] = IF Head(queue).type = "payment_failed" THEN "ignored" ELSE "match"
    BY <1>0, <1>1 DEF Dequeue, Goto, Frame, TypeInv, TypeOK
  <2>3. Claim(Worker)'
    BY <2>2 DEF Claim
  <2> QED
    BY <1>0, <2>1, <2>2, <2>3, QuietMove
<1>2. CASE DispatchRelay
  <2>1. UNCHANGED <<ledger, suspenseItems, webhookEvents, crashes, faults>>
    BY <1>2 DEF DispatchRelay, ingest
  <2> QED
    BY <1>0, <1>2, <2>1, Moves, NoClaim, QuietMove DEF DispatchRelay
<1>3. CASE MarkWebhookProcessed
  <2> DEFINE e0 == item[Worker]
  <2>1. /\ UNCHANGED <<ledger, suspenseItems, crashes, faults>>
        /\ pc[Worker] \in Verdicts
        /\ pc[Worker] # "suspend"
    BY <1>3 DEF MarkWebhookProcessed, posted, Verdicts
  <2>2. Frame(Worker) /\ pc'[Worker] \in {"idle", "relay"}
    BY <1>0, <1>3, Moves DEF MarkWebhookProcessed, AfterMark
  <2>3. \A q \in Procs : Claim(q)'
    BY <1>0, <2>1, <2>2, NoClaim DEF SafetyInv, Claim, PostedByWorker, IsReversal, Frame
  <2>4. Exclusive'
    BY <2>2 DEF SafetyInv, Exclusive, Frame
  <2>5. AtMostOneSuspenseItem'
    BY <2>1 DEF SafetyInv, AtMostOneSuspenseItem
  <2>6. SuspenseFundsListed'
    <3> SUFFICES ASSUME NEW t \in TxIds, Credited(ledger[t]) = {Suspense},
                        crashes = 0, faults = 0, suspenseItems[t] = <<>>
                 PROVE  \E q \in Procs : pc'[q] = "suspend" /\ item'[q].tx = t
      BY <2>1 DEF SuspenseFundsListed
    <3>1. PICK q \in Procs : pc[q] = "suspend" /\ item[q].tx = t
      BY DEF SafetyInv, SuspenseFundsListed
    <3> QED
      BY <2>1, <2>2, <3>1 DEF Frame
  <2>7. VerdictTruthful'
    <3>1. ASSUME NEW e \in Events, DedupeKey(e) # DedupeKey(e0)
          PROVE  webhookEvents'[DedupeKey(e)] = webhookEvents[DedupeKey(e)]
      BY <1>3, <3>1, KeyOfEvent DEF MarkWebhookProcessed, TypeInv, TypeOK
    <3>2. ASSUME NEW e \in Events, DedupeKey(e) = DedupeKey(e0)
          PROVE  /\ webhookEvents'[DedupeKey(e)] = pc[Worker]
                 /\ e.tx = e0.tx
                 /\ e.type = e0.type
      <4>1. DedupeKey(e) \in DedupeKeys
        BY KeyOfEvent
      <4> QED
        BY <1>3, <3>2, <4>1 DEF MarkWebhookProcessed, TypeInv, TypeOK, DedupeKey
    <3>3. Claim(Worker)
      BY <1>0 DEF SafetyInv
    <3> QED
      BY <1>0, <2>1, <3>1, <3>2, <3>3
         DEF SafetyInv, VerdictTruthful, Claim, PostedByWorker, IsReversal
  <2> QED
    BY <2>3, <2>4, <2>5, <2>6, <2>7 DEF SafetyInv
<1> QED
  BY <1>1, <1>2, <1>3

\* The steps only a sweep takes.
LEMMA SweepSafety ==
    ASSUME TypeInv, SafetyInv, NEW s \in Sweeps,
           ListTransactions(s) \/ SweepItem(s) \/ CheckExisting(s)
    PROVE  SafetyInv'
<1>0. s \in Procs /\ faults \in Nat
  BY ReconAssumption DEF Procs, TypeInv, TypeOK
<1>1. UNCHANGED <<ledger, suspenseItems, webhookEvents, crashes, faults>>
  BY DEF ListTransactions, SweepItem, CheckExisting, ingest, posted
<1>2. pc[s] \in {"idle", "check"}
  BY DEF ListTransactions, SweepItem, CheckExisting
<1>3. Frame(s) /\ pc'[s] \in {"idle", "check", "match"}
  <2>1. CASE ListTransactions(s)
    BY <1>2, <2>1 DEF ListTransactions, Frame
  <2>2. CASE SweepItem(s)
    BY <1>0, <2>2 DEF SweepItem, Goto, Frame, TypeInv, TypeOK
  <2>3. CASE CheckExisting(s)
    BY <1>0, <2>3, Moves DEF CheckExisting
  <2> QED
    BY <2>1, <2>2, <2>3
<1> QED
  BY <1>0, <1>1, <1>2, <1>3, NoClaim, QuietMove

\* Database errors and crashes.  A fault between the post and the suspense item
\* is what SuspenseFundsListed excludes; the others hold all the same.
LEMMA FailureSafety ==
    ASSUME TypeInv, SafetyInv, Failure
    PROVE  SafetyInv'
<1>0. Worker \in Procs /\ faults \in Nat /\ crashes \in Nat
  BY ControlConstants, ReconAssumption DEF TypeInv, TypeOK
<1>1. Fault => faults' = faults + 1 /\ faults' # 0
  BY <1>0 DEF Fault
<1>2. ASSUME NEW p \in Procs, CallFails(p) PROVE SafetyInv'
  <2>1. /\ UNCHANGED <<ledger, suspenseItems, webhookEvents, crashes>>
        /\ Conclude(p, "failed")
        /\ Fault
    BY <1>2 DEF CallFails, Abandon, ingest, posted
  <2>2. Frame(p) /\ pc'[p] \in {"failed", "idle"}
    BY <2>1, Moves
  <2> QED
    BY <1>0, <1>1, <2>1, <2>2, NoClaim, QuietMove
<1>3. ASSUME NEW p \in Procs, LookupFails(p) PROVE SafetyInv'
  <2>1. UNCHANGED <<ledger, suspenseItems, webhookEvents, crashes>> /\ Fault
    BY <1>3 DEF LookupFails, ingest, posted
  <2>2. CASE pc[p] = "tier" /\ Goto(p, "post") /\ UNCHANGED item
    <3>1. item[p].amount > 0
      BY <2>2 DEF SafetyInv, Claim
    <3>2. Frame(p) /\ pc'[p] = "post" /\ item'[p] = item[p]
      BY <2>2, Moves
    <3>3. Claim(p)'
      BY <3>1, <3>2 DEF Claim
    <3> QED
      BY <1>0, <1>1, <2>1, <3>2, <3>3, QuietMove
  <2>3. CASE Release(p)
    BY <1>0, <1>1, <2>1, <2>3, Moves, NoClaim, QuietMove
  <2> QED
    BY <1>3, <2>2, <2>3 DEF LookupFails
<1>4. ASSUME NEW p \in Procs, CommitUnconfirmed(p) PROVE SafetyInv'
  <2>1. /\ UNCHANGED <<suspenseItems, webhookEvents, crashes>>
        /\ Conclude(p, "failed")
        /\ Fault
        /\ pc[p] = "post"
        /\ ledger' = PostTransaction(ledger, item[p].tx, Row(p))
    BY <1>4 DEF CommitUnconfirmed, Abandon, ingest
  <2>2. /\ Frame(p)
        /\ pc'[p] \in {"failed", "idle"}
        /\ p = Worker => item'[p] = item[p]
    BY <2>1, Moves
  <2>3. CASE Exists(ledger, item[p].tx)
    <3>1. UNCHANGED ledger
      BY <2>1, <2>3 DEF PostTransaction
    <3> QED
      BY <1>0, <1>1, <2>1, <2>2, <3>1, NoClaim, QuietMove
  <2>4. CASE ~Exists(ledger, item[p].tx)
    BY <1>0, <1>1, <2>1, <2>2, <2>4, CreatedSafety
  <2> QED
    BY <2>3, <2>4
<1>5. ASSUME NEW p \in Procs, SideEffectFails(p) PROVE SafetyInv'
  <2>1. /\ UNCHANGED <<ledger, suspenseItems, webhookEvents, crashes>>
        /\ Conclude(p, "processed")
        /\ Fault
        /\ pc[p] \in {"suspend", "find", "fulfill"}
    BY <1>5 DEF SideEffectFails, ingest, posted
  <2>2. /\ Frame(p)
        /\ p = Worker => pc'[p] = "processed" /\ item'[p] = item[p]
        /\ p # Worker => pc'[p] = "idle"
    BY <2>1, Moves
  <2>3. Claim(p)' /\ pc'[p] # "suspend"
    BY <2>1, <2>2 DEF SafetyInv, Claim, PostedByWorker, IsReversal
  <2> QED
    BY <1>0, <1>1, <2>1, <2>2, <2>3, QuietMove
<1>6. CASE MarkFails
  <2>1. UNCHANGED <<ledger, suspenseItems, webhookEvents, crashes>> /\ Fault
    BY <1>6 DEF MarkFails, ingest, posted
  <2>2. Frame(Worker) /\ pc'[Worker] \in {"idle", "relay"}
    BY <1>0, <1>6, Moves DEF MarkFails, AfterMark
  <2> QED
    BY <1>0, <1>1, <2>1, <2>2, NoClaim, QuietMove
<1>7. CASE Crash
  <2>1. /\ UNCHANGED <<ledger, suspenseItems, webhookEvents>>
        /\ crashes' # 0
        /\ \A p \in Procs : pc'[p] = "idle"
    BY <1>0, <1>7 DEF Crash, posted
  <2>2. \A p \in Procs : Claim(p)'
    BY <2>1, NoClaim
  <2>3. Exclusive' /\ AtMostOneSuspenseItem' /\ SuspenseFundsListed'
    BY <2>1 DEF SafetyInv, Exclusive, AtMostOneSuspenseItem, SuspenseFundsListed
  <2>4. VerdictTruthful'
    BY <2>1 DEF SafetyInv, VerdictTruthful
  <2> QED
    BY <2>2, <2>3, <2>4 DEF SafetyInv
<1>8. ASSUME NEW e \in Events, InsertUnconfirmed(e) PROVE SafetyInv'
  <2>1. UNCHANGED <<ledger, suspenseItems, pc, item, crashes>> /\ Fault
    BY <1>8 DEF InsertUnconfirmed, posted, local
  <2>2. \A p \in Procs : Claim(p)'
    BY <2>1 DEF SafetyInv, Claim, PostedByWorker, IsReversal
  <2>3. Exclusive' /\ AtMostOneSuspenseItem' /\ SuspenseFundsListed'
    BY <1>1, <2>1 DEF SafetyInv, Exclusive, AtMostOneSuspenseItem, SuspenseFundsListed
  <2>4. \A k \in DedupeKeys : webhookEvents'[k] \in {webhookEvents[k], "received"}
    BY <1>8 DEF InsertUnconfirmed, TypeInv, TypeOK
  <2>5. VerdictTruthful'
    BY <2>1, <2>4, KeyOfEvent DEF SafetyInv, VerdictTruthful
  <2> QED
    BY <2>2, <2>3, <2>5 DEF SafetyInv
<1> QED
  BY <1>2, <1>3, <1>4, <1>5, <1>6, <1>7, <1>8 DEF Failure

\* Steps of no process.  A webhook stores its event as received, which is no
\* verdict.
LEMMA BystanderSafety ==
    ASSUME TypeInv, SafetyInv,
           \/ Environment
           \/ \E e \in Events : HandleNombaWebhook(e) \/ Enqueue(e)
           \/ UNCHANGED vars
    PROVE  SafetyInv'
<1>1. UNCHANGED <<ledger, suspenseItems, pc, item, crashes, faults>>
  BY DEF Environment, MakePayment, NextDay, CreateVirtualAccount, UpdateVAStatus, SetStatus,
         CreateCollection, CancelCollection, ExpireCollection, SetCollection,
         HandleNombaWebhook, Enqueue, posted, local, vars
<1>2. \A p \in Procs : Claim(p)'
  BY <1>1 DEF SafetyInv, Claim, PostedByWorker, IsReversal
<1>3. Exclusive' /\ AtMostOneSuspenseItem' /\ SuspenseFundsListed'
  BY <1>1 DEF SafetyInv, Exclusive, AtMostOneSuspenseItem, SuspenseFundsListed
<1>4. \A k \in DedupeKeys : webhookEvents'[k] \in {webhookEvents[k], "received"}
  BY DEF Environment, MakePayment, NextDay, CreateVirtualAccount, UpdateVAStatus, SetStatus,
         CreateCollection, CancelCollection, ExpireCollection, SetCollection,
         HandleNombaWebhook, Enqueue, ingest, vars, TypeInv, TypeOK
<1>5. VerdictTruthful'
  BY <1>1, <1>4, KeyOfEvent DEF SafetyInv, VerdictTruthful
<1> QED
  BY <1>2, <1>3, <1>5 DEF SafetyInv

\* Every step of the specification preserves the invariant of claims.
LEMMA SafetyStep == TypeInv /\ SafetyInv /\ [Next]_vars => SafetyInv'
<1> SUFFICES ASSUME TypeInv, SafetyInv, [Next]_vars PROVE SafetyInv'
  OBVIOUS
<1>1. ASSUME NEW p \in Procs, Pipeline(p) PROVE SafetyInv'
  BY <1>1, QuietPipeline, PostSafety, CreateSuspenseItemSafety DEF Pipeline
<1>2. CASE \/ Environment
           \/ \E e \in Events : HandleNombaWebhook(e) \/ Enqueue(e)
           \/ UNCHANGED vars
  BY <1>2, BystanderSafety
<1>3. CASE WorkerStep
  BY <1>1, <1>3, WorkerSafety, ControlConstants DEF WorkerStep
<1>4. CASE \E s \in Sweeps : ListTransactions(s) \/ SweepStep(s)
  BY <1>1, <1>4, SweepSafety DEF SweepStep, Procs
<1>5. CASE Failure
  BY <1>5, FailureSafety
<1> QED
  BY <1>2, <1>3, <1>4, <1>5 DEF Next

\* The inductive invariant behind the theorems that follow: what every process
\* knows at its next call about the rows that others may be writing.
THEOREM SafetyInvariant == Spec => [](TypeInv /\ SafetyInv)
BY TypeInit, TypeStep, SafetyInit, SafetyStep, PTL DEF Spec

\* However many sweeps and redeliveries race for a transaction, and whatever
\* fails, suspense lists it once at most, and only if its money is there.
THEOREM SuspenseItemUnique == Spec => []AtMostOneSuspenseItem
<1>1. SafetyInv => AtMostOneSuspenseItem
  BY DEF SafetyInv
<1> QED
  BY <1>1, SafetyInvariant, PTL

\* Without crashes and database errors, no money stays in suspense unlisted.
THEOREM SuspenseComplete == Spec => []SuspenseFundsListed
<1>1. SafetyInv => SuspenseFundsListed
  BY DEF SafetyInv
<1> QED
  BY <1>1, SafetyInvariant, PTL

\* A webhook event that says processed or ignored is right about the ledger,
\* across crashes and database errors.
THEOREM VerdictsTrue == Spec => []VerdictTruthful
<1>1. SafetyInv => VerdictTruthful
  BY DEF SafetyInv
<1> QED
  BY <1>1, SafetyInvariant, PTL
=============================================================================
