----------------------------- MODULE BooksProofs -----------------------------
(***************************************************************************)
(* Where the money of a payment went, which collections and relays it      *)
(* caused, and what the accounts add up to: theorems about Recon on top of *)
(* ReconProofs, for every set of events, processes, accounts and           *)
(* collections, and any number of crashes and database errors.             *)
(***************************************************************************)
EXTENDS ReconProofs

(***************************************************************************)
(* What a process knows of the payment it works on.  The payload of a      *)
(* webhook is the event; an item of a sweep is what the listing tells of   *)
(* one, without the account if the requery failed.                         *)
(***************************************************************************)
Source(p, e) ==
    /\ item[p].tx = e.tx
    /\ item[p].amount = e.amount
    /\ item[p].va = e.va \/ (item[p].va = NoVA /\ e.bare)
    /\ p = Worker => item[p] = e
    /\ p # Worker => item[p].type = "payment_success" /\ e.listed

\* The route of a credit is one that the status of the account has justified at
\* some moment since the payment was made.
Routed(p, e) ==
    ~IsReversal(item[p]) =>
        IF route[p].account = Suspense
        THEN Explains(e, route[p].reason)
        ELSE /\ e.va # NoVA
             /\ item[p].va = e.va
             /\ route[p].account = Owner[e.va]
             /\ since[e] \cap Open # {}

\* The steps between the choice of a route and the end of the item.
Wrote == {"suspend", "find", "fulfill", "relay", "processed"}
OnRoute == {"tier", "daily", "post"} \cup Wrote

Origin(p) ==
    pc[p] # "idle" =>
        \E e \in made : Source(p, e) /\ (pc[p] \in OnRoute => Routed(p, e))

\* A process that goes on after its post has written the row of its transaction;
\* from then on nobody else works on it.
Written(p) ==
    /\ pc[p] \in {"tier", "daily", "suspend", "find", "fulfill", "relay"} =>
           ~IsReversal(item[p])
    /\ (pc[p] \in Wrote /\ ~IsReversal(item[p])) =>
           item[p].amount > 0 /\ ledger[item[p].tx] = Row(p)
    /\ pc[p] = "suspend" => route[p].account = Suspense
    /\ pc[p] \in {"find", "fulfill"} => route[p].account # Suspense
    /\ pc[p] = "relay" => p = Worker
    /\ pc[p] \in {"find", "fulfill"} =>
           \A c \in Collections : collections[c].by # item[p].tx
    /\ pc[p] = "fulfill" => /\ found[p] \in Collections
                            /\ Request[found[p]].va = item[p].va
                            /\ Request[found[p]].amount \in {0, item[p].amount}

\* No two processes are past the post of the same transaction.
Alone ==
    \A p, q \in Procs :
        (/\ p # q
         /\ pc[p] \in {"suspend", "find", "fulfill"}
         /\ pc[q] \in {"suspend", "find", "fulfill"}) => item[p].tx # item[q].tx

\* What waits to be processed has been made by the provider.
IngestInv ==
    /\ handlers \subseteq made
    /\ \A i \in DOMAIN queue : queue[i] \in made
    /\ \A s \in Sweeps : \A e \in todo[s] : e \in made /\ e.listed

\* The history of an account's statuses is up to date.
Current == \A e \in made : StatusOf(e) \in since[e]

\* The payment a collection names is posted.
FulfillersPosted ==
    \A c \in Collections :
        collections[c].by # NoEvent => Exists(ledger, collections[c].by)

OriginInv ==
    /\ IngestInv
    /\ Current
    /\ \A p \in Procs : Origin(p) /\ Written(p)
    /\ Alone
    /\ FulfillersPosted

-----------------------------------------------------------------------------
(***************************************************************************)
(* The shapes of a step.  Every step of Next is a step of one process in   *)
(* one of these shapes, a crash, or a step of the surroundings, so that    *)
(* the invariants below need not look at the actions one by one.           *)
(***************************************************************************)

\* Only process p moves.
Others(p) ==
    /\ UNCHANGED <<made, since, vaStatus>>
    /\ \A q \in Procs \ {p} : /\ pc'[q] = pc[q]
                              /\ item'[q] = item[q]
                              /\ route'[q] = route[q]
                              /\ found'[q] = found[q]

\* It goes to a step with the item and the route it has.
Keeps(p, step) == pc'[p] = step /\ item'[p] = item[p] /\ route'[p] = route[p]

NothingPosted == UNCHANGED <<ledger, suspenseItems, collections, relayed>>

\* It takes up a payment.
Takes(p) ==
    /\ NothingPosted
    /\ pc[p] = "idle"
    /\ pc'[p] \in {"check", "match", "ignored"}
    /\ \E e \in made : Source(p, e)'

Looks(p) == NothingPosted /\ pc[p] = "check" /\ Keeps(p, "match")

\* It is done with its item, or has nothing left but the mark.
Ends(p) ==
    /\ NothingPosted
    /\ pc[p] # "idle"
    /\ \/ pc'[p] = "idle"
       \/ Keeps(p, "failed") \/ Keeps(p, "ignored")
       \/ /\ Keeps(p, "processed")
          /\ IsReversal(item[p]) \/ pc[p] \in {"suspend", "find", "fulfill"}

Matches(p) ==
    /\ NothingPosted
    /\ pc[p] = "match"
    /\ item'[p] = item[p]
    /\ route'[p] = IF IsReversal(item[p]) THEN MatchReversal(item[p]) ELSE Match(item[p])
    /\ \/ pc'[p] = "post" /\ (IsReversal(item[p]) \/ route'[p].account = Suspense)
       \/ pc'[p] = "tier" /\ ~IsReversal(item[p]) /\ route'[p].account # Suspense

Limits(p) ==
    /\ NothingPosted
    /\ pc[p] \in {"tier", "daily"}
    /\ item'[p] = item[p]
    /\ \/ pc'[p] \in {"daily", "post"} /\ route'[p] = route[p]
       \/ pc'[p] = "post" /\ route'[p] = ToSuspense("tier_limit")

\* It creates the row of its transaction.
Writes(p) ==
    /\ pc[p] = "post"
    /\ ~Exists(ledger, item[p].tx)
    /\ ledger' = PostTransaction(ledger, item[p].tx, Row(p))
    /\ UNCHANGED <<suspenseItems, collections, relayed>>
    /\ \/ pc'[p] = "idle"
       \/ Keeps(p, "failed")
       \/ Keeps(p, "processed") /\ IsReversal(item[p])
       \/ Keeps(p, "suspend") /\ ~IsReversal(item[p]) /\ route[p].account = Suspense
       \/ Keeps(p, "find") /\ ~IsReversal(item[p]) /\ route[p].account # Suspense

Lists(p) ==
    /\ pc[p] = "suspend"
    /\ suspenseItems' = [suspenseItems EXCEPT ![item[p].tx] = Append(@, route[p].reason)]
    /\ UNCHANGED <<ledger, collections, relayed>>
    /\ pc'[p] = "idle" \/ Keeps(p, "processed")

Finds(p) ==
    /\ NothingPosted
    /\ pc[p] = "find"
    /\ Keeps(p, "fulfill")
    /\ found'[p] \in FindOpenCollectionForVA(item[p])

Fulfils(p) ==
    /\ pc[p] = "fulfill"
    /\ collections' = Fulfilled(found[p], item[p].tx)
    /\ UNCHANGED <<ledger, suspenseItems, relayed>>
    /\ pc'[p] = "idle" \/ Keeps(p, "processed")

Marks(p) ==
    /\ NothingPosted
    /\ p = Worker
    /\ pc[p] = "processed"
    /\ ~IsReversal(item[p])
    /\ Keeps(p, "relay")

Dispatches(p) ==
    /\ pc[p] = "relay"
    /\ \/ UNCHANGED relayed
       \/ relayed' = relayed \cup {item[p]} /\ route[p].account # Suspense
    /\ UNCHANGED <<ledger, suspenseItems, collections>>
    /\ pc'[p] = "idle"

ProcessStep(p) ==
    /\ Others(p)
    /\ \/ Takes(p) \/ Looks(p) \/ Ends(p) \/ Matches(p) \/ Limits(p) \/ Writes(p)
       \/ Lists(p) \/ Finds(p) \/ Fulfils(p) \/ Marks(p) \/ Dispatches(p)

CrashStep ==
    /\ UNCHANGED <<made, since, vaStatus>>
    /\ NothingPosted
    /\ \A p \in Procs : pc'[p] = "idle"

\* A handler changes a collection nobody has fulfilled, and does not fulfil it.
CollectionEdit(c) ==
    /\ collections[c].status \in {"none", "open"}
    /\ \E row \in Collection :
           /\ row.status # "fulfilled"
           /\ row.by = collections[c].by
           /\ collections' = [collections EXCEPT ![c] = row]

\* The surroundings: payments are made, accounts change, webhooks arrive.
Outside ==
    /\ UNCHANGED <<ledger, suspenseItems, relayed, pc, item, route, found>>
    /\ made \subseteq made'
    /\ \A e \in made : since[e] \subseteq since'[e]
    /\ UNCHANGED collections \/ \E c \in Collections : CollectionEdit(c)

-----------------------------------------------------------------------------
\* How the operators that move a process change its state.
LEMMA Shifts ==
    ASSUME TypeInv, NEW p \in Procs
    PROVE  LET Rest == \A q \in Procs \ {p} : /\ pc'[q] = pc[q]
                                              /\ item'[q] = item[q]
                                              /\ route'[q] = route[q]
                                              /\ found'[q] = found[q]
           IN  /\ Release(p) => Rest /\ pc'[p] = "idle"
               /\ \A step : (Goto(p, step) /\ UNCHANGED <<item, route, found>>) =>
                      Rest /\ Keeps(p, step)
               /\ \A verdict : Conclude(p, verdict) =>
                      Rest /\ (Keeps(p, verdict) \/ pc'[p] = "idle")
BY DEF Release, Goto, Conclude, Keeps, TypeInv, TypeOK

\* Environment and ingestion.
LEMMA OutsideShape ==
    ASSUME TypeInv,
           \/ Environment
           \/ \E e \in Events : HandleNombaWebhook(e) \/ Enqueue(e) \/ InsertUnconfirmed(e)
           \/ \E s \in Sweeps : ListTransactions(s)
           \/ UNCHANGED vars
    PROVE  Outside
<1> USE DEF Outside, posted, local, provider, vars
<1>1. /\ made \subseteq Events
      /\ since \in [Events -> SUBSET (VAStatus \cup {Missing})]
      /\ collections \in [Collections -> Collection]
  BY DEF TypeInv, TypeOK
<1>2. ASSUME NEW e \in Events, MakePayment(e) PROVE Outside
  BY <1>1, <1>2 DEF MakePayment
<1>3. ASSUME NEW v \in VAs, NEW status, SetStatus(v, status) PROVE Outside
  BY <1>1, <1>3 DEF SetStatus
<1>4. ASSUME NEW c \in Collections,
             CreateCollection(c) \/ CancelCollection(c) \/ ExpireCollection(c)
      PROVE  Outside
  <2>1. UNCHANGED <<ledger, suspenseItems, relayed, pc, item, route, found, made, since>>
    BY <1>4 DEF CreateCollection, CancelCollection, ExpireCollection, SetCollection
  <2>2. CollectionEdit(c)
    BY <1>1, <1>4 DEF CreateCollection, CancelCollection, ExpireCollection, SetCollection,
       CollectionEdit, Collection
  <2> QED
    BY <2>1, <2>2
<1>7. CASE NextDay
  BY <1>7 DEF NextDay
<1>5. CASE Environment
  BY <1>2, <1>3, <1>4, <1>5, <1>7 DEF Environment, CreateVirtualAccount, UpdateVAStatus
<1>6. CASE ~Environment
  BY <1>6 DEF HandleNombaWebhook, Enqueue, InsertUnconfirmed, ListTransactions
<1> QED
  BY <1>5, <1>6

\* The calls of the pipeline.
LEMMA PipelineShape ==
    ASSUME TypeInv, NEW p \in Procs, Pipeline(p)
    PROVE  ProcessStep(p)
<1> USE DEF ProcessStep, Others, NothingPosted, posted, provider
<1>1. /\ pc \in [Procs -> Steps]
      /\ item \in [Procs -> EventRecord \cup {NoEvent}]
      /\ route \in [Procs -> Route]
      /\ found \in [Procs -> Collections \cup {NoCollection}]
  BY DEF TypeInv, TypeOK
<1>2. CASE MatchItem(p)
  <2> DEFINE r == IF IsReversal(item[p]) THEN MatchReversal(item[p]) ELSE Match(item[p])
  <2>1. CASE Entries(item[p], r) = {}
    <3>1. Conclude(p, "failed")
      BY <1>2, <2>1 DEF MatchItem, Abandon
    <3>2. Others(p) /\ Ends(p)
      BY <1>2, <3>1, Shifts DEF MatchItem, Ends
    <3> QED
      BY <3>2
  <2>2. CASE Entries(item[p], r) # {}
    <3>1. /\ route' = [route EXCEPT ![p] = r]
          /\ pc' = [pc EXCEPT ![p] = IF IsReversal(item[p]) \/ r.account = Suspense
                                     THEN "post" ELSE "tier"]
          /\ UNCHANGED <<item, found>>
          /\ pc[p] = "match"
          /\ UNCHANGED <<provider, vaStatus, posted>>
      BY <1>2, <2>2 DEF MatchItem, Goto
    <3> HIDE DEF r
    <3>2. Others(p) /\ NothingPosted
      BY <1>1, <3>1
    <3>3. /\ route'[p] = r /\ item'[p] = item[p]
          /\ pc'[p] = IF IsReversal(item[p]) \/ r.account = Suspense THEN "post" ELSE "tier"
      BY <1>1, <3>1
    <3>4. Matches(p)
      BY <3>1, <3>2, <3>3 DEF Matches, r
    <3> QED
      BY <3>2, <3>4
  <2> QED
    BY <2>1, <2>2
<1>3. ASSUME NEW breach \in BOOLEAN, NEW next \in {"daily", "post"}, CheckLimit(p, breach, next),
             pc[p] \in {"tier", "daily"}
      PROVE  Others(p) /\ Limits(p)
  BY <1>1, <1>3 DEF CheckLimit, Goto, Limits
<1>4. CASE CheckMaxBalance(p) \/ CheckDailyCredit(p)
  BY <1>3, <1>4, ReconAssumption DEF CheckMaxBalance, CheckDailyCredit, Breaches
<1>5. CASE Post(p)
  <2>0. pc[p] = "post" /\ UNCHANGED <<made, since, vaStatus, suspenseItems, collections, relayed>>
    BY <1>5 DEF Post
  <2>1. CASE ~AssertBalanced(Row(p).entries)
    <3>1. Conclude(p, "failed") /\ UNCHANGED ledger
      BY <1>5, <2>1 DEF Post, Abandon
    <3>2. Others(p) /\ Ends(p)
      BY <2>0, <3>1, Shifts DEF Ends
    <3> QED
      BY <3>2
  <2>2. CASE AssertBalanced(Row(p).entries) /\ Exists(ledger, item[p].tx)
    <3>1. UNCHANGED ledger
      BY <1>5, <2>2 DEF Post, PostTransaction
    <3>2. \/ IsReversal(item[p]) /\ Conclude(p, "processed")
          \/ Conclude(p, "ignored")
      BY <1>5, <2>2 DEF Post, AfterPost
    <3>3. Others(p) /\ Ends(p)
      BY <2>0, <3>1, <3>2, Shifts DEF Ends
    <3> QED
      BY <3>3
  <2>3. CASE AssertBalanced(Row(p).entries) /\ ~Exists(ledger, item[p].tx)
    <3>1. ledger' = PostTransaction(ledger, item[p].tx, Row(p))
      BY <1>5, <2>3 DEF Post
    <3>2. \/ IsReversal(item[p]) /\ Conclude(p, "processed")
          \/ /\ ~IsReversal(item[p])
             /\ route[p].account = Suspense
             /\ Goto(p, "suspend") /\ UNCHANGED <<item, route, found>>
          \/ /\ ~IsReversal(item[p])
             /\ route[p].account # Suspense
             /\ Goto(p, "find") /\ UNCHANGED <<item, route, found>>
      BY <1>5, <2>3 DEF Post, AfterPost
    <3>3. Others(p) /\ Writes(p)
      BY <2>0, <2>3, <3>1, <3>2, Shifts DEF Writes
    <3> QED
      BY <3>3
  <2> QED
    BY <2>1, <2>2, <2>3
<1>6. CASE CreateSuspenseItem(p)
  <2>1. Others(p) /\ Lists(p)
    BY <1>6, Shifts DEF CreateSuspenseItem, Lists
  <2> QED
    BY <2>1
<1>7. CASE FindCollection(p)
  <2>1. CASE FindOpenCollectionForVA(item[p]) = {}
    <3>1. Others(p) /\ Ends(p)
      BY <1>7, <2>1, Shifts DEF FindCollection, Ends
    <3> QED
      BY <3>1
  <2>2. CASE FindOpenCollectionForVA(item[p]) # {}
    <3>1. PICK c \in FindOpenCollectionForVA(item[p]) : found' = [found EXCEPT ![p] = c]
      BY <1>7, <2>2 DEF FindCollection
    <3>2. Others(p) /\ Finds(p)
      BY <1>1, <1>7, <2>2, <3>1 DEF FindCollection, Finds, Goto, Keeps
    <3> QED
      BY <3>2
  <2> QED
    BY <2>1, <2>2
<1>8. CASE FulfillCollection(p)
  <2>1. Others(p) /\ Fulfils(p)
    BY <1>8, Shifts DEF FulfillCollection, Fulfils
  <2> QED
    BY <2>1
<1> QED
  BY <1>2, <1>4, <1>5, <1>6, <1>7, <1>8 DEF Pipeline

\* The steps only the worker takes.
LEMMA WorkerShape ==
    ASSUME TypeInv, IngestInv, Dequeue \/ MarkWebhookProcessed \/ DispatchRelay
    PROVE  ProcessStep(Worker)
<1> USE DEF ProcessStep, Others, NothingPosted, posted, provider
<1>0. /\ Worker \in Procs
      /\ pc \in [Procs -> Steps]
      /\ item \in [Procs -> EventRecord \cup {NoEvent}]
      /\ queue \in Seq(Events) /\ made \subseteq Events
  BY ControlConstants DEF TypeInv, TypeOK
<1>1. CASE Dequeue
  <2>1. /\ pc[Worker] = "idle"
        /\ queue # <<>>
        /\ item'[Worker] = Head(queue)
        /\ pc'[Worker] \in {"match", "ignored"}
        /\ Others(Worker)
        /\ NothingPosted
    BY <1>0, <1>1 DEF Dequeue, Goto
  <2>2. 1 \in DOMAIN queue /\ Head(queue) = queue[1]
    BY <1>0, <2>1
  <2>3. Head(queue) \in made
    BY <2>2 DEF IngestInv
  <2>4. \E e \in made : Source(Worker, e)'
    BY <2>1, <2>3 DEF Source
  <2> QED
    BY <2>1, <2>4 DEF Takes
<1>2. ASSUME AfterMark, pc[Worker] \in Verdicts,
             UNCHANGED <<made, since, vaStatus, ledger, suspenseItems, collections, relayed>>
      PROVE  ProcessStep(Worker)
  <2>1. CASE /\ Goto(Worker, "relay") /\ UNCHANGED <<item, route, found>>
             /\ pc[Worker] = "processed" /\ ~IsReversal(item[Worker])
    <3>1. Others(Worker) /\ Marks(Worker)
      BY <1>0, <1>2, <2>1, Shifts DEF Marks
    <3> QED
      BY <3>1
  <2>2. CASE Release(Worker)
    <3>1. Others(Worker) /\ Ends(Worker)
      BY <1>0, <1>2, <2>2, Shifts DEF Ends, Verdicts
    <3> QED
      BY <3>1
  <2> QED
    BY <1>2, <2>1, <2>2 DEF AfterMark
<1>3. CASE MarkWebhookProcessed
  BY <1>2, <1>3 DEF MarkWebhookProcessed
<1>4. CASE DispatchRelay
  <2>1. Others(Worker) /\ Dispatches(Worker)
    BY <1>0, <1>4, Shifts DEF DispatchRelay, Dispatches, CustomerID
  <2> QED
    BY <2>1
<1> QED
  BY <1>1, <1>3, <1>4

\* The steps only a sweep takes.
LEMMA SweepShape ==
    ASSUME TypeInv, IngestInv, NEW s \in Sweeps, SweepItem(s) \/ CheckExisting(s)
    PROVE  ProcessStep(s)
<1> USE DEF ProcessStep, Others, NothingPosted, posted, provider
<1>0. /\ s \in Procs /\ s # Worker
      /\ pc \in [Procs -> Steps]
      /\ item \in [Procs -> EventRecord \cup {NoEvent}]
      /\ made \subseteq EventRecord
  BY ReconAssumption DEF TypeInv, TypeOK, Procs
<1>1. CASE SweepItem(s)
  <2>1. PICK e \in todo[s], identified \in BOOLEAN :
            /\ ~identified => e.bare
            /\ item' = [item EXCEPT ![s] = BuildWorkItem(e, identified)]
    BY <1>1 DEF SweepItem
  <2>2. e \in made /\ e \in EventRecord /\ e.listed
    BY <1>0 DEF IngestInv
  <2>3. /\ item'[s] = BuildWorkItem(e, identified)
        /\ pc[s] = "idle" /\ pc'[s] = "check"
        /\ Others(s) /\ NothingPosted
    BY <1>0, <1>1, <2>1 DEF SweepItem, Goto
  <2>4. /\ item'[s].tx = e.tx /\ item'[s].amount = e.amount
        /\ item'[s].type = "payment_success"
        /\ item'[s].va = IF identified THEN e.va ELSE NoVA
    BY <2>2, <2>3 DEF BuildWorkItem, EventRecord
  <2>5. \E f \in made : Source(s, f)'
    BY <1>0, <2>1, <2>2, <2>4 DEF Source
  <2> QED
    BY <2>3, <2>5 DEF Takes
<1>2. CASE CheckExisting(s)
  <2>1. CASE Release(s)
    <3>1. Others(s) /\ Ends(s)
      BY <1>0, <1>2, <2>1, Shifts DEF CheckExisting, Ends
    <3> QED
      BY <3>1
  <2>2. CASE Goto(s, "match") /\ UNCHANGED <<item, route, found>>
    <3>1. Others(s) /\ Looks(s)
      BY <1>0, <1>2, <2>2, Shifts DEF CheckExisting, Looks
    <3> QED
      BY <3>1
  <2> QED
    BY <1>2, <2>1, <2>2 DEF CheckExisting
<1> QED
  BY <1>1, <1>2

\* Database errors and crashes.
LEMMA FailureShape ==
    ASSUME TypeInv, IngestInv, Failure
    PROVE  Outside \/ CrashStep \/ \E p \in Procs : ProcessStep(p)
<1> USE DEF Others, NothingPosted, posted, provider
<1>0. Worker \in Procs /\ pc \in [Procs -> Steps]
  BY ControlConstants DEF TypeInv, TypeOK
<1>1. ASSUME NEW p \in Procs, CallFails(p) PROVE ProcessStep(p)
  <2>1. Others(p) /\ Ends(p)
    BY <1>1, Shifts DEF CallFails, Abandon, Ends
  <2> QED
    BY <2>1 DEF ProcessStep
<1>2. ASSUME NEW p \in Procs, LookupFails(p) PROVE ProcessStep(p)
  <2>1. CASE pc[p] = "tier" /\ Goto(p, "post") /\ UNCHANGED <<item, route, found>>
    <3>1. Others(p) /\ Limits(p)
      BY <1>2, <2>1, Shifts DEF LookupFails, Limits, Keeps
    <3> QED
      BY <3>1 DEF ProcessStep
  <2>2. CASE pc[p] = "relay" /\ Release(p)
    <3>1. Others(p) /\ Ends(p)
      BY <1>2, <2>2, Shifts DEF LookupFails, Ends
    <3> QED
      BY <3>1 DEF ProcessStep
  <2> QED
    BY <1>2, <2>1, <2>2 DEF LookupFails
<1>3. ASSUME NEW p \in Procs, CommitUnconfirmed(p) PROVE ProcessStep(p)
  <2>0. /\ Conclude(p, "failed") /\ pc[p] = "post"
        /\ ledger' = PostTransaction(ledger, item[p].tx, Row(p))
        /\ UNCHANGED <<made, since, vaStatus, suspenseItems, collections, relayed>>
    BY <1>3 DEF CommitUnconfirmed, Abandon
  <2>1. CASE Exists(ledger, item[p].tx)
    <3>1. UNCHANGED ledger
      BY <2>0, <2>1 DEF PostTransaction
    <3>2. Others(p) /\ Ends(p)
      BY <2>0, <3>1, Shifts DEF Ends
    <3> QED
      BY <3>2 DEF ProcessStep
  <2>2. CASE ~Exists(ledger, item[p].tx)
    <3>1. Others(p) /\ Writes(p)
      BY <2>0, <2>2, Shifts DEF Writes
    <3> QED
      BY <3>1 DEF ProcessStep
  <2> QED
    BY <2>1, <2>2
<1>4. ASSUME NEW p \in Procs, SideEffectFails(p) PROVE ProcessStep(p)
  <2>1. Others(p) /\ Ends(p)
    BY <1>4, Shifts DEF SideEffectFails, Ends
  <2> QED
    BY <2>1 DEF ProcessStep
<1>5. CASE MarkFails
  <2>0. UNCHANGED <<made, since, vaStatus, ledger, suspenseItems, collections, relayed>>
    BY <1>5 DEF MarkFails
  <2>1. CASE /\ Goto(Worker, "relay") /\ UNCHANGED <<item, route, found>>
             /\ pc[Worker] = "processed" /\ ~IsReversal(item[Worker])
    <3>1. Others(Worker) /\ Marks(Worker)
      BY <1>0, <2>0, <2>1, Shifts DEF Marks
    <3> QED
      BY <1>0, <3>1 DEF ProcessStep
  <2>2. CASE Release(Worker)
    <3>1. Others(Worker) /\ Ends(Worker)
      BY <1>0, <1>5, <2>0, <2>2, Shifts DEF MarkFails, Ends, Verdicts
    <3> QED
      BY <1>0, <3>1 DEF ProcessStep
  <2> QED
    BY <1>5, <2>1, <2>2 DEF MarkFails, AfterMark
<1>6. CASE Crash
  BY <1>6 DEF Crash, CrashStep
<1>7. CASE \E e \in Events : InsertUnconfirmed(e)
  BY <1>7, OutsideShape
<1> QED
  BY <1>1, <1>2, <1>3, <1>4, <1>5, <1>6, <1>7 DEF Failure

\* Every step has a shape.
LEMMA Shapes ==
    ASSUME TypeInv, IngestInv, [Next]_vars
    PROVE  Outside \/ CrashStep \/ \E p \in Procs : ProcessStep(p)
<1>1. CASE WorkerStep
  BY <1>1, WorkerShape, PipelineShape, ControlConstants DEF WorkerStep
<1>2. CASE \E s \in Sweeps : SweepStep(s)
  <2>1. PICK s \in Sweeps : SweepStep(s)
    BY <1>2
  <2>2. s \in Procs
    BY DEF Procs
  <2> QED
    BY <2>1, <2>2, SweepShape, PipelineShape DEF SweepStep
<1>3. CASE Failure
  BY <1>3, FailureShape
<1>4. CASE \/ Environment
           \/ \E e \in Events : HandleNombaWebhook(e) \/ Enqueue(e)
           \/ \E s \in Sweeps : ListTransactions(s)
           \/ UNCHANGED vars
  BY <1>4, OutsideShape
<1> QED
  BY <1>1, <1>2, <1>3, <1>4 DEF Next

-----------------------------------------------------------------------------
(* Events and statuses.                                                    *)

\* What is stored, queued or listed has been made.
LEMMA IngestStep ==
    ASSUME TypeInv, IngestInv, [Next]_vars
    PROVE  IngestInv'
<1>0. /\ queue \in Seq(Events) /\ todo \in [Sweeps -> SUBSET Events]
      /\ made \subseteq Events /\ handlers \subseteq Events
  BY DEF TypeInv, TypeOK
<1>1. made \subseteq made'
  BY Shapes DEF Outside, CrashStep, ProcessStep, Others
<1>2. handlers' \subseteq handlers \cup made
  BY DEF Next, vars, ingest, Environment, MakePayment, NextDay, CreateVirtualAccount, UpdateVAStatus,
     SetStatus, CreateCollection, CancelCollection, ExpireCollection, SetCollection,
     HandleNombaWebhook, Enqueue, WorkerStep, Dequeue, Pipeline, MatchItem, CheckMaxBalance,
     CheckDailyCredit, CheckLimit, Post, CreateSuspenseItem, FindCollection,
     FulfillCollection, MarkWebhookProcessed, DispatchRelay, ListTransactions, SweepStep,
     SweepItem, CheckExisting, Failure, CallFails, LookupFails, CommitUnconfirmed,
     InsertUnconfirmed, SideEffectFails, MarkFails, Crash
<1>3. \/ UNCHANGED queue
      \/ queue' = <<>>
      \/ queue # <<>> /\ queue' = Tail(queue)
      \/ \E e \in handlers : queue' = Append(queue, e)
  BY DEF Next, vars, ingest, Environment, MakePayment, NextDay, CreateVirtualAccount, UpdateVAStatus,
     SetStatus, CreateCollection, CancelCollection, ExpireCollection, SetCollection,
     HandleNombaWebhook, Enqueue, WorkerStep, Dequeue, Pipeline, MatchItem, CheckMaxBalance,
     CheckDailyCredit, CheckLimit, Post, CreateSuspenseItem, FindCollection,
     FulfillCollection, MarkWebhookProcessed, DispatchRelay, ListTransactions, SweepStep,
     SweepItem, CheckExisting, Failure, CallFails, LookupFails, CommitUnconfirmed,
     InsertUnconfirmed, SideEffectFails, MarkFails, Crash
<1>4. ASSUME NEW i \in DOMAIN queue' PROVE queue'[i] \in made
  <2>1. CASE UNCHANGED queue
    BY <1>4, <2>1 DEF IngestInv
  <2>2. CASE queue' = <<>>
    BY <1>4, <2>2
  <2>3. CASE queue # <<>> /\ queue' = Tail(queue)
    <3>1. i + 1 \in DOMAIN queue /\ queue'[i] = queue[i + 1]
      BY <1>0, <1>4, <2>3
    <3> QED
      BY <3>1 DEF IngestInv
  <2>4. ASSUME NEW e \in handlers, queue' = Append(queue, e) PROVE queue'[i] \in made
    <3>1. \/ i \in DOMAIN queue /\ queue'[i] = queue[i]
          \/ queue'[i] = e
      BY <1>0, <1>4, <2>4
    <3> QED
      BY <3>1 DEF IngestInv
  <2> QED
    BY <1>3, <2>1, <2>2, <2>3, <2>4
<1>5. ASSUME NEW s \in Sweeps
      PROVE  \A e \in todo'[s] : e \in todo[s] \/ (e \in made /\ e.listed)
  BY <1>0 DEF Next, vars, local, Environment, MakePayment, NextDay, CreateVirtualAccount,
     UpdateVAStatus, SetStatus, CreateCollection, CancelCollection, ExpireCollection,
     SetCollection, HandleNombaWebhook, Enqueue, WorkerStep, Dequeue, Pipeline, MatchItem,
     CheckMaxBalance, CheckDailyCredit, CheckLimit, Post, CreateSuspenseItem,
     FindCollection, FulfillCollection, MarkWebhookProcessed, DispatchRelay,
     ListTransactions, SweepStep, SweepItem, CheckExisting, Failure, CallFails,
     LookupFails, CommitUnconfirmed, InsertUnconfirmed, SideEffectFails, MarkFails, Crash
<1> QED
  BY <1>1, <1>2, <1>4, <1>5 DEF IngestInv

\* The status of an account is in the history of the payments into it.
LEMMA CurrentStep ==
    ASSUME TypeInv, Current, [Next]_vars
    PROVE  Current'
<1>0. /\ made \subseteq Events
      /\ since \in [Events -> SUBSET (VAStatus \cup {Missing})]
      /\ vaStatus \in [VAs -> VAStatus \cup {Missing}]
      /\ \A e \in Events : e.va \in VAs \cup {NoVA}
  BY ReconAssumption DEF TypeInv, TypeOK, EventRecord
<1>1. ASSUME NEW e \in Events, MakePayment(e) PROVE Current'
  BY <1>0, <1>1 DEF MakePayment, Current, StatusOf
<1>2. ASSUME NEW v \in VAs, NEW status, SetStatus(v, status) PROVE Current'
  BY <1>0, <1>2, ReconAssumption DEF SetStatus, Current, StatusOf
<1>3. CASE UNCHANGED <<made, since, vaStatus>>
  BY <1>3 DEF Current, StatusOf
<1>4. \/ \E e \in Events : MakePayment(e)
      \/ \E v \in VAs : \E status \in StatusUpdates \cup {"ACTIVE"} : SetStatus(v, status)
      \/ UNCHANGED <<made, since, vaStatus>>
  BY DEF Next, vars, provider, Environment, NextDay, CreateVirtualAccount, UpdateVAStatus,
     CreateCollection, CancelCollection, ExpireCollection, SetCollection,
     HandleNombaWebhook, Enqueue, WorkerStep, Dequeue, Pipeline, MatchItem,
     CheckMaxBalance, CheckDailyCredit, CheckLimit, Post, CreateSuspenseItem,
     FindCollection, FulfillCollection, MarkWebhookProcessed, DispatchRelay,
     ListTransactions, SweepStep, SweepItem, CheckExisting, Failure, CallFails,
     LookupFails, CommitUnconfirmed, InsertUnconfirmed, SideEffectFails, MarkFails, Crash
<1> QED
  BY <1>1, <1>2, <1>3, <1>4

\* Payments and their histories only grow.
LEMMA HistoryGrows ==
    ASSUME TypeInv, IngestInv, [Next]_vars
    PROVE  made \subseteq made' /\ \A e \in made : since[e] \subseteq since'[e]
BY Shapes DEF Outside, CrashStep, ProcessStep, Others

-----------------------------------------------------------------------------
(* The process and its payment.                                            *)

\* A route that was justified stays so.
LEMMA RoutedStays ==
    ASSUME NEW p, NEW e, Routed(p, e), since[e] \subseteq since'[e],
           item'[p] = item[p], route'[p] = route[p]
    PROVE  Routed(p, e)'
BY DEF Routed, Explains, IsReversal

\* A process with its item and its route has the same row to write.
LEMMA RowStays ==
    ASSUME NEW p, item'[p] = item[p], route'[p] = route[p]
    PROVE  Row(p)' = Row(p)
BY DEF Row, Entries, IsReversal

\* A row that was written by a process exists.
LEMMA WrittenExists ==
    ASSUME TypeInv, OriginInv, NEW p \in Procs, pc[p] \in Wrote, ~IsReversal(item[p])
    PROVE  /\ item[p] \in EventRecord /\ item[p].tx \in TxIds
           /\ item[p].amount \in Int /\ item[p].amount > 0
           /\ ledger[item[p].tx] = Row(p)
           /\ Exists(ledger, item[p].tx)
<1>1. item[p] \in EventRecord
  BY DEF TypeInv, ItemsPresent, Wrote
<1>2. item[p].tx \in TxIds /\ item[p].amount \in Int
  BY <1>1 DEF EventRecord
<1>3. item[p].amount > 0 /\ ledger[item[p].tx] = Row(p)
  BY DEF OriginInv, Written
<1>4. Row(p).entries # {}
  BY <1>1, <1>3, RowEntries
<1> QED
  BY <1>1, <1>2, <1>3, <1>4 DEF Exists, GetTransaction

\* Who does not move keeps what it knows.
LEMMA StandersKeep ==
    ASSUME TypeInv, OriginInv, [Next]_vars, NEW q \in Procs,
           pc'[q] = pc[q], item'[q] = item[q], route'[q] = route[q], found'[q] = found[q],
           pc[q] \in {"find", "fulfill"} =>
               \A c \in Collections : collections'[c].by # item[q].tx
    PROVE  Origin(q)' /\ Written(q)'
<1>1. made \subseteq made' /\ \A e \in made : since[e] \subseteq since'[e]
  BY HistoryGrows DEF OriginInv
<1>2. Origin(q)'
  <2>1. CASE pc[q] = "idle"
    BY <2>1 DEF Origin
  <2>2. CASE pc[q] # "idle"
    <3>1. PICK e \in made : Source(q, e) /\ (pc[q] \in OnRoute => Routed(q, e))
      BY <2>2 DEF OriginInv, Origin
    <3>2. Source(q, e)'
      BY <3>1 DEF Source
    <3>3. pc[q] \in OnRoute => Routed(q, e)'
      BY <1>1, <3>1, RoutedStays
    <3> QED
      BY <1>1, <3>2, <3>3 DEF Origin
  <2> QED
    BY <2>1, <2>2
<1>3. Written(q)'
  <2>1. Written(q)
    BY DEF OriginInv
  <2>2. Row(q)' = Row(q)
    BY RowStays
  <2>3. (pc[q] \in Wrote /\ ~IsReversal(item[q])) =>
            ledger'[item[q].tx] = ledger[item[q].tx]
    BY WrittenExists, LedgerKeeps
  <2> QED
    BY <2>1, <2>2, <2>3 DEF Written, IsReversal, Wrote
<1> QED
  BY <1>2, <1>3

\* The matcher looks at a status the account has had since the payment.
LEMMA MatchRouted ==
    ASSUME TypeInv, OriginInv, NEW p \in Procs, pc[p] = "match", NEW e \in made, Source(p, e),
           item'[p] = item[p], UNCHANGED since,
           route'[p] = IF IsReversal(item[p]) THEN MatchReversal(item[p]) ELSE Match(item[p])
    PROVE  Routed(p, e)'
<1> SUFFICES ASSUME ~IsReversal(item[p]) PROVE Routed(p, e)'
  BY DEF Routed, IsReversal
<1>1. route'[p] = Match(item[p])
  OBVIOUS
<1>2. /\ e \in Events /\ e.va \in VAs \cup {NoVA} /\ since[e] \subseteq VAStatus \cup {Missing}
      /\ StatusOf(e) \in since[e]
  BY ReconAssumption DEF OriginInv, Current, TypeInv, TypeOK, EventRecord
<1>3. item[p].va = e.va \/ (item[p].va = NoVA /\ e.bare)
  BY DEF Source
<1>4. CASE item[p].va = NoVA
  <2>1. StatusOf(item[p]) = Missing
    BY <1>4 DEF StatusOf
  <2>2. route'[p] = ToSuspense("unmatched")
    BY <1>1, <2>1 DEF Match, Missing
  <2>3. Missing \in since[e] \/ e.bare
    BY <1>2, <1>3, <1>4 DEF StatusOf
  <2> QED
    BY <2>2, <2>3 DEF Routed, Explains, ToSuspense
<1>5. CASE item[p].va # NoVA
  <2>1. item[p].va = e.va /\ e.va \in VAs /\ StatusOf(item[p]) = StatusOf(e)
    BY <1>2, <1>3, <1>5 DEF StatusOf
  <2>2. CASE StatusOf(e) = Missing
    <3>1. route'[p] = ToSuspense("unmatched")
      BY <1>1, <2>1, <2>2 DEF Match, Missing
    <3> QED
      BY <1>2, <2>2, <3>1 DEF Routed, Explains, ToSuspense
  <2>3. CASE StatusOf(e) = "CLOSED"
    <3>1. route'[p] = ToSuspense("closed_account")
      BY <1>1, <2>1, <2>3 DEF Match, Missing
    <3> QED
      BY <1>2, <2>3, <3>1 DEF Routed, Explains, ToSuspense
  <2>4. CASE StatusOf(e) = "SUSPENDED"
    <3>1. route'[p] = ToSuspense("suspended_account")
      BY <1>1, <2>1, <2>4 DEF Match, Missing
    <3> QED
      BY <1>2, <2>4, <3>1 DEF Routed, Explains, ToSuspense
  <2>5. CASE StatusOf(e) \notin {Missing, "CLOSED", "SUSPENDED"}
    <3>1. route'[p] = ToWallet(Owner[e.va])
      BY <1>1, <2>1, <2>5 DEF Match
    <3>2. StatusOf(e) \in Open
      BY <1>2, <2>5 DEF VAStatus, Open
    <3>3. Owner[e.va] # Suspense
      BY <2>1, ReconAssumption, AccountsAssumption
    <3> QED
      BY <1>2, <1>5, <2>1, <3>1, <3>2, <3>3 DEF Routed, ToWallet
  <2> QED
    BY <2>2, <2>3, <2>4, <2>5
<1> QED
  BY <1>4, <1>5

\* Whoever moves knows the payment it works on.
LEMMA MoverOrigin ==
    ASSUME TypeInv, OriginInv, NEW p \in Procs, ProcessStep(p)
    PROVE  Origin(p)'
<1> USE DEF ProcessStep, Others
<1>1. CASE Takes(p)
  BY <1>1 DEF Takes, Origin, OnRoute, Wrote
<1>2. CASE pc'[p] = "idle"
  BY <1>2 DEF Origin
<1>3. CASE ~Takes(p) /\ pc'[p] # "idle"
  <2>1. pc[p] # "idle" /\ item'[p] = item[p]
    BY <1>3 DEF Looks, Ends, Matches, Limits, Writes, Lists, Finds, Fulfils, Marks,
       Dispatches, Keeps
  <2>2. PICK e \in made : Source(p, e) /\ (pc[p] \in OnRoute => Routed(p, e))
    BY <2>1 DEF OriginInv, Origin
  <2>3. Source(p, e)'
    BY <2>1, <2>2 DEF Source
  <2>4. ASSUME pc'[p] \in OnRoute PROVE Routed(p, e)'
    <3>1. CASE Matches(p)
      BY <2>2, <3>1, MatchRouted DEF Matches
    <3>2. CASE Limits(p)
      <4>1. /\ pc[p] \in {"tier", "daily"} /\ Routed(p, e)
            /\ route[p].account # Suspense /\ ~IsReversal(item[p])
        BY <2>2, <3>2 DEF Limits, OnRoute, OriginInv, Written, TypeInv, RoutesExplained
      <4>2. since[e] \cap Open # {}
        BY <4>1 DEF Routed
      <4>3. CASE route'[p] = route[p]
        BY <2>1, <4>1, <4>3, RoutedStays
      <4>4. CASE route'[p] = ToSuspense("tier_limit")
        BY <2>1, <4>2, <4>4 DEF Routed, ToSuspense, Explains
      <4> QED
        BY <3>2, <4>3, <4>4 DEF Limits
    <3>3. CASE ~Matches(p) /\ ~Limits(p)
      <4>1. \/ IsReversal(item[p])
            \/ route'[p] = route[p] /\ pc[p] \in OnRoute
        BY <1>3, <2>4, <3>3 DEF Looks, Ends, Writes, Lists, Finds, Fulfils, Marks,
           Dispatches, Keeps, OnRoute, Wrote
      <4> QED
        BY <2>1, <2>2, <4>1, RoutedStays DEF Routed, IsReversal
    <3> QED
      BY <3>1, <3>2, <3>3
  <2> QED
    BY <2>2, <2>3, <2>4 DEF Origin
<1> QED
  BY <1>1, <1>2, <1>3

\* The row a process creates, and the others.
LEMMA WriteFacts ==
    ASSUME TypeInv, SafetyInv, NEW p \in Procs, Writes(p)
    PROVE  /\ item[p] \in EventRecord /\ item[p].tx \in TxIds
           /\ item[p].amount \in Int /\ item[p].amount > 0
           /\ Row(p) \in Transaction
           /\ ledger'[item[p].tx] = Row(p)
           /\ Exists(ledger', item[p].tx)
           /\ \A t \in TxIds \ {item[p].tx} : ledger'[t] = ledger[t]
<1>1. item[p] \in EventRecord /\ item[p].amount > 0
  BY DEF Writes, TypeInv, ItemsPresent, SafetyInv, Claim
<1>2. item[p].tx \in TxIds /\ item[p].amount \in Int
  BY <1>1 DEF EventRecord
<1>3. Row(p) \in Transaction /\ ledger \in [TxIds -> Transaction]
  BY <1>1, RowType DEF TypeInv, TypeOK, LocalType
<1>4. /\ ledger'[item[p].tx] = Row(p)
      /\ \A t \in TxIds \ {item[p].tx} : ledger'[t] = ledger[t]
  BY <1>2, <1>3, PostKeeps DEF Writes
<1>5. Row(p).entries # {}
  BY <1>1, RowEntries
<1> QED
  BY <1>1, <1>2, <1>3, <1>4, <1>5 DEF Exists, GetTransaction

\* Whoever moves has written what it goes on from.
LEMMA MoverWritten ==
    ASSUME TypeInv, SafetyInv, OriginInv, NEW p \in Procs, ProcessStep(p)
    PROVE  Written(p)'
<1>0. Written(p)
  BY DEF OriginInv
<1>1. CASE Takes(p) \/ pc'[p] = "idle"
  BY <1>1 DEF Takes, Written, Wrote
<1>2. CASE Looks(p)
  BY <1>2 DEF Looks, Keeps, Written, Wrote
<1>3. CASE Ends(p)
  <2>1. CASE pc'[p] \in {"idle", "failed", "ignored"}
    BY <2>1 DEF Written, Wrote
  <2>2. CASE pc'[p] = "processed"
    <3>1. /\ item'[p] = item[p] /\ route'[p] = route[p] /\ UNCHANGED ledger
          /\ IsReversal(item[p]) \/ pc[p] \in {"suspend", "find", "fulfill"}
      BY <1>3, <2>2 DEF Ends, Keeps, NothingPosted
    <3>2. Row(p)' = Row(p)
      BY <3>1, RowStays
    <3> QED
      BY <1>0, <2>2, <3>1, <3>2 DEF Written, Wrote, IsReversal
  <2> QED
    BY <1>3, <2>1, <2>2 DEF Ends, Keeps
<1>4. CASE Matches(p)
  BY <1>4 DEF Matches, Written, Wrote, IsReversal
<1>5. CASE Limits(p)
  BY <1>0, <1>5 DEF Limits, Written, Wrote, IsReversal
<1>6. CASE Writes(p)
  <2>1. /\ item[p].amount > 0 /\ ledger'[item[p].tx] = Row(p) /\ item[p].tx \in TxIds
    BY <1>6, WriteFacts
  <2>2. CASE pc'[p] \in {"idle", "failed"}
    BY <2>2 DEF Written, Wrote
  <2>3. CASE pc'[p] \notin {"idle", "failed"}
    <3>1. /\ item'[p] = item[p] /\ route'[p] = route[p] /\ UNCHANGED collections
          /\ \/ pc'[p] = "processed" /\ IsReversal(item[p])
             \/ pc'[p] = "suspend" /\ ~IsReversal(item[p]) /\ route[p].account = Suspense
             \/ pc'[p] = "find" /\ ~IsReversal(item[p]) /\ route[p].account # Suspense
      BY <1>6, <2>3 DEF Writes, Keeps
    <3>2. Row(p)' = Row(p)
      BY <3>1, RowStays
    <3>3. \A c \in Collections : collections[c].by # item[p].tx
      <4>1. NoEvent # item[p].tx
        BY <2>1, ReconAssumption
      <4> QED
        BY <1>6, <4>1 DEF OriginInv, FulfillersPosted, Writes
    <3> QED
      BY <2>1, <3>1, <3>2, <3>3 DEF Written, Wrote, IsReversal
  <2> QED
    BY <2>2, <2>3
<1>7. CASE Lists(p) \/ Fulfils(p)
  <2>1. CASE pc'[p] = "processed"
    <3>1. /\ item'[p] = item[p] /\ route'[p] = route[p] /\ UNCHANGED ledger
          /\ pc[p] \in {"suspend", "fulfill"}
      BY <1>7, <2>1 DEF Lists, Fulfils, Keeps
    <3>2. Row(p)' = Row(p)
      BY <3>1, RowStays
    <3> QED
      BY <1>0, <2>1, <3>1, <3>2 DEF Written, Wrote, IsReversal
  <2> QED
    BY <1>1, <1>7, <2>1 DEF Lists, Fulfils, Keeps
<1>8. CASE Finds(p)
  <2>1. /\ item'[p] = item[p] /\ route'[p] = route[p] /\ pc[p] = "find" /\ pc'[p] = "fulfill"
        /\ UNCHANGED <<ledger, collections>>
        /\ found'[p] \in Collections
        /\ Request[found'[p]].va = item[p].va
        /\ Request[found'[p]].amount \in {0, item[p].amount}
    BY <1>8 DEF Finds, Keeps, NothingPosted, FindOpenCollectionForVA
  <2>2. Row(p)' = Row(p)
    BY <2>1, RowStays
  <2> QED
    BY <1>0, <2>1, <2>2 DEF Written, Wrote, IsReversal
<1>9. CASE Marks(p)
  <2>1. /\ item'[p] = item[p] /\ route'[p] = route[p] /\ pc[p] = "processed"
        /\ pc'[p] = "relay" /\ UNCHANGED ledger /\ ~IsReversal(item[p])
        /\ p = Worker
    BY <1>9 DEF Marks, Keeps, NothingPosted
  <2>2. Row(p)' = Row(p)
    BY <2>1, RowStays
  <2> QED
    BY <1>0, <2>1, <2>2 DEF Written, Wrote, IsReversal
<1>10. CASE Dispatches(p)
  BY <1>1, <1>10 DEF Dispatches
<1> QED
  BY <1>1, <1>2, <1>3, <1>4, <1>5, <1>6, <1>7, <1>8, <1>9, <1>10 DEF ProcessStep

\* The payments the collections name, after a step of process p.
LEMMA FulfillersStep ==
    ASSUME TypeInv, OriginInv, NEW p \in Procs, ProcessStep(p)
    PROVE  \/ UNCHANGED collections
           \/ /\ Fulfils(p)
              /\ found[p] \in Collections
              /\ collections[found[p]].status = "open"
              /\ collections'[found[p]].status = "fulfilled"
              /\ collections'[found[p]].by = item[p].tx
              /\ \A c \in Collections \ {found[p]} : collections'[c] = collections[c]
<1>1. CASE Fulfils(p)
  <2>1. pc[p] = "fulfill" /\ found[p] \in Collections
    BY <1>1 DEF Fulfils, OriginInv, Written
  <2>2. collections \in [Collections -> Collection]
    BY DEF TypeInv, TypeOK
  <2> QED
    BY <1>1, <2>1, <2>2 DEF Fulfils, Fulfilled, Collection
<1>2. CASE ~Fulfils(p)
  BY <1>2 DEF ProcessStep, NothingPosted, Takes, Looks, Ends, Matches, Limits, Writes, Lists,
     Finds, Marks, Dispatches
<1> QED
  BY <1>1, <1>2

\* A step of a process.
LEMMA ProcessOrigin ==
    ASSUME TypeInv, SafetyInv, OriginInv, [Next]_vars, NEW p \in Procs, ProcessStep(p)
    PROVE  OriginInv'
<1>0. IngestInv' /\ Current'
  BY IngestStep, CurrentStep DEF OriginInv
<1>1. Origin(p)' /\ Written(p)'
  BY MoverOrigin, MoverWritten
<1>2. ASSUME NEW q \in Procs, q # p PROVE Origin(q)' /\ Written(q)'
  <2>1. /\ pc'[q] = pc[q] /\ item'[q] = item[q]
        /\ route'[q] = route[q] /\ found'[q] = found[q]
    BY <1>2 DEF ProcessStep, Others
  <2>2. ASSUME pc[q] \in {"find", "fulfill"}, NEW c \in Collections
        PROVE  collections'[c].by # item[q].tx
    <3>1. collections[c].by # item[q].tx
      BY <2>2 DEF OriginInv, Written
    <3>2. Fulfils(p) => item[p].tx # item[q].tx
      BY <1>2, <2>2 DEF Fulfils, OriginInv, Alone
    <3> QED
      BY <3>1, <3>2, FulfillersStep
  <2> QED
    BY <2>1, <2>2, StandersKeep
<1>3. Alone'
  <2>1. ASSUME NEW q \in Procs, q # p, pc[q] \in {"suspend", "find", "fulfill"},
               pc'[p] \in {"suspend", "find", "fulfill"}
        PROVE  item'[p].tx # item[q].tx
    <3>1. CASE Writes(p)
      <4>1. Exists(ledger, item[q].tx)
        <5>1. ~IsReversal(item[q]) /\ pc[q] \in Wrote
          BY <2>1 DEF OriginInv, Written, Wrote
        <5> QED
          BY <5>1, WrittenExists
      <4> QED
        BY <2>1, <3>1, <4>1 DEF Writes, Keeps
    <3>2. CASE ~Writes(p)
      <4>1. pc[p] = "find" /\ item'[p] = item[p]
        BY <2>1, <3>2 DEF ProcessStep, Takes, Looks, Ends, Matches, Limits, Lists, Finds,
           Fulfils, Marks, Dispatches, Keeps
      <4> QED
        BY <2>1, <4>1 DEF OriginInv, Alone
    <3> QED
      BY <3>1, <3>2
  <2>2. \A q \in Procs \ {p} : pc'[q] = pc[q] /\ item'[q] = item[q]
    BY DEF ProcessStep, Others
  <2> SUFFICES ASSUME NEW r \in Procs, NEW q \in Procs, r # q,
                      pc'[r] \in {"suspend", "find", "fulfill"},
                      pc'[q] \in {"suspend", "find", "fulfill"}
               PROVE  item'[r].tx # item'[q].tx
    BY DEF Alone
  <2>3. CASE r = p
    BY <2>1, <2>2, <2>3
  <2>4. CASE q = p
    BY <2>1, <2>2, <2>4
  <2>5. CASE r # p /\ q # p
    BY <2>2, <2>5 DEF OriginInv, Alone
  <2> QED
    BY <2>3, <2>4, <2>5
<1>4. FulfillersPosted'
  <2> SUFFICES ASSUME NEW c \in Collections, collections'[c].by # NoEvent
               PROVE  Exists(ledger', collections'[c].by)
    BY DEF FulfillersPosted
  <2>0. \A t \in TxIds : Exists(ledger, t) => Exists(ledger', t)
    BY LedgerKeeps DEF Exists, GetTransaction
  <2>1. CASE collections'[c] = collections[c]
    <3>1. collections[c].by \in TxIds
      BY <2>1 DEF TypeInv, TypeOK, Collection
    <3> QED
      BY <2>0, <2>1, <3>1 DEF OriginInv, FulfillersPosted
  <2>2. CASE Fulfils(p) /\ collections'[c].by = item[p].tx
    <3>1. ~IsReversal(item[p]) /\ pc[p] \in Wrote
      BY <2>2 DEF Fulfils, OriginInv, Written, Wrote
    <3> QED
      BY <2>0, <2>2, <3>1, WrittenExists
  <2> QED
    BY <2>1, <2>2, FulfillersStep
<1> QED
  BY <1>0, <1>1, <1>2, <1>3, <1>4 DEF OriginInv

\* A step of the surroundings.
LEMMA OutsideOrigin ==
    ASSUME TypeInv, OriginInv, [Next]_vars, Outside
    PROVE  OriginInv'
<1>0. IngestInv' /\ Current'
  BY IngestStep, CurrentStep DEF OriginInv
<1>1. \A c \in Collections : collections'[c].by = collections[c].by
  <2>1. collections \in [Collections -> Collection]
    BY DEF TypeInv, TypeOK
  <2> QED
    BY <2>1 DEF Outside, CollectionEdit
<1>2. ASSUME NEW q \in Procs PROVE Origin(q)' /\ Written(q)'
  <2>1. pc[q] \in {"find", "fulfill"} => \A c \in Collections : collections'[c].by # item[q].tx
    BY <1>1 DEF OriginInv, Written
  <2> QED
    BY <2>1, StandersKeep DEF Outside
<1>3. Alone'
  BY DEF Outside, OriginInv, Alone
<1>4. FulfillersPosted'
  BY <1>1 DEF Outside, OriginInv, FulfillersPosted
<1> QED
  BY <1>0, <1>2, <1>3, <1>4 DEF OriginInv

\* A crash: nobody claims anything.
LEMMA CrashOrigin ==
    ASSUME TypeInv, OriginInv, [Next]_vars, CrashStep
    PROVE  OriginInv'
<1>0. IngestInv' /\ Current'
  BY IngestStep, CurrentStep DEF OriginInv
<1>1. \A q \in Procs : Origin(q)' /\ Written(q)'
  BY DEF CrashStep, Origin, Written, Wrote
<1>2. Alone'
  BY DEF CrashStep, Alone
<1>3. FulfillersPosted'
  BY DEF CrashStep, NothingPosted, OriginInv, FulfillersPosted
<1> QED
  BY <1>0, <1>1, <1>2, <1>3 DEF OriginInv

\* In the beginning there is nothing to know.
LEMMA OriginInit == Init => OriginInv
BY DEF Init, OriginInv, IngestInv, Current, Origin, Written, Wrote, Alone, FulfillersPosted

\* Every process knows the payment it works on, how its route came about, and what
\* of it is posted, whoever else races for it.
THEOREM OriginInvariant == Spec => [](TypeInv /\ SafetyInv /\ OriginInv)
<1>1. TypeInv /\ SafetyInv /\ OriginInv /\ [Next]_vars => OriginInv'
  BY Shapes, ProcessOrigin, OutsideOrigin, CrashOrigin DEF OriginInv
<1> QED
  BY <1>1, OriginInit, SafetyInvariant, PTL DEF Spec

-----------------------------------------------------------------------------
(* Where the money went.                                                   *)

\* Event e explains the row of transaction t and its suspense items.
Justifies(e, t) ==
    /\ e.tx = t
    /\ \/ ledger[t].entries = CreditSuspense(e.amount)
       \/ /\ e.va # NoVA
          /\ ledger[t].entries = CreditCustomer(Owner[e.va], e.amount)
          /\ since[e] \cap Open # {}
    /\ \A i \in DOMAIN suspenseItems[t] : Explains(e, suspenseItems[t][i])

\* The entries a process has written, in terms of the payment.
LEMMA CreditOfSource ==
    ASSUME NEW p, NEW e, Source(p, e), Routed(p, e), ~IsReversal(item[p])
    PROVE  IF route[p].account = Suspense
           THEN Row(p).entries = CreditSuspense(e.amount)
           ELSE /\ e.va # NoVA
                /\ Row(p).entries = CreditCustomer(Owner[e.va], e.amount)
                /\ since[e] \cap Open # {}
<1>1. Row(p).entries = Entries(item[p], route[p]) /\ item[p].amount = e.amount
  BY DEF Row, Source
<1>2. CASE route[p].account = Suspense
  BY <1>1, <1>2 DEF Entries
<1>3. CASE route[p].account # Suspense
  <2>1. e.va # NoVA /\ route[p].account = Owner[e.va] /\ since[e] \cap Open # {}
    BY <1>3 DEF Routed
  <2>2. Entries(item[p], route[p]) = CreditCustomer(route[p].account, item[p].amount)
    BY <1>3 DEF Entries
  <2> QED
    BY <1>1, <1>3, <2>1, <2>2
<1> QED
  BY <1>2, <1>3

\* A transaction nobody writes to stays explained.
LEMMA JustifiedStays ==
    ASSUME NEW e \in made, NEW t, Justifies(e, t), made \subseteq made',
           since[e] \subseteq since'[e], ledger'[t] = ledger[t],
           suspenseItems'[t] = suspenseItems[t]
    PROVE  e \in made' /\ Justifies(e, t)'
<1>1. \A reason : Explains(e, reason) => Explains(e, reason)'
  BY DEF Explains
<1> QED
  BY <1>1 DEF Justifies

\* A new row is explained by the payment its writer works on.
LEMMA WriteJustified ==
    ASSUME TypeInv, SafetyInv, OriginInv, NEW p \in Procs, Others(p), Writes(p),
           NEW t, t = item[p].tx, ledger'[t].direction = "credit"
    PROVE  \E e \in made' : Justifies(e, t)'
<1>1. /\ t \in TxIds /\ ledger'[t] = Row(p) /\ UNCHANGED suspenseItems
      /\ made' = made /\ since' = since
  BY WriteFacts DEF Writes, Others
<1>2. ~IsReversal(item[p])
  BY <1>1 DEF Row
<1>3. PICK e \in made : Source(p, e) /\ Routed(p, e)
  BY DEF OriginInv, Origin, Writes, OnRoute
<1>4. suspenseItems[t] = <<>>
  BY <1>1, NothingCredited DEF Writes, SafetyInv, AtMostOneSuspenseItem
<1>5. e.tx = t
  BY <1>3 DEF Source
<1>6. \/ ledger'[t].entries = CreditSuspense(e.amount)
      \/ /\ e.va # NoVA
         /\ ledger'[t].entries = CreditCustomer(Owner[e.va], e.amount)
         /\ since'[e] \cap Open # {}
  BY <1>1, <1>2, <1>3, CreditOfSource
<1>7. DOMAIN suspenseItems'[t] = {}
  BY <1>1, <1>4
<1> QED
  BY <1>1, <1>5, <1>6, <1>7 DEF Justifies

\* So is a new suspense item.
LEMMA ListJustified ==
    ASSUME TypeInv, SafetyInv, OriginInv, NEW p \in Procs, Others(p), Lists(p),
           NEW t, t = item[p].tx
    PROVE  \E e \in made' : Justifies(e, t)'
<1>1. /\ UNCHANGED ledger /\ made' = made /\ since' = since /\ pc[p] = "suspend"
      /\ route[p].account = Suspense /\ ~IsReversal(item[p])
  BY DEF Lists, Others, OriginInv, Written
<1>2. t \in TxIds /\ ledger[t] = Row(p)
  BY <1>1, WrittenExists DEF Wrote
<1>3. PICK e \in made : Source(p, e) /\ Routed(p, e)
  BY <1>1 DEF OriginInv, Origin, OnRoute, Wrote
<1>4. PICK reason : reason = route[p].reason
  OBVIOUS
<1>5. Explains(e, reason) /\ e.tx = t /\ ledger[t].entries = CreditSuspense(e.amount)
  BY <1>1, <1>2, <1>3, <1>4, CreditOfSource DEF Routed, Source
<1>6. suspenseItems'[t] = <<reason>>
  <2>1. suspenseItems[t] = <<>>
    BY <1>1 DEF SafetyInv, Claim
  <2>2. suspenseItems \in [TxIds -> Seq(Reasons)]
    BY DEF TypeInv, TypeOK
  <2> QED
    BY <1>2, <1>4, <2>1, <2>2 DEF Lists
<1>7. Explains(e, reason)'
  BY <1>1, <1>5 DEF Explains
<1>8. \A i \in DOMAIN suspenseItems'[t] : suspenseItems'[t][i] = reason
  BY <1>6
<1> QED
  BY <1>1, <1>5, <1>7, <1>8 DEF Justifies

\* Every step keeps the credits explained.
LEMMA RoutingStep ==
    ASSUME TypeInv, SafetyInv, OriginInv, RoutingJustified, [Next]_vars
    PROVE  RoutingJustified'
<1> SUFFICES ASSUME NEW t \in TxIds, ledger'[t].direction = "credit"
             PROVE  \E e \in made' : Justifies(e, t)'
  BY DEF RoutingJustified, Justifies
<1>1. made \subseteq made' /\ \A e \in made : since[e] \subseteq since'[e]
  BY HistoryGrows DEF OriginInv
<1>2. CASE ledger'[t] = ledger[t] /\ suspenseItems'[t] = suspenseItems[t]
  <2>1. PICK e \in made : Justifies(e, t)
    BY <1>2 DEF RoutingJustified, Justifies
  <2> QED
    BY <1>1, <1>2, <2>1, JustifiedStays
<1>3. ASSUME NEW p \in Procs, ProcessStep(p), Writes(p) PROVE \E e \in made' : Justifies(e, t)'
  <2>1. CASE t = item[p].tx
    BY <1>3, <2>1, WriteJustified DEF ProcessStep
  <2>2. CASE t # item[p].tx
    <3>1. ledger'[t] = ledger[t] /\ suspenseItems'[t] = suspenseItems[t]
      BY <1>3, <2>2, WriteFacts DEF Writes
    <3> QED
      BY <1>2, <3>1
  <2> QED
    BY <2>1, <2>2
<1>4. ASSUME NEW p \in Procs, ProcessStep(p), Lists(p) PROVE \E e \in made' : Justifies(e, t)'
  <2>1. CASE t = item[p].tx
    BY <1>4, <2>1, ListJustified DEF ProcessStep
  <2>2. CASE t # item[p].tx
    <3>1. ledger'[t] = ledger[t] /\ suspenseItems'[t] = suspenseItems[t]
      BY <1>4, <2>2 DEF Lists, TypeInv, TypeOK
    <3> QED
      BY <1>2, <3>1
  <2> QED
    BY <2>1, <2>2
<1>5. \/ UNCHANGED <<ledger, suspenseItems>>
      \/ \E p \in Procs : ProcessStep(p) /\ (Writes(p) \/ Lists(p))
  BY Shapes DEF OriginInv, Outside, CrashStep, NothingPosted, ProcessStep, Takes, Looks, Ends,
     Matches, Limits, Finds, Fulfils, Marks, Dispatches
<1> QED
  BY <1>2, <1>3, <1>4, <1>5

\* A credit is where a status the account had after the payment sent it, and every
\* suspense item states a reason that existed, however the processes, the lifecycle
\* handlers, errors and crashes interleave.
THEOREM RoutingAlwaysJustified == Spec => []RoutingJustified
<1>1. Init => RoutingJustified
  BY DEF Init, RoutingJustified, EmptyLedger, Absent
<1>2. TypeInv /\ SafetyInv /\ OriginInv /\ RoutingJustified /\ [Next]_vars => RoutingJustified'
  BY RoutingStep
<1> QED
  BY <1>1, <1>2, OriginInvariant, PTL DEF Spec

-----------------------------------------------------------------------------
(* Collections and relays.                                                 *)

\* A payment into the account of collection c, for the amount asked, is in the
\* wallet of the account's owner, and c names it.
PaidFor(c) ==
    \E e \in made :
        /\ e.tx = collections[c].by
        /\ e.va = Request[c].va
        /\ Request[c].amount \in {0, e.amount}
        /\ Credited(ledger[e.tx]) = {Owner[e.va]}

\* A collection names a payment only once it is fulfilled, and then its own.
CollectionInv ==
    \A c \in Collections :
        IF collections[c].status = "fulfilled"
        THEN /\ PaidFor(c)
             /\ \A d \in Collections \ {c} : collections[d].by # collections[c].by
        ELSE collections[c].by = NoEvent

\* A row that credits somebody stays as it is.
LEMMA CreditStays ==
    ASSUME TypeInv, [Next]_vars, NEW t \in TxIds, Credited(ledger[t]) # {}
    PROVE  ledger'[t] = ledger[t]
BY LedgerKeeps, NothingCredited

\* A collection that stays as it is keeps its payment.
LEMMA PaidForStays ==
    ASSUME TypeInv, IngestInv, [Next]_vars, NEW c \in Collections, PaidFor(c),
           collections'[c] = collections[c]
    PROVE  PaidFor(c)'
<1>1. PICK e \in made : /\ e.tx = collections[c].by
                        /\ e.va = Request[c].va
                        /\ Request[c].amount \in {0, e.amount}
                        /\ Credited(ledger[e.tx]) = {Owner[e.va]}
  BY DEF PaidFor
<1>2. e.tx \in TxIds
  BY ReconAssumption DEF TypeInv, TypeOK, EventRecord
<1>3. ledger'[e.tx] = ledger[e.tx] /\ e \in made'
  BY <1>1, <1>2, CreditStays, HistoryGrows
<1> QED
  BY <1>1, <1>3 DEF PaidFor

\* The payment a process fulfils a collection with.
LEMMA FulfillerPaid ==
    ASSUME TypeInv, OriginInv, NEW p \in Procs, Others(p), Fulfils(p),
           NEW c \in Collections, c = found[p], collections'[c].by = item[p].tx
    PROVE  PaidFor(c)'
<1>1. /\ pc[p] = "fulfill" /\ UNCHANGED <<ledger, made>>
      /\ ~IsReversal(item[p]) /\ route[p].account # Suspense
      /\ Request[c].va = item[p].va
      /\ Request[c].amount \in {0, item[p].amount}
  BY DEF Fulfils, Others, OriginInv, Written
<1>2. PICK e \in made : Source(p, e) /\ Routed(p, e)
  BY <1>1 DEF OriginInv, Origin, OnRoute, Wrote
<1>3. /\ item[p].va = e.va /\ route[p].account = Owner[e.va]
      /\ item[p].tx = e.tx /\ item[p].amount = e.amount
  BY <1>1, <1>2 DEF Routed, Source
<1>4. Credited(ledger[item[p].tx]) = {route[p].account}
  BY <1>1, WrittenExists, RowEntries DEF Wrote
<1> QED
  BY <1>1, <1>3, <1>4 DEF PaidFor

\* Every step keeps the collections paid for.
LEMMA CollectionStep ==
    ASSUME TypeInv, SafetyInv, OriginInv, CollectionInv, [Next]_vars
    PROVE  CollectionInv'
<1>0. collections \in [Collections -> Collection]
  BY DEF TypeInv, TypeOK
<1>1. CASE UNCHANGED collections
  BY <1>1, PaidForStays DEF CollectionInv, OriginInv
<1>2. ASSUME NEW b \in Collections, CollectionEdit(b)
      PROVE  CollectionInv'
  <2>1. /\ collections[b].status # "fulfilled" /\ collections'[b].status # "fulfilled"
        /\ collections'[b].by = collections[b].by
        /\ \A c \in Collections \ {b} : collections'[c] = collections[c]
    BY <1>0, <1>2 DEF CollectionEdit
  <2>2. ASSUME NEW c \in Collections, collections'[c].status = "fulfilled"
        PROVE  PaidFor(c)'
    BY <2>1, <2>2, PaidForStays DEF CollectionInv, OriginInv
  <2>3. \A c \in Collections :
            IF collections'[c].status = "fulfilled"
            THEN \A d \in Collections \ {c} : collections'[d].by # collections'[c].by
            ELSE collections'[c].by = NoEvent
    BY <2>1 DEF CollectionInv
  <2> QED
    BY <2>2, <2>3 DEF CollectionInv
<1>3. ASSUME NEW p \in Procs, ProcessStep(p) PROVE CollectionInv'
  <2> SUFFICES ASSUME Fulfils(p), NEW b \in Collections, b = found[p],
                      collections[b].status = "open",
                      collections'[b].status = "fulfilled",
                      collections'[b].by = item[p].tx,
                      \A c \in Collections \ {b} : collections'[c] = collections[c]
               PROVE  CollectionInv'
    BY <1>1, <1>3, FulfillersStep
  <2>1. PaidFor(b)'
    BY <1>3, FulfillerPaid DEF ProcessStep
  <2>2. \A c \in Collections \ {b} : collections[c].by # item[p].tx
    BY DEF Fulfils, OriginInv, Written
  <2>3. item[p].tx # NoEvent
    <3>1. item[p].tx \in TxIds
      BY DEF Fulfils, TypeInv, ItemsPresent, EventRecord
    <3> QED
      BY <3>1, ReconAssumption
  <2>4. ASSUME NEW c \in Collections \ {b}, collections'[c].status = "fulfilled"
        PROVE  PaidFor(c)'
    BY <2>4, PaidForStays DEF CollectionInv, OriginInv
  <2>5. \A c \in Collections :
            IF collections'[c].status = "fulfilled"
            THEN \A d \in Collections \ {c} : collections'[d].by # collections'[c].by
            ELSE collections'[c].by = NoEvent
    BY <2>2, <2>3 DEF CollectionInv
  <2> QED
    BY <2>1, <2>4, <2>5 DEF CollectionInv
<1> QED
  BY <1>1, <1>2, <1>3, Shapes DEF Outside, CrashStep, NothingPosted, OriginInv

\* A fulfilled collection was paid, by a payment into its own account that is in
\* the wallet of the owner and fulfils nothing else, although TryFulfill looks the
\* collection up and updates it in two calls.
THEOREM CollectionsPaidFor == Spec => []FulfilledByOwnPayment
<1>1. Init => CollectionInv
  BY DEF Init, CollectionInv
<1>2. TypeInv /\ SafetyInv /\ OriginInv /\ CollectionInv /\ [Next]_vars => CollectionInv'
  BY CollectionStep
<1>3. CollectionInv => FulfilledByOwnPayment
  BY DEF CollectionInv, PaidFor, FulfilledByOwnPayment
<1> QED
  BY <1>1, <1>2, <1>3, OriginInvariant, PTL DEF Spec

\* A collection that was fulfilled or cancelled keeps its row: the UPDATE is
\* conditional on the status the row has by then.
THEOREM CollectionsTerminal == Spec => CollectionTerminal
<1>1. ASSUME TypeInv, OriginInv, [Next]_vars, NEW c \in Collections,
             collections[c].status \in {"fulfilled", "cancelled"}
      PROVE  collections'[c] = collections[c]
  <2>0. collections \in [Collections -> Collection]
    BY <1>1 DEF TypeInv, TypeOK
  <2>1. ASSUME NEW p \in Procs, ProcessStep(p) PROVE collections'[c] = collections[c]
    BY <1>1, <2>1, FulfillersStep
  <2>2. ASSUME NEW b \in Collections, CollectionEdit(b)
        PROVE  collections'[c] = collections[c]
    BY <1>1, <2>0, <2>2 DEF CollectionEdit
  <2> QED
    BY <1>1, <2>1, <2>2, Shapes DEF Outside, CrashStep, NothingPosted, OriginInv
<1>2. TypeInv /\ OriginInv /\ [Next]_vars =>
          [\A c \in Collections : collections[c].status \in {"fulfilled", "cancelled"} =>
               collections'[c] = collections[c]]_vars
  BY <1>1
<1> QED
  BY <1>2, OriginInvariant, PTL DEF Spec, CollectionTerminal

\* Every step keeps the relayed events credited.
LEMMA RelayStep ==
    ASSUME TypeInv, SafetyInv, OriginInv, RelayedWereCredited,
           \A e \in relayed : Exists(ledger, e.tx), [Next]_vars
    PROVE  RelayedWereCredited' /\ \A e \in relayed' : Exists(ledger', e.tx)
<1> SUFFICES ASSUME NEW e \in relayed'
             PROVE  /\ Exists(ledger', e.tx)
                    /\ ledger'[e.tx].source = "webhook"
                    /\ Credited(ledger'[e.tx]) \subseteq Customers
  BY DEF RelayedWereCredited
<1>1. CASE e \in relayed
  <2>1. e.tx \in TxIds
    BY <1>1 DEF TypeInv, TypeOK, EventRecord
  <2>2. ledger'[e.tx] = ledger[e.tx]
    BY <1>1, <2>1, LedgerKeeps
  <2> QED
    BY <1>1, <2>2 DEF RelayedWereCredited, Exists, GetTransaction
<1>2. ASSUME NEW p \in Procs, Dispatches(p), e = item[p], e \notin relayed
      PROVE  /\ Exists(ledger', e.tx)
             /\ ledger'[e.tx].source = "webhook"
             /\ Credited(ledger'[e.tx]) \subseteq Customers
  <2>1. /\ p = Worker /\ ~IsReversal(item[p]) /\ route[p].account # Suspense
        /\ pc[p] = "relay" /\ UNCHANGED ledger
    BY <1>2 DEF Dispatches, OriginInv, Written
  <2>2. /\ Exists(ledger, e.tx) /\ ledger[e.tx] = Row(p)
        /\ item[p] \in EventRecord /\ item[p].amount > 0
    BY <1>2, <2>1, WrittenExists DEF Wrote
  <2>3. PICK f \in made : Routed(p, f)
    BY <2>1 DEF OriginInv, Origin, OnRoute, Wrote
  <2>4. f.va \in VAs /\ route[p].account = Owner[f.va]
    BY <2>1, <2>3, ReconAssumption DEF Routed, TypeInv, TypeOK, EventRecord
  <2>5. route[p].account \in Customers
    BY <2>4, ReconAssumption
  <2>6. Credited(Row(p)) = {route[p].account} /\ Row(p).source = "webhook"
    BY <2>1, <2>2, RowEntries DEF Row
  <2> QED
    BY <2>1, <2>2, <2>5, <2>6
<1>3. relayed' = relayed \/ \E p \in Procs : Dispatches(p)
  BY Shapes DEF OriginInv, Outside, CrashStep, NothingPosted, ProcessStep, Takes, Looks, Ends,
     Matches, Limits, Writes, Lists, Finds, Fulfils, Marks
<1> QED
  BY <1>1, <1>2, <1>3 DEF Dispatches

\* A tenant hears of a credit only if the worker itself has posted it to a wallet:
\* never of one that went to suspense, although dispatchRelay is entered for those
\* of a known account too, and never of a sweep's; whether or not the lookup without
\* a tenant finds customers.
THEOREM RelaysAreCredits == Spec => []RelayedWereCredited
<1> DEFINE Posted == \A e \in relayed : Exists(ledger, e.tx)
<1>1. Init => RelayedWereCredited /\ Posted
  BY DEF Init, RelayedWereCredited
<1>2. TypeInv /\ SafetyInv /\ OriginInv /\ RelayedWereCredited /\ Posted /\ [Next]_vars =>
          RelayedWereCredited' /\ Posted'
  BY RelayStep
<1> QED
  BY <1>1, <1>2, OriginInvariant, PTL DEF Spec

-----------------------------------------------------------------------------
(* The verdict on a webhook event.                                         *)

\* The worker has an item whose event it has not marked yet.
Undecided == pc[Worker] \notin {"idle", "relay"}

(***************************************************************************)
(* Between the insert under its dedupe key and the mark, an event is in    *)
(* one place at most: with a handler, once in the queue, or with the       *)
(* worker.  Until then its row says received.                              *)
(***************************************************************************)
DeliveredOnce ==
    /\ \A e \in handlers :
           /\ webhookEvents[DedupeKey(e)] = "received"
           /\ \A i \in DOMAIN queue : queue[i] # e
    /\ \A i \in DOMAIN queue : webhookEvents[DedupeKey(queue[i])] = "received"
    /\ \A i, j \in DOMAIN queue : queue[i] = queue[j] => i = j
    /\ Undecided =>
           /\ item[Worker] \in Events \ handlers
           /\ \A i \in DOMAIN queue : queue[i] # item[Worker]
           /\ webhookEvents[DedupeKey(item[Worker])] = "received"

\* The worker stays with its item, or has none to decide about.
WorkerStays ==
    \/ pc'[Worker] \in {"idle", "relay"}
    \/ Undecided /\ item'[Worker] = item[Worker]

\* A step of another process leaves the worker alone.
LEMMA OthersStay ==
    ASSUME NEW p \in Procs, p # Worker, Frame(p)
    PROVE  WorkerStays
BY ControlConstants DEF Frame, WorkerStays, Undecided

\* Who changes what the worker has to decide.
LEMMA IngestShape ==
    ASSUME TypeInv, [Next]_vars
    PROVE  \/ \E e \in Events : HandleNombaWebhook(e) \/ InsertUnconfirmed(e) \/ Enqueue(e)
           \/ Dequeue \/ MarkWebhookProcessed \/ Crash
           \/ UNCHANGED ingest /\ WorkerStays
<1> USE DEF ingest
<1>0. /\ Worker \in Procs /\ pc \in [Procs -> Steps]
      /\ item \in [Procs -> EventRecord \cup {NoEvent}]
  BY ControlConstants DEF TypeInv, TypeOK
<1>1. ASSUME NEW p \in Procs, pc[p] \notin {"idle", "relay"},
             \/ Release(p)
             \/ \E step : Goto(p, step) /\ UNCHANGED item
             \/ \E verdict : Conclude(p, verdict)
      PROVE  WorkerStays
  <2>1. Frame(p) /\ (pc'[p] = "idle" \/ item'[p] = item[p])
    BY <1>1, Moves
  <2>2. CASE p = Worker
    BY <1>1, <2>1, <2>2 DEF WorkerStays, Undecided
  <2> QED
    BY <2>1, <2>2, OthersStay
<1>2. ASSUME NEW p \in Procs, Pipeline(p) PROVE UNCHANGED ingest /\ WorkerStays
  <2>1. UNCHANGED ingest
    BY <1>2 DEF Pipeline, MatchItem, CheckMaxBalance, CheckDailyCredit, CheckLimit, Post,
       CreateSuspenseItem, FindCollection, FulfillCollection
  <2>2. /\ pc[p] \notin {"idle", "relay"}
        /\ \/ \E step : Goto(p, step) /\ UNCHANGED item
           \/ \E verdict : Conclude(p, verdict)
    BY <1>2 DEF Pipeline, MatchItem, CheckMaxBalance, CheckDailyCredit, CheckLimit, Post,
       CreateSuspenseItem, FindCollection, FulfillCollection, AfterPost, Abandon
  <2> QED
    BY <1>1, <2>1, <2>2
<1>3. CASE UNCHANGED <<webhookEvents, handlers, queue, pc, item>>
  BY <1>3 DEF WorkerStays, Undecided
<1>4. CASE Environment \/ UNCHANGED vars
  BY <1>3, <1>4 DEF vars, local, Environment, MakePayment, NextDay, CreateVirtualAccount,
     UpdateVAStatus, SetStatus, CreateCollection, CancelCollection, ExpireCollection,
     SetCollection
<1>5. CASE WorkerStep
  <2>1. CASE DispatchRelay
    BY <1>0, <2>1, Moves DEF DispatchRelay, WorkerStays
  <2> QED
    BY <1>0, <1>2, <1>5, <2>1 DEF WorkerStep
<1>6. ASSUME NEW s \in Sweeps, ListTransactions(s) \/ SweepStep(s)
      PROVE  UNCHANGED ingest /\ WorkerStays
  <2>0. s \in Procs /\ s # Worker
    BY ReconAssumption DEF Procs
  <2>1. CASE ListTransactions(s)
    BY <2>1 DEF ListTransactions, WorkerStays, Undecided
  <2>2. CASE SweepItem(s)
    <3>1. Frame(s)
      BY <1>0, <2>2 DEF SweepItem, Goto, Frame
    <3> QED
      BY <2>0, <2>2, <3>1, OthersStay DEF SweepItem
  <2>3. CASE CheckExisting(s)
    <3>1. Frame(s)
      BY <2>0, <2>3, Moves DEF CheckExisting
    <3> QED
      BY <2>0, <2>3, <3>1, OthersStay DEF CheckExisting
  <2> QED
    BY <1>2, <1>6, <2>0, <2>1, <2>2, <2>3 DEF SweepStep
<1>7. ASSUME NEW p \in Procs, CallFails(p) \/ CommitUnconfirmed(p) \/ SideEffectFails(p)
      PROVE  UNCHANGED ingest /\ WorkerStays
  BY <1>1, <1>7 DEF CallFails, CommitUnconfirmed, SideEffectFails, Abandon
<1>8. ASSUME NEW p \in Procs, LookupFails(p) PROVE UNCHANGED ingest /\ WorkerStays
  <2>1. CASE pc[p] = "tier"
    BY <1>1, <1>8, <2>1 DEF LookupFails
  <2>2. CASE pc[p] # "tier"
    <3>1. Frame(p) /\ pc'[p] = "idle"
      BY <1>8, <2>2, Moves DEF LookupFails
    <3> QED
      BY <1>8, <3>1, OthersStay DEF LookupFails, WorkerStays
  <2> QED
    BY <2>1, <2>2
<1>9. CASE MarkFails
  BY <1>0, <1>9, Moves DEF MarkFails, AfterMark, WorkerStays
<1>10. CASE Failure
  BY <1>7, <1>8, <1>9, <1>10 DEF Failure
<1> QED
  BY <1>4, <1>5, <1>6, <1>10 DEF Next

\* Two events of the provider do not share a dedupe key.
LEMMA KeysDiffer ==
    ASSUME NEW e \in Events, NEW f \in Events, DedupeKey(e) = DedupeKey(f)
    PROVE  e = f
BY ReconAssumption

\* The webhook is stored: it cannot be anywhere yet.
LEMMA StoredOnce ==
    ASSUME TypeInv, DeliveredOnce, NEW e \in Events,
           HandleNombaWebhook(e) \/ InsertUnconfirmed(e)
    PROVE  DeliveredOnce'
<1>0. /\ webhookEvents \in [DedupeKeys -> {"none", "received"} \cup Verdicts]
      /\ queue \in Seq(Events) /\ handlers \subseteq Events
  BY DEF TypeInv, TypeOK
<1>1. /\ webhookEvents[DedupeKey(e)] = "none"
      /\ webhookEvents' = [webhookEvents EXCEPT ![DedupeKey(e)] = "received"]
      /\ UNCHANGED <<queue, pc, item>>
      /\ handlers' \in {handlers, handlers \cup {e}}
  BY DEF HandleNombaWebhook, InsertUnconfirmed, Inserted, local
<1>2. /\ webhookEvents'[DedupeKey(e)] = "received"
      /\ \A f \in Events : webhookEvents[DedupeKey(f)] = "received" =>
             webhookEvents'[DedupeKey(f)] = "received"
  BY <1>0, <1>1, KeyOfEvent
<1>3. /\ e \notin handlers
      /\ \A i \in DOMAIN queue : queue[i] \in Events /\ queue[i] # e
      /\ Undecided => item[Worker] # e
  BY <1>0, <1>1 DEF DeliveredOnce
<1> QED
  BY <1>0, <1>1, <1>2, <1>3 DEF DeliveredOnce, Undecided

\* The handler hands the event over, or drops it.
LEMMA EnqueuedOnce ==
    ASSUME TypeInv, DeliveredOnce, NEW e \in Events, Enqueue(e)
    PROVE  DeliveredOnce'
<1>0. queue \in Seq(Events) /\ handlers \subseteq Events
  BY DEF TypeInv, TypeOK
<1>1. /\ e \in handlers /\ handlers' = handlers \ {e}
      /\ UNCHANGED <<webhookEvents, pc, item>>
  BY DEF Enqueue, local
<1>2. CASE UNCHANGED queue
  BY <1>1, <1>2 DEF DeliveredOnce, Undecided
<1>3. CASE queue' = Append(queue, e)
  <2>1. /\ DOMAIN queue' = 1..Len(queue) + 1 /\ DOMAIN queue = 1..Len(queue)
        /\ Len(queue) \in Nat
        /\ \A i \in DOMAIN queue : queue'[i] = queue[i]
        /\ queue'[Len(queue) + 1] = e
    BY <1>0, <1>3
  <2>2. \A i \in DOMAIN queue : queue[i] # e
    BY <1>1 DEF DeliveredOnce
  <2>3. \A i, j \in DOMAIN queue' : queue'[i] = queue'[j] => i = j
    BY <2>1, <2>2 DEF DeliveredOnce
  <2>4. \A i \in DOMAIN queue' : (i \in DOMAIN queue /\ queue'[i] = queue[i]) \/ queue'[i] = e
    BY <2>1
  <2>5. /\ webhookEvents[DedupeKey(e)] = "received"
        /\ Undecided => item[Worker] # e
    BY <1>1 DEF DeliveredOnce
  <2> QED
    BY <1>1, <2>3, <2>4, <2>5 DEF DeliveredOnce, Undecided
<1> QED
  BY <1>2, <1>3 DEF Enqueue

\* The worker takes the event out of the queue.
LEMMA DequeuedOnce ==
    ASSUME TypeInv, DeliveredOnce, Dequeue
    PROVE  DeliveredOnce'
<1>0. /\ queue \in Seq(Events) /\ Worker \in Procs
      /\ item \in [Procs -> EventRecord \cup {NoEvent}]
  BY ControlConstants DEF TypeInv, TypeOK
<1>1. /\ queue # <<>> /\ queue' = Tail(queue)
      /\ item'[Worker] = Head(queue)
      /\ UNCHANGED <<webhookEvents, handlers>>
  BY <1>0 DEF Dequeue
<1>2. /\ 1 \in DOMAIN queue /\ Head(queue) = queue[1] /\ queue[1] \in Events
      /\ \A i \in DOMAIN queue' : i + 1 \in DOMAIN queue /\ queue'[i] = queue[i + 1]
      /\ DOMAIN queue' \subseteq Nat \ {0}
  BY <1>0, <1>1
<1>3. \A i, j \in DOMAIN queue' : queue'[i] = queue'[j] => i = j
  BY <1>2 DEF DeliveredOnce
<1>4. \A i \in DOMAIN queue' : queue'[i] # queue[1]
  BY <1>2 DEF DeliveredOnce
<1>5. queue[1] \notin handlers /\ webhookEvents[DedupeKey(queue[1])] = "received"
  BY <1>2 DEF DeliveredOnce
<1>6. \A i \in DOMAIN queue' :
          webhookEvents[DedupeKey(queue'[i])] = "received" /\ queue'[i] \notin handlers
  BY <1>2 DEF DeliveredOnce
<1> QED
  BY <1>1, <1>2, <1>3, <1>4, <1>5, <1>6 DEF DeliveredOnce

\* The worker marks its event, which is nowhere else.
LEMMA MarkedOnce ==
    ASSUME TypeInv, DeliveredOnce, MarkWebhookProcessed
    PROVE  /\ DeliveredOnce'
           /\ item[Worker] \in Events
           /\ webhookEvents[DedupeKey(item[Worker])] = "received"
<1>0. /\ webhookEvents \in [DedupeKeys -> {"none", "received"} \cup Verdicts]
      /\ queue \in Seq(Events) /\ handlers \subseteq Events /\ Worker \in Procs
  BY ControlConstants DEF TypeInv, TypeOK
<1>1. Undecided
  BY DEF MarkWebhookProcessed, Undecided, Verdicts
<1>2. /\ item[Worker] \in Events \ handlers
      /\ \A i \in DOMAIN queue : queue[i] # item[Worker]
      /\ webhookEvents[DedupeKey(item[Worker])] = "received"
  BY <1>1 DEF DeliveredOnce
<1>3. /\ webhookEvents' = [webhookEvents EXCEPT ![DedupeKey(item[Worker])] = pc[Worker]]
      /\ UNCHANGED <<handlers, queue>>
  BY DEF MarkWebhookProcessed
<1>4. \A f \in Events \ {item[Worker]} :
          webhookEvents'[DedupeKey(f)] = webhookEvents[DedupeKey(f)]
  BY <1>0, <1>2, <1>3, KeyOfEvent, KeysDiffer
<1>5. pc'[Worker] \in {"idle", "relay"}
  BY <1>0, Moves DEF MarkWebhookProcessed, AfterMark
<1>6. \A i \in DOMAIN queue : queue[i] \in Events
  BY <1>0
<1> QED
  BY <1>0, <1>2, <1>3, <1>4, <1>5, <1>6 DEF DeliveredOnce, Undecided

\* Every step leaves an event in one place.
LEMMA DeliveredStep ==
    ASSUME TypeInv, DeliveredOnce, [Next]_vars
    PROVE  DeliveredOnce'
<1>1. CASE Crash
  BY <1>1, ControlConstants DEF Crash, DeliveredOnce, Undecided
<1>2. CASE UNCHANGED ingest /\ WorkerStays
  BY <1>2 DEF ingest, WorkerStays, DeliveredOnce, Undecided
<1> QED
  BY <1>1, <1>2, IngestShape, StoredOnce, EnqueuedOnce, DequeuedOnce, MarkedOnce

\* The worker decides about a stored event once, however often the provider
\* delivers it and whatever crashes: a verdict is never overwritten.
THEOREM VerdictsFinal == Spec => VerdictFinal
<1>1. Init => DeliveredOnce
  BY ControlConstants DEF Init, DeliveredOnce, Undecided
<1>2. TypeInv /\ DeliveredOnce /\ [Next]_vars => DeliveredOnce'
  BY DeliveredStep
<1>3. ASSUME TypeInv, DeliveredOnce, [Next]_vars, NEW k \in DedupeKeys,
             webhookEvents[k] \in Verdicts
      PROVE  webhookEvents'[k] = webhookEvents[k]
  <2>0. webhookEvents \in [DedupeKeys -> {"none", "received"} \cup Verdicts]
    BY <1>3 DEF TypeInv, TypeOK
  <2>1. ASSUME NEW e \in Events, HandleNombaWebhook(e) \/ InsertUnconfirmed(e)
        PROVE  webhookEvents'[k] = webhookEvents[k]
    BY <1>3, <2>0, <2>1 DEF HandleNombaWebhook, InsertUnconfirmed, Inserted, Verdicts
  <2>2. CASE MarkWebhookProcessed
    <3>1. k # DedupeKey(item[Worker])
      BY <1>3, <2>2, MarkedOnce DEF Verdicts
    <3> QED
      BY <2>0, <2>2, <3>1 DEF MarkWebhookProcessed
  <2>3. CASE UNCHANGED webhookEvents
    BY <2>3
  <2> QED
    BY <1>3, <2>1, <2>2, <2>3, IngestShape DEF Enqueue, Dequeue, Crash, ingest
<1>4. TypeInv /\ DeliveredOnce /\ [Next]_vars =>
          [\A k \in DedupeKeys :
               webhookEvents[k] \in Verdicts => webhookEvents'[k] = webhookEvents[k]]_vars
  BY <1>3
<1> QED
  BY <1>1, <1>2, <1>4, SafetyInvariant, PTL DEF Spec, VerdictFinal

-----------------------------------------------------------------------------
(***************************************************************************)
(* The books.  The settlement account mirrors the provider if every event  *)
(* has a transaction id of its own and the Transactions API lists no       *)
(* reversals: a reversal under the id of its credit is not posted, and one *)
(* that is listed is posted as a credit.                                   *)
(***************************************************************************)
OwnTransactions ==
    /\ \A e, f \in Events : e.tx = f.tx => e = f
    /\ \A e \in Events : e.listed => ~IsReversal(e)

\* What the provider's holdings change by, seen from the settlement account.
Signed(e) == IF IsReversal(e) THEN e.amount ELSE -e.amount

\* The payments the ledger has a row for.
PostedEvents == {x \in made : Exists(ledger, x.tx)}

\* A route leads to a wallet or to suspense.
RoutesLead ==
    \A p \in Procs :
        pc[p] \in {"tier", "daily", "post"} => route[p].account \in Customers \cup {Suspense}

BooksInv ==
    /\ FiniteRows(ledger)
    /\ IsFiniteSet(PostedEvents)
    /\ \A t \in TxIds : Exists(ledger, t) => \E e \in made : e.tx = t
    /\ RoutesLead
    /\ SettlementMirrorsProvider

\* The row a process writes is a transfer between the settlement account and the
\* account of its route.
LEMMA RowTransfer ==
    ASSUME NEW p \in Procs
    PROVE  IF IsReversal(item[p])
           THEN Row(p).entries = Transfer(route[p].account, Settlement, item[p].amount)
           ELSE Row(p).entries = Transfer(Settlement, route[p].account, item[p].amount)
<1>1. Row(p).entries = Entries(item[p], route[p])
  BY DEF Row
<1>2. CASE IsReversal(item[p])
  BY <1>1, <1>2 DEF Entries, ReversalEntries, ReversalToSuspense
<1>3. CASE ~IsReversal(item[p])
  BY <1>1, <1>3 DEF Entries, CreditCustomer, CreditSuspense
<1> QED
  BY <1>2, <1>3

\* The matcher chooses a wallet or suspense.
LEMMA RoutesStep ==
    ASSUME TypeInv, IngestInv, RoutesLead, [Next]_vars
    PROVE  RoutesLead'
<1>0. \A reason : ToSuspense(reason).account = Suspense
  BY DEF ToSuspense
<1>1. ASSUME NEW p \in Procs, ProcessStep(p) PROVE RoutesLead'
  <2>1. ASSUME NEW e \in EventRecord
        PROVE  /\ Match(e).account \in Customers \cup {Suspense}
               /\ MatchReversal(e).account \in Customers \cup {Suspense}
    <3>1. CASE StatusOf(e) = Missing
      BY <1>0, <3>1 DEF Match, MatchReversal
    <3>2. CASE StatusOf(e) # Missing
      <4>1. e.va \in VAs
        BY <3>2 DEF StatusOf, EventRecord
      <4>2. Owner[e.va] \in Customers
        BY <4>1, ReconAssumption
      <4>3. ToWallet(Owner[e.va]).account = Owner[e.va]
        BY DEF ToWallet
      <4> QED
        BY <1>0, <3>2, <4>2, <4>3 DEF Match, MatchReversal
    <3> QED
      BY <3>1, <3>2
  <2>2. CASE Matches(p)
    <3>1. item[p] \in EventRecord
      BY <2>2 DEF Matches, TypeInv, ItemsPresent
    <3>2. route'[p].account \in Customers \cup {Suspense}
      BY <2>1, <2>2, <3>1 DEF Matches
    <3> QED
      BY <1>1, <3>2 DEF RoutesLead, ProcessStep, Others
  <2>3. CASE Limits(p)
    BY <1>0, <1>1, <2>3 DEF RoutesLead, ProcessStep, Others, Limits
  <2>4. CASE pc'[p] \notin {"tier", "daily", "post"}
    BY <1>1, <2>4 DEF RoutesLead, ProcessStep, Others
  <2>5. Matches(p) \/ Limits(p) \/ pc'[p] \notin {"tier", "daily", "post"}
    BY <1>1 DEF ProcessStep, Takes, Looks, Ends, Writes, Lists, Finds, Fulfils, Marks,
       Dispatches, Keeps
  <2> QED
    BY <2>2, <2>3, <2>4, <2>5
<1>2. CASE Outside
  BY <1>2 DEF Outside, RoutesLead
<1>3. CASE CrashStep
  BY <1>3 DEF CrashStep, RoutesLead
<1> QED
  BY <1>1, <1>2, <1>3, Shapes

\* While the ledger stays as it is, no new payment can count as posted.
LEMMA BooksQuiet ==
    ASSUME OwnTransactions, TypeInv, TypeInv', IngestInv, BooksInv, UNCHANGED ledger,
           [Next]_vars
    PROVE  BooksInv'
<1>1. made \subseteq made' /\ made \subseteq Events /\ made' \subseteq Events
  BY HistoryGrows DEF TypeInv, TypeOK
<1>2. \A e \in Events : e.tx \in TxIds
  BY ReconAssumption DEF EventRecord
<1>3. ASSUME NEW e \in made', Exists(ledger, e.tx) PROVE e \in made
  <2>1. PICK f \in made : f.tx = e.tx
    BY <1>1, <1>2, <1>3 DEF BooksInv
  <2> QED
    BY <1>1, <2>1 DEF OwnTransactions
<1>4. {x \in made' : Exists(ledger, x.tx)} = {x \in made : Exists(ledger, x.tx)}
  BY <1>1, <1>3
<1>5. SettlementMirrorsProvider'
  BY <1>4 DEF BooksInv, SettlementMirrorsProvider
<1>6. PostedEvents' = PostedEvents
  BY <1>4 DEF PostedEvents
<1>7. RoutesLead'
  BY RoutesStep DEF BooksInv
<1> QED
  BY <1>1, <1>5, <1>6, <1>7 DEF BooksInv

\* A row that is written moves the settlement account by its payment.
LEMMA BooksWrite ==
    ASSUME OwnTransactions, TypeInv, SafetyInv, OriginInv, BooksInv, [Next]_vars,
           NEW p \in Procs, ProcessStep(p), Writes(p)
    PROVE  BooksInv'
<1>0. /\ ledger \in [TxIds -> Transaction] /\ made \subseteq Events
      /\ Events \subseteq EventRecord
  BY ReconAssumption DEF TypeInv, TypeOK
<1>1. PICK t : t = item[p].tx
  OBVIOUS
<1>2. PICK amount : amount = item[p].amount
  OBVIOUS
<1>3. PICK a : a = route[p].account
  OBVIOUS
<1>4. PICK row : row = Row(p)
  OBVIOUS
<1>5. /\ t \in TxIds /\ amount \in Int /\ amount > 0 /\ row \in Transaction
      /\ ~Exists(ledger, t) /\ ledger' = PostTransaction(ledger, t, row)
      /\ Exists(ledger', t) /\ made' = made
      /\ \A u \in TxIds \ {t} : ledger'[u] = ledger[u]
  BY <1>1, <1>2, <1>4, WriteFacts DEF Writes, ProcessStep, Others
<1>6. PICK e \in made : Source(p, e)
  BY DEF OriginInv, Origin, Writes
<1>7. /\ e \in Events /\ e.tx = t /\ e.amount = amount
      /\ IsReversal(e) <=> IsReversal(item[p])
  BY <1>0, <1>1, <1>2, <1>6 DEF Source, OwnTransactions, IsReversal
<1>8. a \in Customers \cup {Suspense} /\ a # Settlement /\ a \in Accounts
      /\ Settlement \in Accounts
  BY <1>3, AccountsAssumption DEF BooksInv, RoutesLead, Writes, Accounts
<1>9. \E dr, cr \in Accounts :
          /\ dr # cr /\ row.entries = Transfer(dr, cr, amount)
          /\ IF IsReversal(e) THEN cr = Settlement ELSE dr = Settlement
  BY <1>2, <1>3, <1>4, <1>7, <1>8, RowTransfer
<1>10. PICK dr \in Accounts, cr \in Accounts :
          /\ dr # cr /\ row.entries = Transfer(dr, cr, amount)
          /\ IF IsReversal(e) THEN cr = Settlement ELSE dr = Settlement
  BY <1>9
<1>11. IsFiniteSet(row.entries) /\ Movement(row, Settlement) = Signed(e)
  <2>1. /\ IsFiniteSet(row.entries)
        /\ Movement(row, Settlement) = IF Settlement = cr THEN amount
                                       ELSE IF Settlement = dr THEN -amount ELSE 0
    BY <1>5, <1>10, TransferMovement
  <2> QED
    BY <1>7, <1>10, <2>1 DEF Signed
<1>12. /\ FiniteRows(ledger')
       /\ GetBalance(ledger', Settlement) = GetBalance(ledger, Settlement) + Signed(e)
  BY <1>0, <1>5, <1>11, BalanceAfterPost DEF BooksInv
<1>13. SumFunction([x \in Accounts |-> GetBalance(ledger', x)]) = 0
  <2>1. SumFunction([x \in Accounts |-> GetBalance(ledger', x)]) =
            SumFunction([x \in Accounts |-> GetBalance(ledger, x)])
    BY <1>0, <1>5, <1>10, TransferKeepsTotal DEF BooksInv
  <2> QED
    BY <2>1 DEF BooksInv, SettlementMirrorsProvider
<1> DEFINE S == {x \in made : Exists(ledger, x.tx)}
           T == {x \in made' : Exists(ledger', x.tx)}
           f == [x \in S |-> Signed(x)]
           g == [x \in T |-> Signed(x)]
<1>14. e \notin S /\ T = S \cup {e}
  <2>1. ASSUME NEW x \in made, x # e PROVE Exists(ledger', x.tx) <=> Exists(ledger, x.tx)
    <3>1. x.tx \in TxIds \ {t}
      BY <1>0, <1>7, <2>1 DEF OwnTransactions, EventRecord
    <3> QED
      BY <1>5, <3>1 DEF Exists, GetTransaction
  <2> QED
    BY <1>5, <1>7, <2>1
<1>15. IsFiniteSet(S) /\ IsFiniteSet(S \cup {e})
  BY FS_AddElement DEF BooksInv, PostedEvents
<1>16. \A x \in made : Signed(x) \in Int
  BY <1>0 DEF Signed, EventRecord
<1>17. /\ f \in [S -> Int] /\ g \in [S \cup {e} -> Int]
       /\ \A y \in S : f[y] = g[y]
       /\ g[e] = Signed(e)
  BY <1>14, <1>16
<1>18. GetBalance(ledger, Settlement) = SumFunction(f)
  BY DEF BooksInv, SettlementMirrorsProvider, Signed
<1>19. T = PostedEvents'
  BY DEF PostedEvents
<1>20. GetBalance(ledger', Settlement) = SumFunction(g) => SettlementMirrorsProvider'
  BY <1>13 DEF SettlementMirrorsProvider, Signed, IsReversal
<1> HIDE DEF S, T, f, g
<1>21. SumFunction(g) = SumFunction(f) + g[e]
  BY <1>14, <1>15, <1>17, FunctionSumExtend
<1>22. SettlementMirrorsProvider'
  BY <1>12, <1>17, <1>18, <1>20, <1>21
<1>23. ASSUME NEW u \in TxIds, Exists(ledger', u) PROVE \E x \in made' : x.tx = u
  <2>1. CASE u = t
    BY <1>5, <1>7, <2>1
  <2>2. CASE u # t
    BY <1>5, <1>23, <2>2 DEF BooksInv, Exists, GetTransaction
  <2> QED
    BY <2>1, <2>2
<1>24. RoutesLead'
  BY RoutesStep DEF BooksInv, OriginInv
<1> QED
  BY <1>12, <1>14, <1>15, <1>19, <1>22, <1>23, <1>24 DEF BooksInv

\* In the beginning nobody owes anything.
LEMMA BooksInit == Init => BooksInv
<1> SUFFICES ASSUME Init PROVE BooksInv
  OBVIOUS
<1>1. made = {} /\ ledger = EmptyLedger
  BY DEF Init
<1>2. /\ FiniteRows(ledger)
      /\ \A a : GetBalance(ledger, a) = 0
  BY <1>1, EmptyBalance
<1>3. PostedEvents = {} /\ IsFiniteSet({})
  BY <1>1, FS_EmptySet DEF PostedEvents
<1>4. \A t \in TxIds : ~Exists(ledger, t)
  BY <1>1 DEF EmptyLedger, Absent, Exists, GetTransaction
<1>5. RoutesLead
  BY DEF Init, RoutesLead
<1>6. SettlementMirrorsProvider
  <2> DEFINE f == [e \in {x \in made : Exists(ledger, x.tx)} |-> Signed(e)]
             g == [a \in Accounts |-> GetBalance(ledger, a)]
  <2>1. {x \in made : Exists(ledger, x.tx)} = {}
    BY <1>1
  <2>2. f \in [{} -> Int]
    BY <2>1
  <2>3. g \in [Accounts -> Int] /\ \A a \in Accounts : g[a] = 0
    BY <1>2
  <2>4. (GetBalance(ledger, Settlement) = SumFunction(f) /\ SumFunction(g) = 0)
            => SettlementMirrorsProvider
    BY DEF SettlementMirrorsProvider, Signed
  <2> HIDE DEF f, g
  <2>5. SumFunction(f) = 0 /\ SumFunction(g) = 0
    BY <1>3, <2>2, <2>3, FunctionSumType, FunctionSumZero, AccountsFinite
  <2> QED
    BY <1>2, <2>4, <2>5
<1> QED
  BY <1>2, <1>3, <1>4, <1>5, <1>6 DEF BooksInv

\* The settlement account owes customers and suspense exactly what the provider
\* holds for the posted events, and the balances of all accounts add up to zero,
\* however worker, sweeps, errors and crashes interleave.
THEOREM BooksMirrorProvider == OwnTransactions => (Spec => []SettlementMirrorsProvider)
<1> SUFFICES ASSUME OwnTransactions PROVE Spec => []SettlementMirrorsProvider
  OBVIOUS
<1>1. TypeInv /\ TypeInv' /\ SafetyInv /\ OriginInv /\ BooksInv /\ [Next]_vars => BooksInv'
  <2> SUFFICES ASSUME TypeInv, TypeInv', SafetyInv, OriginInv, BooksInv, [Next]_vars
               PROVE  BooksInv'
    OBVIOUS
  <2>1. UNCHANGED ledger \/ \E p \in Procs : ProcessStep(p) /\ Writes(p)
    BY Shapes DEF OriginInv, Outside, CrashStep, NothingPosted, ProcessStep, Takes, Looks,
       Ends, Matches, Limits, Lists, Finds, Fulfils, Marks, Dispatches
  <2> QED
    BY <2>1, BooksQuiet, BooksWrite DEF OriginInv
<1>2. BooksInv => SettlementMirrorsProvider
  BY DEF BooksInv
<1> QED
  BY <1>1, <1>2, BooksInit, OriginInvariant, PTL DEF Spec

=============================================================================
