-------------------------------- MODULE Sweep --------------------------------
(***************************************************************************)
(* The windows of the sweep (recon/sweep.go): which payments the runs list *)
(* between them, when time passes, runs overlap, last long, fail or are    *)
(* logged late, and the provider lists a payment some time after it was    *)
(* made.  What happens to a listed payment is in module Recon; here it is  *)
(* one step, ProcessDirect, with the amount it is posted with.             *)
(*                                                                         *)
(*   idle -> window -> list -> item ... list -> item ... -> log -> idle    *)
(*                                                                         *)
(* A page is fetched with a call of the provider's client (TokenCache).    *)
(***************************************************************************)
EXTENDS TokenCache, Integers

CONSTANTS
    Sweepers,  \* requests to /internal/sweep that may run at the same time
    Payments,
    Kobo,      \* Kobo[p]: what was paid
    Error,     \* Error[p]: rounding error of amount * 100 in floating point, in
               \* thousandths of a kobo
    Backfills, \* values of ?from=
    None,      \* nil, the zero time
    Interval,  \* SWEEP_INTERVAL
    Overlap,   \* SWEEP_OVERLAP
    PageSize,
    MaxTime,   \* bound on the clock
    Focuses    \* what behaviours look at: many calls within one moment, or a long
               \* time with a token that stays valid; and the bounds on payments
               \* and runs in it

Times == 0..MaxTime

\* A transfer to a virtual account; the adapter drops other entries of the listing.
Payment == [at: Times, listed: Times \cup {None}]

Sources == {"webhook", "sweep", "internal"}

\* A row of transactions: its source and amount_kobo.
Posting == [source: Sources, kobo: Nat]

\* A run: its window from..to, whether it starts behind the end of the last one (cut),
\* whether it has a cursor, and what of the listing it has not processed yet.
Run == [pc: {"idle", "window", "list", "item", "log"}, to: Times, from: Int,
        cut: BOOLEAN, cursor: BOOLEAN, rest: SUBSET Payments, page: SUBSET Payments,
        failed: BOOLEAN]

ASSUME SweepAssumption ==
    /\ Sweepers \subseteq Callers
    /\ Kobo \in [Payments -> Nat \ {0}]
    /\ Interval \in Nat /\ Overlap \in Nat
    /\ MaxTime \in Nat
    /\ PageSize \in Nat \ {0}
    /\ None \notin Int \cup Payment \cup Posting
    /\ Error \in [Payments -> {-1, 0, 1}]
    /\ Backfills \subseteq Int
    /\ Focuses \subseteq [calls: BOOLEAN, payments: SUBSET Payments, runs: Nat]

VARIABLES
    focus,    \* which of Focuses this behaviour has
    clock,
    pay,      \* pay[p]: when it was made, when it was listed, and what it is
    posted,   \* posted[p]: source and amount_kobo of the transaction, or None
    last,     \* the newest ran_at in sweep_runs without an error, or None
    run,      \* what each sweep is at
    runs,     \* how many were started
    floor,    \* history: start of the first window, or of a later one cut short
    longest,  \* history: longest time from the start of a run to its log
    missed    \* history: payments that a run was sent, and skipped or failed to process

sweepVars == <<focus, clock, pay, posted, last, run, runs, floor, longest, missed>>

vars == <<tokenVars, sweepVars>>

NoRun == [pc |-> "idle", to |-> 0, from |-> 0, cut |-> FALSE, cursor |-> FALSE,
          rest |-> {}, page |-> {}, failed |-> FALSE]

\* Type invariant: windows are times, and transactions.source keeps to its CHECK.
TypeOK ==
    /\ token \in TokenStates
    /\ inflight \in Callers \cup {Nobody}
    /\ call \in [Callers -> Call]
    /\ faults \in 0..MaxFaults
    /\ focus \in Focuses
    /\ clock \in Times
    /\ pay \in [Payments -> Payment \cup {None}]
    /\ posted \in [Payments -> Posting \cup {None}]
    /\ last \in Times \cup {None}
    /\ run \in [Sweepers -> Run]
    /\ runs \in 0..focus.runs
    /\ floor \in Int \cup {None}
    /\ longest \in Times
    /\ missed \subseteq Payments

Init ==
    /\ focus \in Focuses
    /\ TokenInit(IF focus.calls THEN "empty" ELSE "fresh")
    /\ clock = 0
    /\ pay = [p \in Payments |-> None]
    /\ posted = [p \in Payments |-> None]
    /\ last = None
    /\ run = [s \in Sweepers |-> NoRun]
    /\ runs = 0
    /\ floor = None
    /\ longest = 0
    /\ missed = {}

-----------------------------------------------------------------------------
(* The world around the sweep.                                             *)

Tick ==
    /\ ~focus.calls
    /\ clock < MaxTime
    /\ clock' = clock + 1
    /\ UNCHANGED <<tokenVars, focus, pay, posted, last, run, runs, floor, longest, missed>>

Pay(p) ==
    /\ p \in focus.payments /\ pay[p] = None
    /\ pay' = [pay EXCEPT ![p] = [at |-> clock, listed |-> None]]
    /\ UNCHANGED <<tokenVars, focus, clock, posted, last, run, runs, floor, longest, missed>>

\* The provider's listing shows a payment under the time it was made.
List(p) ==
    /\ pay[p] # None /\ pay[p].listed = None
    /\ pay' = [pay EXCEPT ![p].listed = clock]
    /\ UNCHANGED <<tokenVars, focus, clock, posted, last, run, runs, floor, longest, missed>>

-----------------------------------------------------------------------------
(* Amounts.                                                                *)

\* amount * 100, in thousandths of a kobo.
Product(p) == 1000 * Kobo[p] + Error[p]

\* ParseWebhook: int64(amount * 100).
ParseWebhook(p) == Product(p) \div 1000

\* Mutant of NairaToKobo: the conversion of the webhook.
NairaToKoboTruncated(p) == Product(p) \div 1000

\* nairaToKobo: int64(f * 100 + 0.5).
NairaToKobo(p) == (Product(p) + 500) \div 1000

\* ON CONFLICT (id) DO NOTHING.
PostOnce(p, source, kobo) ==
    posted' = IF posted[p] = None
              THEN [posted EXCEPT ![p] = [source |-> source, kobo |-> kobo]]
              ELSE posted

\* The webhook comes at any time, or never.
Webhook(p) ==
    /\ pay[p] # None /\ posted[p] = None
    /\ PostOnce(p, "webhook", ParseWebhook(p))
    /\ UNCHANGED <<tokenVars, focus, clock, pay, last, run, runs, floor, longest, missed>>

-----------------------------------------------------------------------------
(* SweepRunner.Run.                                                        *)

\* Mutant of NextFrom: the overlap is left out once there was a run.
NextFromExact(now) == IF last = None THEN now - (Interval + Overlap) ELSE last

\* Where the next window starts as things stand.
NextFrom(now) == IF last = None THEN now - (Interval + Overlap) ELSE last - Overlap

\* HandleSweep and the start of Run; with ?from= the window is given.
StartRun(s) ==
    /\ run[s].pc = "idle" /\ runs < focus.runs
    /\ runs' = runs + 1
    /\ \/ run' = [run EXCEPT ![s] = [NoRun EXCEPT !.pc = "window", !.to = clock]]
       \/ \E from \in Backfills :
              run' = [run EXCEPT ![s] = [NoRun EXCEPT !.pc = "list", !.to = clock, !.from = from,
                                                      !.cut = from > NextFrom(clock)]]
    /\ UNCHANGED <<tokenVars, focus, clock, pay, posted, last, floor, longest, missed>>

\* computeWindowFrom; the window ends when the run started.
ComputeWindowFrom(s) ==
    /\ run[s].pc = "window"
    /\ run' = [run EXCEPT ![s].pc = "list", ![s].from = NextFrom(run[s].to)]
    /\ UNCHANGED <<tokenVars, focus, clock, pay, posted, last, runs, floor, longest, missed>>

\* GetLastSweepTime takes every error for an empty table.
LastSweepTimeFails(s) ==
    LET from == run[s].to - (Interval + Overlap)
    IN  /\ Fault
        /\ run[s].pc = "window"
        /\ run' = [run EXCEPT ![s].pc = "list", ![s].from = from,
                              ![s].cut = from > NextFrom(run[s].to)]
        /\ UNCHANGED <<token, inflight, call, focus, clock, pay, posted, last, runs, floor, longest, missed>>

\* What ListTransactions finds in the window.
Listing(s) ==
    {p \in Payments : /\ pay[p] # None
                      /\ pay[p].listed # None
                      /\ run[s].from <= pay[p].at /\ pay[p].at <= run[s].to}

\* A page goes out with the call's token.
RequestPage(s) ==
    /\ run[s].pc = "list"
    /\ AuthDo(s)
    /\ UNCHANGED sweepVars

\* The items of a page, then the next cursor, until there is none.
Advance(s, page, rest) ==
    run' = [run EXCEPT ![s].pc = CASE page # {} -> "item"
                                   [] page = {} /\ rest # {} -> "list"
                                   [] OTHER -> "log",
                       ![s].cursor = TRUE, ![s].page = page, ![s].rest = rest]

\* Pages are cut from what is listed at the first one: what the listing gains
\* afterwards the cursor may have passed.  The run gets a page without its skipped
\* entries.
CutPage(s, skipped) ==
    LET rest == IF run[s].cursor THEN run[s].rest ELSE Listing(s)
    IN  /\ run[s].pc = "list"
        /\ call[s].pc = "send" /\ call[s].held = "fresh"
        /\ \E page \in SUBSET rest :
               /\ Cardinality(page) = IF Cardinality(rest) < PageSize THEN Cardinality(rest)
                                                                      ELSE PageSize
               /\ skipped \subseteq page
               /\ Advance(s, page \ skipped, rest \ page)
        /\ Return(s)
        /\ UNCHANGED <<token, inflight, focus, clock, pay, posted, last, runs, floor, longest>>

ReceivePage(s) == CutPage(s, {}) /\ UNCHANGED <<faults, missed>>

\* An entry that convertTransaction cannot read is skipped; neither the run nor its
\* log knows of it.
EntryMalformed(s) ==
    /\ Fault
    /\ \E p \in Payments : CutPage(s, {p}) /\ missed' = missed \cup {p}

\* A page that cannot be had ends the run, with its error in the log.
GiveUp(s) ==
    /\ run' = [run EXCEPT ![s] = [NoRun EXCEPT !.pc = "log", !.failed = TRUE]]
    /\ Return(s)

\* 401 for a token that is not valid, or an error of accessToken.
PageRefused(s) ==
    /\ run[s].pc = "list"
    /\ \/ call[s].pc = "error"
       \/ call[s].pc = "send" /\ call[s].held # "fresh"
    /\ GiveUp(s)
    /\ UNCHANGED <<token, inflight, faults, focus, clock, pay, posted, last, runs, floor, longest, missed>>

PageFails(s) ==
    /\ Fault
    /\ run[s].pc = "list" /\ call[s].pc = "send"
    /\ GiveUp(s)
    /\ UNCHANGED <<token, inflight, focus, clock, pay, posted, last, runs, floor, longest, missed>>

\* Mutant of ProcessDirect: the item is built with a source of its own.
ProcessDirectAsCron(s, p) ==
    /\ PostOnce(p, "cron", NairaToKobo(p))
    /\ Advance(s, run[s].page \ {p}, run[s].rest)

ProcessDirect(s, p) ==
    /\ PostOnce(p, "sweep", NairaToKobo(p))
    /\ Advance(s, run[s].page \ {p}, run[s].rest)

Item(s) ==
    /\ run[s].pc = "item"
    /\ \E p \in run[s].page : ProcessDirect(s, p)
    /\ UNCHANGED <<tokenVars, focus, clock, pay, last, runs, floor, longest, missed>>

\* The error of one item does not end the run, nor does it appear in its log.
ItemFails(s) ==
    /\ Fault
    /\ run[s].pc = "item"
    /\ \E p \in run[s].page : /\ missed' = missed \cup {p}
                              /\ Advance(s, run[s].page \ {p}, run[s].rest)
    /\ UNCHANGED <<token, inflight, call, focus, clock, pay, posted, last, runs, floor, longest>>

Later(x, y) == IF x = None \/ y > x THEN y ELSE x

\* CreateSweepRun: ran_at is the time of the insert.
CreateSweepRun(s) ==
    LET r == run[s]
    IN  /\ r.pc = "log"
        /\ IF r.failed
           THEN UNCHANGED <<last, floor, longest>>
           ELSE /\ last' = clock
                /\ longest' = Later(longest, clock - r.to)
                /\ floor' = IF last = None \/ r.cut THEN Later(floor, r.from) ELSE floor
        /\ run' = [run EXCEPT ![s] = NoRun]
        /\ UNCHANGED <<tokenVars, focus, clock, pay, posted, runs, missed>>

\* An error of the insert is only logged.
CreateSweepRunFails(s) ==
    /\ Fault
    /\ run[s].pc = "log"
    /\ run' = [run EXCEPT ![s] = NoRun]
    /\ UNCHANGED <<token, inflight, call, focus, clock, pay, posted, last, runs, floor, longest, missed>>

-----------------------------------------------------------------------------
\* Other callers of the provider: requests of tenants.
OtherCall(c) ==
    /\ c \notin Sweepers
    /\ focus.calls
    /\ \/ AuthDo(c)
       \/ call[c].pc \in {"send", "error"} /\ Return(c) /\ UNCHANGED <<token, inflight, faults>>
    /\ UNCHANGED sweepVars

\* The process dies with its runs, its calls and its token.
Crash ==
    /\ Fault
    /\ token' = "empty"
    /\ inflight' = Nobody
    /\ call' = [c \in Callers |-> NoCall]
    /\ run' = [s \in Sweepers |-> NoRun]
    /\ UNCHANGED <<focus, clock, pay, posted, last, runs, floor, longest, missed>>

Environment ==
    \/ Tick
    \/ \E p \in Payments : Pay(p) \/ List(p) \/ Webhook(p)
    \/ \E c \in Callers : OtherCall(c)
    \/ focus.calls /\ ExpireToken /\ UNCHANGED sweepVars

RunStep(s) ==
    \/ StartRun(s)
    \/ ComputeWindowFrom(s)
    \/ RequestPage(s)
    \/ ReceivePage(s)
    \/ PageRefused(s)
    \/ Item(s)
    \/ CreateSweepRun(s)

Failure ==
    \/ \E c \in Callers : TokenFault(c) /\ UNCHANGED sweepVars
    \/ \E s \in Sweepers : \/ LastSweepTimeFails(s)
                           \/ PageFails(s)
                           \/ EntryMalformed(s)
                           \/ ItemFails(s)
                           \/ CreateSweepRunFails(s)
    \/ Crash

Next ==
    \/ Environment
    \/ \E c \in Callers : TokenStep(c) /\ UNCHANGED sweepVars
    \/ \E s \in Sweepers : RunStep(s)
    \/ Failure

Spec == Init /\ [][Next]_vars

-----------------------------------------------------------------------------
\* What the overlap is for: a payment that nobody has posted is in the window of the
\* next run, as long as the time the provider took to list it and the longest run
\* together are within the overlap, no run was started behind the end of the last
\* one, and it was not skipped as malformed or failed as an item.  A page that failed,
\* a log that was lost, a crash and a second run at the same time lose nothing.
NothingSkipped ==
    \A p \in Payments :
        (/\ last # None
         /\ pay[p] # None /\ posted[p] = None /\ p \notin missed
         /\ pay[p].listed # None
         /\ (pay[p].listed - pay[p].at) + longest <= Overlap
         /\ pay[p].at >= floor)
            => pay[p].at >= NextFrom(clock)

\* "e.g. 15.55 naira -> 1555 kobo, not 1554": the sweep posts what was paid.  Only
\* the webhook can post one kobo less, when it comes first and the product is just
\* below a whole number; nobody ever posts more.
PostedAmounts ==
    \A p \in Payments : posted[p] # None =>
        \/ posted[p].kobo = Kobo[p]
        \/ /\ posted[p].source = "webhook" /\ Error[p] < 0
           /\ posted[p].kobo = Kobo[p] - 1
=============================================================================
