----------------------------- MODULE SweepProofs -----------------------------
(***************************************************************************)
(* Theorems about the provider's token cache as the sweeps and the other   *)
(* callers use it, and about the windows of the sweeps, for any number of  *)
(* callers, sweeps, payments and failures, and for all times.              *)
(***************************************************************************)
EXTENDS Sweep, TLAPS

TokenType ==
    /\ token \in TokenStates
    /\ inflight \in Callers \cup {Nobody}
    /\ call \in [Callers -> Call]
    /\ faults \in Nat

\* The field inflight and the goroutine that refreshes agree.
InflightRefreshes == \A c \in Callers : call[c].pc = "fetch" <=> inflight = c

\* Without a failure a refresh ends with a token, which is there for whoever waited.
\* (ExpireToken leaves a token alone that somebody waits for.)
RefreshesDeliver ==
    faults = 0 =>
        \A c \in Callers :
            /\ call[c].pc = "close" => call[c].outcome = "ok" /\ call[c].held = "fresh"
            /\ call[c].pc = "woken" => token = "fresh"
            /\ (call[c].pc = "wait" /\ call[call[c].on].pc = "close") => token = "fresh"
            /\ call[c].outcome = "ok"

TokenInv ==
    /\ TokenType
    /\ InflightRefreshes
    /\ NobodyStranded
    /\ RefreshesDeliver
    /\ SentTokensFresh

-----------------------------------------------------------------------------
(* What a step of Sweep does to the token and its callers.                 *)

\* A call that is over.
Finish(c) ==
    /\ call[c].pc \in {"send", "error"}
    /\ Return(c)
    /\ UNCHANGED <<token, inflight>>
    /\ faults' \in {faults, faults + 1}

Restart ==
    /\ token' = "empty" /\ inflight' = Nobody
    /\ call' = [c \in Callers |-> NoCall]
    /\ faults' = faults + 1

Elsewhere ==
    /\ UNCHANGED <<token, inflight, call>>
    /\ faults' \in {faults, faults + 1}

\* Every step of every sweep, call, failure and crash is one of these.
LEMMA SweepSteps ==
    ASSUME [Next]_vars
    PROVE  \/ \E c \in Callers : TokenStep(c) \/ TokenFault(c) \/ AuthDo(c) \/ Finish(c)
           \/ ExpireToken
           \/ Restart
           \/ Elsewhere
<1>1. CASE Environment
  <2>1. CASE Tick \/ \E p \in Payments : Pay(p) \/ List(p) \/ Webhook(p)
    BY <2>1 DEF Tick, Pay, List, Webhook, Elsewhere, tokenVars
  <2>2. CASE \E c \in Callers : OtherCall(c)
    BY <2>2 DEF OtherCall, Finish
  <2> QED
    BY <1>1, <2>1, <2>2 DEF Environment
<1>2. CASE \E c \in Callers : TokenStep(c) /\ UNCHANGED sweepVars
  BY <1>2
<1>3. ASSUME NEW s \in Sweepers, RunStep(s)
      PROVE  (\E c \in Callers : AuthDo(c) \/ Finish(c)) \/ Elsewhere
  <2>0. s \in Callers
    BY SweepAssumption
  <2>1. CASE StartRun(s) \/ ComputeWindowFrom(s) \/ Item(s) \/ CreateSweepRun(s)
    BY <2>1 DEF StartRun, ComputeWindowFrom, Item, CreateSweepRun, Elsewhere, tokenVars
  <2>2. CASE RequestPage(s)
    BY <2>0, <2>2 DEF RequestPage
  <2>3. CASE ReceivePage(s)
    BY <2>0, <2>3 DEF ReceivePage, CutPage, Finish
  <2>4. CASE PageRefused(s)
    BY <2>0, <2>4 DEF PageRefused, GiveUp, Finish
  <2> QED
    BY <1>3, <2>1, <2>2, <2>3, <2>4 DEF RunStep
<1>4. CASE Failure
  <2>1. CASE \E c \in Callers : TokenFault(c) /\ UNCHANGED sweepVars
    BY <2>1
  <2>2. ASSUME NEW s \in Sweepers,
               LastSweepTimeFails(s) \/ ItemFails(s) \/ CreateSweepRunFails(s)
        PROVE  Elsewhere
    BY <2>2 DEF LastSweepTimeFails, ItemFails, CreateSweepRunFails, Fault, Elsewhere
  <2>3. ASSUME NEW s \in Sweepers, PageFails(s)
        PROVE  \E c \in Callers : Finish(c)
    BY <2>3, SweepAssumption DEF PageFails, GiveUp, Fault, Finish
  <2>5. ASSUME NEW s \in Sweepers, EntryMalformed(s)
        PROVE  \E c \in Callers : Finish(c)
    BY <2>5, SweepAssumption DEF EntryMalformed, CutPage, Fault, Finish
  <2>4. CASE Crash
    BY <2>4 DEF Crash, Fault, Restart
  <2> QED
    BY <1>4, <2>1, <2>2, <2>3, <2>4, <2>5 DEF Failure
<1>5. CASE UNCHANGED vars
  BY <1>5 DEF vars, tokenVars, Elsewhere
<1> QED
  BY <1>1, <1>2, <1>3, <1>4, <1>5 DEF Next

-----------------------------------------------------------------------------
(* The inductive invariant.                                                *)

\* At the start nobody is calling, so nobody refreshes a token.
LEMMA TokenInvInit == Init => TokenInv
<1> SUFFICES ASSUME Init PROVE TokenInv
  OBVIOUS
<1>1. /\ token \in {"empty", "fresh"} /\ inflight = Nobody
      /\ call = [c \in Callers |-> NoCall] /\ faults = 0
  BY DEF Init, TokenInit
<1>2. TokenType
  BY <1>1 DEF TokenType, TokenStates, NoCall, Call, CallSteps
<1> QED
  BY <1>1, <1>2, TokenAssumption
     DEF TokenInv, InflightRefreshes, NobodyStranded, RefreshesDeliver, SentTokensFresh, NoCall

\* A caller enters the first critical section of accessToken and leaves it with a
\* token, a channel to wait for, or the refresh to do.
LEMMA AccessTokenInv ==
    ASSUME TokenInv, NEW c \in Callers, AccessToken(c)
    PROVE  TokenInv'
<1> USE DEF TokenInv, TokenType
<1>1. CASE token = "fresh"
  BY <1>1 DEF AccessToken, InflightRefreshes, NobodyStranded, RefreshesDeliver,
              SentTokensFresh, TokenStates, Call, CallSteps
<1>2. CASE token # "fresh" /\ inflight # Nobody
  BY <1>2 DEF AccessToken, InflightRefreshes, NobodyStranded, RefreshesDeliver,
              SentTokensFresh, TokenStates, Call, CallSteps
<1>3. CASE token # "fresh" /\ inflight = Nobody
  BY <1>3, TokenAssumption
     DEF AccessToken, Refreshing, InflightRefreshes, NobodyStranded, RefreshesDeliver,
         SentTokensFresh, TokenStates, Call, CallSteps
<1> QED
  BY <1>1, <1>2, <1>3

\* The refresh is answered: with a token, or with an error.
LEMMA FetchedInv ==
    ASSUME TokenInv, NEW c \in Callers, FetchToken(c) \/ FetchTokenFails(c)
    PROVE  TokenInv'
<1> USE DEF TokenInv, TokenType
<1>1. \A d \in Callers : call[d].pc = "fetch" => d = c
  BY DEF FetchToken, FetchTokenFails, InflightRefreshes
<1>2. CASE FetchToken(c)
  <2>1. /\ call[c].pc = "fetch" /\ call'[c].pc = "close" /\ call'[c].held = "fresh"
        /\ call'[c].outcome = call[c].outcome
        /\ \A d \in Callers \ {c} : call'[d] = call[d]
        /\ token' = "fresh" /\ inflight' = Nobody /\ faults' = faults
        /\ call' \in [Callers -> Call] /\ token' \in TokenStates
    BY <1>2 DEF FetchToken, Call, CallSteps, TokenStates
  <2>2. TokenType'
    BY <2>1
  <2>3. InflightRefreshes'
    BY <1>1, <2>1, TokenAssumption DEF InflightRefreshes
  <2>4. NobodyStranded'
    BY <1>1, <2>1 DEF NobodyStranded
  <2>5. RefreshesDeliver'
    BY <1>1, <2>1, <2>4 DEF RefreshesDeliver, NobodyStranded
  <2>6. SentTokensFresh'
    BY <1>1, <2>1 DEF SentTokensFresh, RefreshesDeliver
  <2> QED
    BY <2>2, <2>3, <2>4, <2>5, <2>6
<1>3. CASE FetchTokenFails(c)
  <2>1. /\ call[c].pc = "fetch" /\ call'[c].pc = "close"
        /\ \A d \in Callers \ {c} : call'[d] = call[d]
        /\ token' = token /\ inflight' = Nobody /\ faults' \in Nat /\ faults' # 0
        /\ call' \in [Callers -> Call]
    <3>1. faults' \in Nat /\ faults' # 0
      BY <1>3 DEF FetchTokenFails, Fault
    <3>2. /\ call[c].pc = "fetch" /\ call'[c].pc = "close"
          /\ \A d \in Callers \ {c} : call'[d] = call[d]
          /\ call' \in [Callers -> Call]
      BY <1>3, TokenAssumption DEF FetchTokenFails, Call, CallSteps
    <3> QED
      BY <1>3, <3>1, <3>2 DEF FetchTokenFails
  <2>2. TokenType'
    BY <2>1
  <2>3. InflightRefreshes'
    BY <1>1, <2>1, TokenAssumption DEF InflightRefreshes
  <2>4. NobodyStranded'
    BY <1>1, <2>1 DEF NobodyStranded
  <2>5. RefreshesDeliver'
    BY <1>1, <2>1, <2>4 DEF RefreshesDeliver, NobodyStranded
  <2>6. SentTokensFresh'
    BY <1>1, <2>1 DEF SentTokensFresh, RefreshesDeliver
  <2> QED
    BY <2>2, <2>3, <2>4, <2>5, <2>6
<1> QED
  BY <1>2, <1>3

\* Closing the channel wakes everybody who waits for this refresh.
LEMMA CloseChannelInv ==
    ASSUME TokenInv, NEW c \in Callers, CloseChannel(c)
    PROVE  TokenInv'
<1> USE DEF TokenInv, TokenType
<1>1. /\ call[c].pc = "close" /\ UNCHANGED <<token, inflight, faults>>
      /\ call' \in [Callers -> Call]
  BY DEF CloseChannel, Call, CallSteps
<1>2. /\ call[c].outcome = "ok" => call'[c].pc = "send"
      /\ call'[c].pc \in {"send", "error"}
      /\ call'[c].held = call[c].held /\ call'[c].outcome = call[c].outcome
  <2>1. call'[c] = [call[c] EXCEPT !.pc = IF call[c].outcome = "ok" THEN "send" ELSE "error"]
    BY DEF CloseChannel, Woken
  <2>2. call[c] \in Call
    OBVIOUS
  <2> QED
    BY <2>1, <2>2 DEF Call
<1>3. \A d \in Callers \ {c} :
          (call[d].pc = "wait" /\ call[d].on = c) =>
              call'[d].pc = "woken" /\ call'[d].outcome = call[d].outcome
  BY DEF CloseChannel, Woken, Call
<1>4. \A d \in Callers \ {c} :
          ~(call[d].pc = "wait" /\ call[d].on = c) => call'[d] = call[d]
  BY DEF CloseChannel, Woken
<1>5. TokenType'
  BY <1>1
<1>6. InflightRefreshes'
  BY <1>1, <1>2, <1>3, <1>4 DEF InflightRefreshes
<1>7. NobodyStranded'
  <2> SUFFICES ASSUME NEW d \in Callers, call'[d].pc = "wait"
               PROVE  /\ call'[d].on \in Callers
                      /\ call'[call'[d].on].pc \in {"fetch", "close"}
    BY DEF NobodyStranded
  <2>1. d # c /\ call'[d] = call[d] /\ call[d].on # c
    BY <1>2, <1>3, <1>4
  <2>2. call[d].on \in Callers /\ call[call[d].on].pc \in {"fetch", "close"}
    BY <2>1 DEF NobodyStranded
  <2>3. call'[call[d].on] = call[call[d].on]
    BY <1>4, <2>1, <2>2
  <2> QED
    BY <2>1, <2>2, <2>3
<1>8. RefreshesDeliver'
  <2> SUFFICES ASSUME faults' = 0, NEW d \in Callers
               PROVE  /\ call'[d].pc = "close" => /\ call'[d].outcome = "ok"
                                                 /\ call'[d].held = "fresh"
                      /\ call'[d].pc = "woken" => token' = "fresh"
                      /\ (call'[d].pc = "wait" /\ call'[call'[d].on].pc = "close")
                             => token' = "fresh"
                      /\ call'[d].outcome = "ok"
    BY DEF RefreshesDeliver
  <2>1. CASE d = c
    BY <1>1, <1>2, <2>1 DEF RefreshesDeliver
  <2>2. CASE d # c /\ call[d].pc = "wait" /\ call[d].on = c
    BY <1>1, <1>3, <2>2 DEF RefreshesDeliver
  <2>3. CASE d # c /\ ~(call[d].pc = "wait" /\ call[d].on = c)
    <3>1. call'[d] = call[d]
      BY <1>4, <2>3
    <3>2. call'[d].pc = "wait" => call'[call'[d].on] = call[call[d].on]
      BY <1>4, <2>3, <3>1 DEF NobodyStranded
    <3> QED
      BY <1>1, <3>1, <3>2 DEF RefreshesDeliver
  <2> QED
    BY <2>1, <2>2, <2>3
<1>9. SentTokensFresh'
  BY <1>1, <1>2, <1>3, <1>4 DEF SentTokensFresh, RefreshesDeliver
<1> QED
  BY <1>5, <1>6, <1>7, <1>8, <1>9

\* A waiter goes on, with the token of the cache or without.
LEMMA WaiterInv ==
    ASSUME TokenInv, NEW c \in Callers, TakeToken(c) \/ ContextDone(c)
    PROVE  TokenInv'
<1> USE DEF TokenInv, TokenType
<1>1. CASE TakeToken(c)
  <2>1. /\ call[c].pc = "woken" /\ call'[c].pc = "send" /\ call'[c].held = token
        /\ call'[c].outcome = call[c].outcome
        /\ \A d \in Callers \ {c} : call'[d] = call[d]
        /\ token' = token /\ inflight' = inflight /\ faults' = faults
        /\ call' \in [Callers -> Call]
    BY <1>1 DEF TakeToken, Call, CallSteps
  <2>2. TokenType'
    BY <2>1
  <2>3. InflightRefreshes'
    BY <2>1, TokenAssumption DEF InflightRefreshes
  <2>4. NobodyStranded'
    BY <2>1 DEF NobodyStranded
  <2>5. RefreshesDeliver'
    BY <2>1, <2>4 DEF RefreshesDeliver, NobodyStranded
  <2>6. SentTokensFresh'
    BY <2>1 DEF SentTokensFresh, RefreshesDeliver
  <2> QED
    BY <2>2, <2>3, <2>4, <2>5, <2>6
<1>2. CASE ContextDone(c)
  <2>1. /\ call[c].pc = "wait" /\ call'[c].pc = "error"
        /\ \A d \in Callers \ {c} : call'[d] = call[d]
        /\ token' = token /\ inflight' = inflight /\ faults' \in Nat /\ faults' # 0
        /\ call' \in [Callers -> Call]
    <3>1. faults' \in Nat /\ faults' # 0
      BY <1>2 DEF ContextDone, Fault
    <3>2. /\ call[c].pc = "wait" /\ call'[c].pc = "error"
          /\ \A d \in Callers \ {c} : call'[d] = call[d]
          /\ call' \in [Callers -> Call]
      BY <1>2, TokenAssumption DEF ContextDone, Call, CallSteps
    <3> QED
      BY <1>2, <3>1, <3>2 DEF ContextDone
  <2>2. TokenType'
    BY <2>1
  <2>3. InflightRefreshes'
    BY <2>1, TokenAssumption DEF InflightRefreshes
  <2>4. NobodyStranded'
    BY <2>1 DEF NobodyStranded
  <2>5. RefreshesDeliver'
    BY <2>1, <2>4 DEF RefreshesDeliver, NobodyStranded
  <2>6. SentTokensFresh'
    BY <2>1 DEF SentTokensFresh, RefreshesDeliver
  <2> QED
    BY <2>2, <2>3, <2>4, <2>5, <2>6
<1> QED
  BY <1>1, <1>2

\* A call begins, or is over.
LEMMA CallInv ==
    ASSUME TokenInv, NEW c \in Callers, AuthDo(c) \/ Finish(c)
    PROVE  TokenInv'
<1> USE DEF TokenInv, TokenType
<1>1. CASE AuthDo(c)
  BY <1>1 DEF AuthDo, NoCall, InflightRefreshes, NobodyStranded, RefreshesDeliver,
              SentTokensFresh, TokenStates, Call, CallSteps
<1>2. CASE Finish(c)
  <2>1. faults' \in Nat /\ (faults' = 0 => faults = 0)
    BY <1>2 DEF Finish
  <2> QED
    BY <1>2, <2>1 DEF Finish, Return, NoCall, InflightRefreshes, NobodyStranded,
                      RefreshesDeliver, SentTokensFresh, TokenStates, Call, CallSteps
<1> QED
  BY <1>1, <1>2

\* Every step preserves the invariant.
LEMMA TokenInvNext == TokenInv /\ [Next]_vars => TokenInv'
<1> SUFFICES ASSUME TokenInv, [Next]_vars PROVE TokenInv'
  OBVIOUS
<1>1. ASSUME NEW c \in Callers, TokenStep(c) \/ TokenFault(c) \/ AuthDo(c) \/ Finish(c)
      PROVE  TokenInv'
  BY <1>1, AccessTokenInv, FetchedInv, CloseChannelInv, WaiterInv, CallInv
     DEF TokenStep, TokenFault
<1>2. CASE ExpireToken
  BY <1>2 DEF ExpireToken, TokenInv, TokenType, InflightRefreshes, NobodyStranded,
              RefreshesDeliver, SentTokensFresh, TokenStates
<1>3. CASE Restart
  <2>1. faults' \in Nat /\ faults' # 0
    BY <1>3 DEF Restart, TokenInv, TokenType
  <2> QED
    BY <1>3, <2>1, TokenAssumption
       DEF Restart, NoCall, TokenInv, TokenType, InflightRefreshes, NobodyStranded,
           RefreshesDeliver, SentTokensFresh, TokenStates, Call, CallSteps
<1>4. CASE Elsewhere
  <2>1. faults' \in Nat /\ (faults' = 0 => faults = 0)
    BY <1>4 DEF Elsewhere, TokenInv, TokenType
  <2> QED
    BY <1>4, <2>1 DEF Elsewhere, TokenInv, TokenType, InflightRefreshes, NobodyStranded,
                      RefreshesDeliver, SentTokensFresh
<1> QED
  BY <1>1, <1>2, <1>3, <1>4, SweepSteps

\* The invariant of the token cache, for every set of callers.
THEOREM TokenInvariant == Spec => []TokenInv
BY TokenInvInit, TokenInvNext, PTL DEF Spec

\* accessToken never has two requests for a token under way.
THEOREM SingleFlight == Spec => []OneRefresh
<1>1. TokenInv => OneRefresh
  BY DEF TokenInv, InflightRefreshes, OneRefresh
<1> QED
  BY <1>1, TokenInvariant, PTL

\* Whoever blocks on the channel of accessToken waits for a goroutine that is still
\* to close it.
THEOREM WaitersAreServed == Spec => []NobodyStranded
<1>1. TokenInv => NobodyStranded
  BY DEF TokenInv
<1> QED
  BY <1>1, TokenInvariant, PTL

\* Until the first failure every request of the client carries a valid token.
THEOREM TokensValid == Spec => []SentTokensFresh
<1>1. TokenInv => SentTokensFresh
  BY DEF TokenInv
<1> QED
  BY <1>1, TokenInvariant, PTL

-----------------------------------------------------------------------------
(***************************************************************************)
(* The windows of the sweeps.                                              *)
(***************************************************************************)

\* A payment that was listed before run r started, at a time in its window.
Early(p, r) ==
    /\ pay[p] # None
    /\ pay[p].listed # None
    /\ pay[p].listed < r.to
    /\ r.from <= pay[p].at

\* The run has asked for its first page, and no page was refused.
Listed(r) == ~r.failed /\ (r.pc \in {"item", "log"} \/ (r.pc = "list" /\ r.cursor))

(***************************************************************************)
(* What a run is good for.  Its window reaches back to where the next one  *)
(* would start, unless it is known to be cut; and once it has a listing,   *)
(* every early payment is posted, was missed, or is still ahead of it.     *)
(***************************************************************************)
RunInv(s) ==
    /\ run[s].to <= clock
    /\ run[s].pc = "window" => run[s].page = {} /\ ~run[s].cursor /\ ~run[s].cut
    /\ run[s].pc \in {"list", "log"} => run[s].page = {}
    /\ run[s].pc = "log" => run[s].rest = {}
    /\ (run[s].pc \in {"list", "item", "log"} /\ ~run[s].failed /\ ~run[s].cut) =>
           run[s].from <= NextFrom(run[s].to)
    /\ Listed(run[s]) =>
           \A p \in Payments : Early(p, run[s]) =>
               \/ p \in run[s].page \cup run[s].rest \cup missed
               \/ posted[p] # None

\* Nothing lies in the future.
ClockInv ==
    /\ last # None => last <= clock /\ floor \in Int
    /\ \A p \in Payments : pay[p] # None =>
           /\ pay[p].at <= clock
           /\ pay[p].listed # None => pay[p].at <= pay[p].listed /\ pay[p].listed <= clock

\* The part of the type invariant that is not about the token.
SweepType ==
    /\ focus \in Focuses
    /\ clock \in Times
    /\ pay \in [Payments -> Payment \cup {None}]
    /\ posted \in [Payments -> Posting \cup {None}]
    /\ last \in Times \cup {None}
    /\ run \in [Sweepers -> Run]
    /\ runs \in 0..focus.runs
    /\ floor \in Int \cup {None}
    /\ longest \in Times
    /\ missed \subseteq Payments

SweepInv ==
    /\ SweepType
    /\ ClockInv
    /\ \A s \in Sweepers : RunInv(s)
    /\ NothingSkipped
    /\ PostedAmounts

-----------------------------------------------------------------------------
\* The amount of row x is what was paid for p, or one kobo less.
RightAmount(p, x) ==
    \/ x.kobo = Kobo[p]
    \/ x.source = "webhook" /\ Error[p] < 0 /\ x.kobo = Kobo[p] - 1

\* What any step does to the world: time passes, payments are made and listed,
\* rows are added, runs are logged.
Grows ==
    /\ clock <= clock'
    /\ missed \subseteq missed'
    /\ last' \in {last, clock}
    /\ \A p \in Payments :
           /\ \/ posted'[p] = posted[p]
              \/ posted[p] = None /\ posted'[p] \in Posting /\ RightAmount(p, posted'[p])
           /\ \/ pay'[p] = pay[p]
              \/ pay[p] = None /\ pay'[p] = [at |-> clock, listed |-> None]
              \/ /\ pay[p] # None /\ pay[p].listed = None
                 /\ pay'[p] = [at |-> pay[p].at, listed |-> clock]

\* The constants, for the provers.
LEMMA SweepConstants ==
    /\ Interval \in Nat /\ Overlap \in Nat /\ MaxTime \in Nat
    /\ Times \subseteq Nat /\ Times \subseteq Int
    /\ None \notin Times /\ None \notin Payment /\ None \notin Posting
    /\ NoRun \in Run
BY SweepAssumption DEF Times, NoRun, Run

\* The sweep converts an amount exactly; the webhook may lose one kobo.
LEMMA Conversions ==
    ASSUME NEW p \in Payments
    PROVE  /\ [source |-> "sweep", kobo |-> NairaToKobo(p)] \in Posting
           /\ RightAmount(p, [source |-> "sweep", kobo |-> NairaToKobo(p)])
           /\ [source |-> "webhook", kobo |-> ParseWebhook(p)] \in Posting
           /\ RightAmount(p, [source |-> "webhook", kobo |-> ParseWebhook(p)])
<1>1. Kobo[p] \in Nat \ {0} /\ Error[p] \in {-1, 0, 1}
  BY SweepAssumption
<1>2. NairaToKobo(p) = Kobo[p]
  BY <1>1 DEF NairaToKobo, Product
<1>3. ParseWebhook(p) = IF Error[p] < 0 THEN Kobo[p] - 1 ELSE Kobo[p]
  BY <1>1 DEF ParseWebhook, Product
<1> QED
  BY <1>1, <1>2, <1>3 DEF Posting, Sources, RightAmount

\* Listing a payment does not make it early for a run that has begun.
LEMMA EarlyBefore ==
    ASSUME SweepType, Grows, NEW r \in Run, r.to <= clock, NEW p \in Payments, Early(p, r)'
    PROVE  Early(p, r)
<1>1. clock \in Int /\ r.to \in Int /\ None \notin Int
  BY SweepConstants, SweepAssumption DEF SweepType, Run
<1>2. pay'[p].listed # None /\ pay'[p].listed < r.to
  BY DEF Early
<1>3. pay'[p] # [at |-> clock, listed |-> None]
  BY <1>2
<1>4. pay'[p] # [at |-> pay[p].at, listed |-> clock]
  BY <1>1, <1>2
<1>5. pay'[p] = pay[p]
  BY <1>3, <1>4 DEF Grows
<1> QED
  BY <1>5 DEF Early

\* A window that reached back to the next one still does after a log.
LEMMA NextFromGrows ==
    ASSUME SweepType, ClockInv, Grows, NEW to \in Int, to <= clock, NEW from \in Int,
           from <= NextFrom(to)
    PROVE  from <= NextFrom(to)'
<1>1. /\ clock \in Int /\ None \notin Times /\ Interval \in Nat /\ Overlap \in Nat
      /\ last # None => last \in Int /\ last <= clock
  BY SweepConstants DEF SweepType, ClockInv
<1>2. clock # None
  BY SweepAssumption, <1>1
<1>3. CASE last' = last
  BY <1>3 DEF NextFrom
<1>4. CASE last' = clock
  BY <1>1, <1>2, <1>4 DEF NextFrom
<1> QED
  BY <1>3, <1>4 DEF Grows

\* A run that does not move keeps its promises.
LEMMA RunStays ==
    ASSUME SweepInv, SweepType', Grows, NEW s \in Sweepers, run'[s] = run[s]
    PROVE  RunInv(s)'
<1>0. /\ SweepType /\ ClockInv /\ RunInv(s) /\ run[s] \in Run
  BY DEF SweepInv, SweepType
<1>1. /\ run[s].to \in Int /\ run[s].from \in Int /\ clock \in Int /\ clock' \in Int
      /\ clock <= clock'
  BY <1>0, SweepConstants DEF SweepType, Run, Grows
<1>2. run'[s].to <= clock'
  BY <1>0, <1>1 DEF RunInv
<1>3. run[s].from <= NextFrom(run[s].to) => run[s].from <= NextFrom(run[s].to)'
  <2>1. PICK to : to = run[s].to
    OBVIOUS
  <2>2. NextFrom(run[s].to)' = NextFrom(to)'
    BY <2>1 DEF NextFrom
  <2> QED
    BY <1>0, <1>1, <2>1, <2>2, NextFromGrows DEF RunInv
<1>4. ASSUME Listed(run[s]), NEW p \in Payments, Early(p, run[s])'
      PROVE  p \in run[s].page \cup run[s].rest \cup missed' \/ posted'[p] # None
  <2>1. PICK r : r = run[s]
    OBVIOUS
  <2>2. Early(p, r)'
    BY <1>4, <2>1 DEF Early
  <2>3. Early(p, run[s])
    BY <1>0, <2>1, <2>2, EarlyBefore DEF RunInv
  <2>4. p \in run[s].page \cup run[s].rest \cup missed \/ posted[p] # None
    BY <1>0, <1>4, <2>3 DEF RunInv
  <2>5. posted[p] # None => posted'[p] # None
    BY SweepConstants DEF Grows
  <2> QED
    BY <2>4, <2>5 DEF Grows
<1> QED
  BY <1>0, <1>2, <1>3, <1>4 DEF RunInv, Listed, NextFrom, Early

\* A step that logs no run keeps the invariant if the runs keep their promises.
LEMMA UnloggedStep ==
    ASSUME SweepInv, SweepType', Grows, UNCHANGED <<last, floor, longest>>,
           \A s \in Sweepers : RunInv(s)'
    PROVE  SweepInv'
<1>0. /\ SweepType /\ ClockInv /\ NothingSkipped /\ PostedAmounts
      /\ clock \in Int /\ clock' \in Int /\ clock <= clock' /\ longest \in Nat
      /\ Overlap \in Nat /\ None \notin Int
      /\ last # None => last \in Int /\ last <= clock /\ floor \in Int
  BY SweepConstants, SweepAssumption DEF SweepInv, SweepType, ClockInv, Grows
<1>1. ASSUME NEW p \in Payments, pay[p] # None
      PROVE  /\ pay[p].at \in Int /\ pay[p].listed \in Int \cup {None}
             /\ pay[p].at <= clock
             /\ pay[p].listed # None => pay[p].at <= pay[p].listed /\ pay[p].listed <= clock
  BY <1>0, <1>1, SweepConstants DEF SweepType, Payment, ClockInv
<1>2. ASSUME NEW p \in Payments, pay'[p] # None
      PROVE  \/ pay'[p] = pay[p] /\ pay[p] # None
             \/ pay'[p].at = clock /\ pay'[p].listed = None
             \/ pay[p] # None /\ pay'[p].at = pay[p].at /\ pay'[p].listed = clock
  <2>1. \/ pay'[p] = pay[p]
        \/ pay'[p] = [at |-> clock, listed |-> None]
        \/ pay[p] # None /\ pay'[p] = [at |-> pay[p].at, listed |-> clock]
    BY DEF Grows
  <2> QED
    BY <1>2, <2>1
<1>3. ClockInv'
  <2> SUFFICES ASSUME NEW p \in Payments, pay'[p] # None
               PROVE  /\ pay'[p].at <= clock'
                      /\ pay'[p].listed # None =>
                             pay'[p].at <= pay'[p].listed /\ pay'[p].listed <= clock'
    BY <1>0 DEF ClockInv
  <2> QED
    BY <1>0, <1>1, <1>2
<1>4. NothingSkipped'
  <2> SUFFICES ASSUME NEW p \in Payments, last # None, pay'[p] # None, posted'[p] = None,
                      p \notin missed', pay'[p].listed # None,
                      (pay'[p].listed - pay'[p].at) + longest <= Overlap,
                      pay'[p].at >= floor
               PROVE  pay'[p].at >= last - Overlap
    BY DEF NothingSkipped, NextFrom
  <2>1. CASE pay'[p] = pay[p]
    <3>1. posted[p] = None /\ p \notin missed
      BY SweepConstants DEF Grows
    <3> QED
      BY <1>0, <2>1, <3>1 DEF NothingSkipped, NextFrom
  <2>2. CASE pay[p] # None /\ pay'[p].at = pay[p].at /\ pay'[p].listed = clock
    BY <1>0, <1>1, <2>2
  <2> QED
    BY <1>2, <2>1, <2>2
<1>5. PostedAmounts'
  BY <1>0 DEF PostedAmounts, Grows, RightAmount
<1> QED
  BY <1>3, <1>4, <1>5 DEF SweepInv

\* One run moves.
LEMMA MovedRun ==
    ASSUME SweepInv, SweepType', Grows, UNCHANGED <<last, floor, longest>>, NEW s \in Sweepers,
           \A q \in Sweepers \ {s} : run'[q] = run[q], RunInv(s)'
    PROVE  SweepInv'
<1>1. \A q \in Sweepers : RunInv(q)'
  BY RunStays
<1> QED
  BY <1>1, UnloggedStep

\* A run that is over, or has been given up, promises nothing.
LEMMA NoPromise ==
    ASSUME NEW s \in Sweepers, run'[s].to <= clock',
           \/ run'[s].pc = "idle"
           \/ /\ run'[s].pc # "window" /\ run'[s].failed
              /\ run'[s].page = {} /\ run'[s].rest = {}
    PROVE  RunInv(s)'
BY DEF RunInv, Listed

\* Steps of the world.
LEMMA WorldSweep ==
    ASSUME SweepInv,
           \/ Tick
           \/ \E p \in Payments : Pay(p) \/ List(p) \/ Webhook(p)
           \/ UNCHANGED sweepVars
    PROVE  SweepInv'
<1>0. SweepType /\ clock \in Int
  BY SweepConstants DEF SweepInv, SweepType
<1>1. ASSUME SweepType', Grows, UNCHANGED <<last, floor, longest, run>> PROVE SweepInv'
  BY <1>1, RunStays, UnloggedStep
<1>2. CASE Tick
  <2>1. SweepType' /\ Grows /\ UNCHANGED <<last, floor, longest, run>>
    BY <1>0, <1>2, SweepAssumption DEF Tick, SweepType, Grows, Times
  <2> QED
    BY <1>1, <2>1
<1>3. ASSUME NEW p \in Payments, Pay(p) PROVE SweepInv'
  <2>1. SweepType' /\ Grows /\ UNCHANGED <<last, floor, longest, run>>
    BY <1>0, <1>3 DEF Pay, SweepType, Grows, Payment
  <2> QED
    BY <1>1, <2>1
<1>4. ASSUME NEW p \in Payments, List(p) PROVE SweepInv'
  <2>1. pay[p] \in Payment /\ pay[p] # None /\ pay[p].listed = None
    BY <1>0, <1>4 DEF List, SweepType
  <2>2. pay'[p] = [at |-> pay[p].at, listed |-> clock] /\ pay'[p] \in Payment
    BY <1>0, <1>4, <2>1 DEF List, SweepType, Payment
  <2>3. pay' \in [Payments -> Payment \cup {None}] /\ \A q \in Payments \ {p} : pay'[q] = pay[q]
    BY <1>0, <1>4, <2>2 DEF List, SweepType
  <2>4. UNCHANGED <<focus, clock, posted, last, run, runs, floor, longest, missed>>
    BY <1>4 DEF List
  <2>5. SweepType'
    BY <1>0, <2>3, <2>4 DEF SweepType
  <2>6. Grows
    BY <1>0, <2>1, <2>2, <2>3, <2>4 DEF Grows
  <2> QED
    BY <1>1, <2>4, <2>5, <2>6
<1>5. ASSUME NEW p \in Payments, Webhook(p) PROVE SweepInv'
  <2>1. PICK x \in Posting : RightAmount(p, x) /\ posted' = [posted EXCEPT ![p] = x]
    BY <1>5, Conversions DEF Webhook, PostOnce
  <2>2. UNCHANGED <<focus, clock, pay, last, run, runs, floor, longest, missed>>
    BY <1>5 DEF Webhook
  <2>3. posted[p] = None /\ posted \in [Payments -> Posting \cup {None}]
    BY <1>0, <1>5 DEF Webhook, SweepType
  <2>4. /\ posted' \in [Payments -> Posting \cup {None}]
        /\ posted'[p] = x /\ \A q \in Payments \ {p} : posted'[q] = posted[q]
    BY <2>1, <2>3
  <2>5. SweepType'
    BY <1>0, <2>2, <2>4 DEF SweepType
  <2>6. Grows
    BY <1>0, <2>1, <2>2, <2>3, <2>4 DEF Grows
  <2> QED
    BY <1>1, <2>2, <2>5, <2>6
<1>6. CASE UNCHANGED sweepVars
  <2>1. SweepType' /\ Grows /\ UNCHANGED <<last, floor, longest, run>>
    BY <1>0, <1>6 DEF sweepVars, SweepType, Grows
  <2> QED
    BY <1>1, <2>1
<1> QED
  BY <1>2, <1>3, <1>4, <1>5, <1>6

\* Nothing changes but run s, which becomes r.
LEMMA RunBecomes ==
    ASSUME SweepInv, NEW s \in Sweepers, NEW r \in Run, run' = [run EXCEPT ![s] = r],
           runs' \in 0..focus.runs,
           UNCHANGED <<focus, clock, pay, posted, last, floor, longest, missed>>, RunInv(s)'
    PROVE  SweepInv'
<1>0. SweepType /\ clock \in Int
  BY SweepConstants DEF SweepInv, SweepType
<1>1. /\ SweepType' /\ Grows /\ UNCHANGED <<last, floor, longest>>
      /\ \A q \in Sweepers \ {s} : run'[q] = run[q]
  BY <1>0 DEF SweepType, Grows
<1> QED
  BY <1>1, MovedRun

\* A run chooses its window.
LEMMA NewWindow ==
    ASSUME SweepInv, NEW s \in Sweepers, NEW r \in Run, run' = [run EXCEPT ![s] = r],
           r.pc = "list", r.page = {}, ~r.cursor, r.to <= clock,
           ~r.cut => r.from <= NextFrom(r.to),
           runs' \in 0..focus.runs,
           UNCHANGED <<focus, clock, pay, posted, last, floor, longest, missed>>
    PROVE  SweepInv'
<1>1. run'[s] = r
  BY DEF SweepInv, SweepType
<1>2. RunInv(s)'
  BY <1>1 DEF RunInv, Listed, NextFrom
<1> QED
  BY <1>2, RunBecomes

\* A run starts, and asks where the last one ended.
LEMMA WindowSweep ==
    ASSUME SweepInv, NEW s \in Sweepers,
           StartRun(s) \/ ComputeWindowFrom(s) \/ LastSweepTimeFails(s)
    PROVE  SweepInv'
<1>1. SweepType /\ RunInv(s)
  BY DEF SweepInv
<1>2. clock \in Times /\ clock \in Int /\ run \in [Sweepers -> Run] /\ run[s] \in Run
  BY <1>1, SweepConstants DEF SweepType
<1>3. run[s].to \in Int /\ run[s].to <= clock
  BY <1>1, <1>2, SweepConstants DEF RunInv, Run
<1>4. focus.runs \in Nat /\ runs \in 0..focus.runs
  BY <1>1, SweepAssumption DEF SweepType
<1>5. \A now \in Int : NextFrom(now) \in Int /\ now - (Interval + Overlap) \in Int
  BY <1>1, SweepConstants DEF NextFrom, SweepType
<1>6. CASE StartRun(s)
  <2>1. runs' = runs + 1 /\ runs < focus.runs
    BY <1>6 DEF StartRun
  <2>2. runs' \in 0..focus.runs
    BY <1>4, <2>1
  <2>3. UNCHANGED <<focus, clock, pay, posted, last, floor, longest, missed>>
    BY <1>6 DEF StartRun
  <2>4. CASE run' = [run EXCEPT ![s] = [NoRun EXCEPT !.pc = "window", !.to = clock]]
    <3> DEFINE r == [NoRun EXCEPT !.pc = "window", !.to = clock]
    <3>1. r \in Run
      BY <1>2, SweepConstants DEF Run
    <3>2. r.pc = "window" /\ r.to = clock /\ r.page = {} /\ ~r.cursor /\ ~r.cut
      BY DEF NoRun
    <3>3. run' = [run EXCEPT ![s] = r]
      BY <2>4
    <3> HIDE DEF r
    <3>4. run'[s] = r
      BY <1>2, <3>3
    <3>5. RunInv(s)'
      BY <1>2, <2>3, <3>2, <3>4 DEF RunInv, Listed
    <3> QED
      BY <2>2, <2>3, <3>1, <3>3, <3>5, RunBecomes
  <2>5. ASSUME NEW from \in Backfills,
               run' = [run EXCEPT ![s] = [NoRun EXCEPT !.pc = "list", !.to = clock,
                                          !.from = from, !.cut = from > NextFrom(clock)]]
        PROVE  SweepInv'
    <3> DEFINE cut == from > NextFrom(clock)
               r == [NoRun EXCEPT !.pc = "list", !.to = clock, !.from = from, !.cut = cut]
    <3>1. from \in Int /\ NextFrom(clock) \in Int
      BY <1>2, <1>5, SweepAssumption
    <3>2. cut \in BOOLEAN /\ (~cut => from <= NextFrom(clock))
      BY <3>1
    <3>3. run' = [run EXCEPT ![s] = r]
      BY <2>5
    <3> HIDE DEF cut
    <3>4. r \in Run
      BY <1>2, <3>1, <3>2, SweepConstants DEF Run
    <3>5. r.pc = "list" /\ r.to = clock /\ r.from = from /\ r.page = {} /\ ~r.cursor /\ r.cut = cut
      BY DEF NoRun
    <3> HIDE DEF r
    <3>6. r.to <= clock /\ (~r.cut => r.from <= NextFrom(r.to))
      BY <1>2, <3>2, <3>5
    <3> QED
      BY <2>2, <2>3, <3>3, <3>4, <3>5, <3>6, NewWindow
  <2> QED
    BY <1>6, <2>4, <2>5 DEF StartRun
<1>7. CASE ComputeWindowFrom(s)
  <2> DEFINE from == NextFrom(run[s].to)
             r == [run[s] EXCEPT !.pc = "list", !.from = from]
  <2>1. from \in Int
    BY <1>3, <1>5
  <2>2. run[s].pc = "window" /\ run[s].page = {} /\ ~run[s].cursor /\ ~run[s].cut
    BY <1>1, <1>7 DEF ComputeWindowFrom, RunInv
  <2>3. UNCHANGED <<focus, clock, pay, posted, last, runs, floor, longest, missed>>
    BY <1>7 DEF ComputeWindowFrom
  <2>4. run' = [run EXCEPT ![s] = r]
    BY <1>2, <1>7 DEF ComputeWindowFrom
  <2>5. from = NextFrom(run[s].to)
    OBVIOUS
  <2> HIDE DEF from
  <2>6. r \in Run /\ r.pc = "list" /\ r.to = run[s].to /\ r.from = from /\ r.page = {} /\ ~r.cursor
    BY <1>2, <2>1, <2>2 DEF Run
  <2> HIDE DEF r
  <2>7. r.to <= clock /\ r.from <= NextFrom(r.to)
    BY <1>3, <2>1, <2>5, <2>6
  <2> QED
    BY <1>4, <2>3, <2>4, <2>6, <2>7, NewWindow
<1>8. CASE LastSweepTimeFails(s)
  <2> DEFINE from == run[s].to - (Interval + Overlap)
             cut == from > NextFrom(run[s].to)
             r == [run[s] EXCEPT !.pc = "list", !.from = from, !.cut = cut]
  <2>1. from \in Int /\ NextFrom(run[s].to) \in Int
    BY <1>3, <1>5
  <2>2. cut \in BOOLEAN /\ (~cut => from <= NextFrom(run[s].to))
    BY <2>1
  <2>3. run[s].pc = "window" /\ run[s].page = {} /\ ~run[s].cursor
    BY <1>1, <1>8 DEF LastSweepTimeFails, RunInv
  <2>4. UNCHANGED <<focus, clock, pay, posted, last, runs, floor, longest, missed>>
    BY <1>8 DEF LastSweepTimeFails
  <2>5. run' = [run EXCEPT ![s] = r]
    BY <1>2, <1>8 DEF LastSweepTimeFails
  <2> HIDE DEF from, cut
  <2>6. /\ r \in Run /\ r.pc = "list" /\ r.to = run[s].to /\ r.from = from /\ r.page = {}
        /\ ~r.cursor /\ r.cut = cut
    BY <1>2, <2>1, <2>2, <2>3 DEF Run
  <2> HIDE DEF r
  <2>7. r.to <= clock /\ (~r.cut => r.from <= NextFrom(r.to))
    BY <1>3, <2>2, <2>6
  <2> QED
    BY <1>4, <2>4, <2>5, <2>6, <2>7, NewWindow
<1> QED
  BY <1>6, <1>7, <1>8

-----------------------------------------------------------------------------
(* Pages and items.                                                        *)

\* What Advance leaves of run s.
LEMMA AdvanceRun ==
    ASSUME SweepType, NEW s \in Sweepers, NEW page \in SUBSET Payments,
           NEW rest \in SUBSET Payments, Advance(s, page, rest)
    PROVE  /\ run' \in [Sweepers -> Run]
           /\ \A q \in Sweepers \ {s} : run'[q] = run[q]
           /\ run'[s].page = page /\ run'[s].rest = rest
           /\ run'[s].to = run[s].to /\ run'[s].from = run[s].from
           /\ run'[s].cut = run[s].cut /\ run'[s].failed = run[s].failed
           /\ run'[s].pc \in {"list", "item", "log"}
           /\ run'[s].pc \in {"list", "log"} => page = {}
           /\ run'[s].pc = "log" => rest = {}
<1> DEFINE step == CASE page # {} -> "item"
                     [] page = {} /\ rest # {} -> "list"
                     [] OTHER -> "log"
           r == [run[s] EXCEPT !.pc = step, !.cursor = TRUE, !.page = page, !.rest = rest]
<1>1. /\ step \in {"list", "item", "log"}
      /\ step \in {"list", "log"} => page = {}
      /\ step = "log" => rest = {}
  OBVIOUS
<1>2. run \in [Sweepers -> Run] /\ run[s] \in Run
  BY DEF SweepType
<1>3. run' = [run EXCEPT ![s] = r]
  BY <1>2 DEF Advance
<1> HIDE DEF step
<1>4. r \in Run
  BY <1>1, <1>2 DEF Run
<1>5. /\ r.page = page /\ r.rest = rest /\ r.to = run[s].to /\ r.from = run[s].from
      /\ r.cut = run[s].cut /\ r.failed = run[s].failed /\ r.pc = step
  BY <1>2 DEF Run
<1> HIDE DEF r
<1>6. run' \in [Sweepers -> Run] /\ run'[s] = r /\ \A q \in Sweepers \ {s} : run'[q] = run[q]
  BY <1>2, <1>3, <1>4
<1> QED
  BY <1>1, <1>5, <1>6

\* A run that advances keeps its promises if what it has dealt with is posted or
\* missed.
LEMMA AdvancedRun ==
    ASSUME SweepInv, Grows, UNCHANGED <<clock, pay, last, floor, longest, focus, runs>>,
           posted' \in [Payments -> Posting \cup {None}], missed' \subseteq Payments,
           NEW s \in Sweepers, run[s].pc \in {"list", "item"},
           NEW page \in SUBSET Payments, NEW rest \in SUBSET Payments, Advance(s, page, rest),
           \A p \in Payments : (Early(p, run[s]) /\ ~run[s].failed) =>
               p \in page \cup rest \cup missed' \/ posted'[p] # None
    PROVE  SweepInv'
<1>0. SweepType /\ RunInv(s)
  BY DEF SweepInv
<1>1. /\ run' \in [Sweepers -> Run]
      /\ \A q \in Sweepers \ {s} : run'[q] = run[q]
      /\ run'[s].page = page /\ run'[s].rest = rest
      /\ run'[s].to = run[s].to /\ run'[s].from = run[s].from
      /\ run'[s].cut = run[s].cut /\ run'[s].failed = run[s].failed
      /\ run'[s].pc \in {"list", "item", "log"}
      /\ run'[s].pc \in {"list", "log"} => page = {}
      /\ run'[s].pc = "log" => rest = {}
  BY <1>0, AdvanceRun
<1>2. SweepType'
  BY <1>0, <1>1 DEF SweepType
<1>3. \A p \in Payments : Early(p, run[s])' => Early(p, run[s])
  BY <1>1 DEF Early
<1>4. RunInv(s)'
  BY <1>0, <1>1, <1>3 DEF RunInv, Listed, NextFrom
<1> QED
  BY <1>1, <1>2, <1>4, MovedRun

\* A page arrives.  The first one is cut from everything listed so far; an entry that
\* is skipped is missed.
LEMMA PageSweep ==
    ASSUME SweepInv, NEW s \in Sweepers, ReceivePage(s) \/ EntryMalformed(s)
    PROVE  SweepInv'
<1> PICK skipped \in SUBSET Payments : CutPage(s, skipped) /\ missed' = missed \cup skipped
  <2>1. CASE ReceivePage(s)
    <3>1. CutPage(s, {}) /\ missed' = missed \cup {}
      BY <2>1 DEF ReceivePage
    <3> QED
      BY <3>1
  <2>2. CASE EntryMalformed(s)
    <3>1. PICK p \in Payments : CutPage(s, {p}) /\ missed' = missed \cup {p}
      BY <2>2 DEF EntryMalformed
    <3>2. {p} \in SUBSET Payments
      OBVIOUS
    <3> QED
      BY <3>1, <3>2
  <2> QED
    BY <2>1, <2>2
<1>0. SweepType /\ RunInv(s) /\ ClockInv /\ run[s] \in Run /\ run[s].pc = "list"
  BY DEF SweepInv, SweepType, CutPage
<1>1. PICK rest : rest = IF run[s].cursor THEN run[s].rest ELSE Listing(s)
  OBVIOUS
<1>2. rest \in SUBSET Payments
  BY <1>0, <1>1 DEF Listing, Run
<1>3. PICK page \in SUBSET rest : Advance(s, page \ skipped, rest \ page)
  BY <1>1 DEF CutPage
<1>4. /\ UNCHANGED <<focus, clock, pay, posted, last, runs, floor, longest>>
      /\ missed' = missed \cup skipped
  BY DEF CutPage
<1>5. Grows
  BY <1>0, <1>4, SweepConstants DEF Grows, SweepType
<1>6. ASSUME NEW p \in Payments, Early(p, run[s]), ~run[s].failed
      PROVE  p \in rest \cup missed \/ posted[p] # None
  <2>1. CASE run[s].cursor
    BY <1>0, <1>1, <1>6, <2>1 DEF RunInv, Listed
  <2>2. CASE ~run[s].cursor
    <3>1. pay[p] # None /\ pay[p].listed # None /\ pay[p] \in Payment
      BY <1>0, <1>6 DEF Early, SweepType
    <3>2. pay[p].at \in Int /\ pay[p].listed \in Int /\ run[s].to \in Int
      BY <1>0, <3>1, SweepConstants DEF Payment, Run
    <3>3. pay[p].at <= run[s].to
      BY <1>0, <1>6, <3>1, <3>2 DEF Early, ClockInv
    <3> QED
      BY <1>1, <1>6, <2>2, <3>1, <3>3 DEF Listing, Early
  <2> QED
    BY <2>1, <2>2
<1>7. posted' \in [Payments -> Posting \cup {None}] /\ missed' \subseteq Payments
  BY <1>0, <1>4 DEF SweepType
<1>8. \A p \in Payments : (Early(p, run[s]) /\ ~run[s].failed) =>
          p \in (page \ skipped) \cup (rest \ page) \cup missed' \/ posted'[p] # None
  BY <1>4, <1>6
<1>9. page \ skipped \in SUBSET Payments /\ rest \ page \in SUBSET Payments
  BY <1>2
<1> QED
  BY <1>0, <1>3, <1>4, <1>5, <1>7, <1>8, <1>9, AdvancedRun

\* An item is posted, or fails and is missed.
LEMMA ItemSweep ==
    ASSUME SweepInv, NEW s \in Sweepers, Item(s) \/ ItemFails(s)
    PROVE  SweepInv'
<1>0. /\ SweepType /\ RunInv(s) /\ run[s] \in Run /\ run[s].pc = "item"
      /\ posted \in [Payments -> Posting \cup {None}] /\ missed \subseteq Payments
  BY DEF SweepInv, SweepType, Item, ItemFails
<1>1. /\ clock \in Int /\ run[s].page \in SUBSET Payments /\ run[s].rest \in SUBSET Payments
      /\ UNCHANGED <<focus, clock, pay, last, runs, floor, longest>>
  BY <1>0, SweepConstants DEF SweepType, Run, Item, ItemFails
<1>2. PICK p \in run[s].page :
          /\ Advance(s, run[s].page \ {p}, run[s].rest)
          /\ \/ PostOnce(p, "sweep", NairaToKobo(p)) /\ UNCHANGED missed
             \/ UNCHANGED posted /\ missed' = missed \cup {p}
  BY DEF Item, ItemFails, ProcessDirect
<1>3. p \in Payments
  BY <1>1
<1>4. /\ posted' \in [Payments -> Posting \cup {None}] /\ missed' \subseteq Payments
      /\ missed \subseteq missed'
      /\ posted'[p] # None \/ p \in missed'
      /\ \A q \in Payments :
             \/ posted'[q] = posted[q]
             \/ posted[q] = None /\ posted'[q] \in Posting /\ RightAmount(q, posted'[q])
  <2>1. CASE UNCHANGED posted /\ missed' = missed \cup {p}
    BY <1>0, <1>3, <2>1
  <2>2. CASE PostOnce(p, "sweep", NairaToKobo(p)) /\ UNCHANGED missed
    <3>1. PICK x \in Posting : /\ RightAmount(p, x)
                               /\ posted' = IF posted[p] = None
                                            THEN [posted EXCEPT ![p] = x] ELSE posted
      BY <1>3, <2>2, Conversions DEF PostOnce
    <3> QED
      BY <1>0, <1>3, <2>2, <3>1, SweepConstants
  <2> QED
    BY <1>2, <2>1, <2>2
<1>5. Grows
  BY <1>1, <1>4 DEF Grows
<1>6. \A q \in Payments : (Early(q, run[s]) /\ ~run[s].failed) =>
          q \in (run[s].page \ {p}) \cup run[s].rest \cup missed' \/ posted'[q] # None
  <2>1. ASSUME NEW q \in Payments, Early(q, run[s]), ~run[s].failed
        PROVE  q \in run[s].page \cup run[s].rest \cup missed \/ posted[q] # None
    BY <1>0, <2>1 DEF RunInv, Listed
  <2>2. \A q \in Payments : posted[q] # None => posted'[q] # None
    BY <1>4, SweepConstants
  <2> QED
    BY <1>4, <2>1, <2>2
<1>7. run[s].page \ {p} \in SUBSET Payments
  BY <1>1
<1> QED
  BY <1>0, <1>1, <1>2, <1>4, <1>5, <1>6, <1>7, AdvancedRun

\* A run is given up, its log is lost, or the process dies.
LEMMA GivenUpSweep ==
    ASSUME SweepInv,
           \/ \E s \in Sweepers : PageRefused(s) \/ PageFails(s) \/ CreateSweepRunFails(s)
           \/ Crash
    PROVE  SweepInv'
<1>0. SweepType /\ clock \in Int /\ 0 <= clock
  BY SweepConstants DEF SweepInv, SweepType
<1>1. UNCHANGED <<focus, clock, pay, posted, last, runs, floor, longest, missed>>
  BY DEF PageRefused, PageFails, CreateSweepRunFails, Crash
<1> DEFINE given == [NoRun EXCEPT !.pc = "log", !.failed = TRUE]
<1>2. given \in Run
  BY SweepConstants DEF Run
<1>3. /\ given.to = 0 /\ given.page = {} /\ given.rest = {} /\ given.failed /\ given.pc = "log"
      /\ NoRun.to = 0 /\ NoRun.pc = "idle"
  BY DEF NoRun
<1>4. /\ run' \in [Sweepers -> Run]
      /\ \A s \in Sweepers : run'[s] \in {run[s], NoRun, given}
  BY <1>0, <1>2, SweepConstants DEF SweepType, PageRefused, PageFails, GiveUp,
     CreateSweepRunFails, Crash
<1> HIDE DEF given
<1>5. SweepType' /\ Grows
  BY <1>0, <1>1, <1>4 DEF SweepType, Grows
<1>6. ASSUME NEW s \in Sweepers PROVE RunInv(s)'
  <2>1. CASE run'[s] = run[s]
    BY <1>5, <2>1, RunStays
  <2>2. CASE run'[s] \in {NoRun, given}
    BY <1>0, <1>1, <1>3, <2>2, NoPromise
  <2> QED
    BY <1>4, <2>1, <2>2
<1> QED
  BY <1>1, <1>5, <1>6, UnloggedStep

-----------------------------------------------------------------------------
(* The log.                                                                *)

\* A run is logged: what it did not see is in the next window all the same.
LEMMA LoggedSweep ==
    ASSUME SweepInv, NEW s \in Sweepers, CreateSweepRun(s)
    PROVE  SweepInv'
<1>0. /\ SweepType /\ RunInv(s) /\ ClockInv /\ NothingSkipped /\ PostedAmounts
      /\ run[s] \in Run /\ run[s].pc = "log" /\ run \in [Sweepers -> Run]
  BY DEF SweepInv, SweepType, CreateSweepRun
<1>1. /\ run' = [run EXCEPT ![s] = NoRun]
      /\ UNCHANGED <<focus, clock, pay, posted, runs, missed>>
  BY DEF CreateSweepRun
<1>2. /\ run' \in [Sweepers -> Run] /\ run'[s] = NoRun
      /\ \A q \in Sweepers \ {s} : run'[q] = run[q]
  BY <1>0, <1>1, SweepConstants
<1>3. /\ clock \in Int /\ 0 <= clock /\ run[s].to \in Int /\ 0 <= run[s].to
      /\ run[s].from \in Int
      /\ run[s].to <= clock /\ run[s].page = {} /\ run[s].rest = {}
      /\ longest \in Nat /\ Overlap \in Nat /\ Interval \in Nat /\ None \notin Int
      /\ last # None => last \in Int /\ last <= clock /\ floor \in Int
      /\ floor \in Int \cup {None}
  BY <1>0, SweepConstants, SweepAssumption DEF SweepType, RunInv, Run, ClockInv
<1>4. NoRun.to = 0 /\ NoRun.pc = "idle"
  BY DEF NoRun
<1>5. RunInv(s)'
  BY <1>1, <1>2, <1>3, <1>4, NoPromise
<1>6. CASE run[s].failed
  <2>1. UNCHANGED <<last, floor, longest>>
    BY <1>6 DEF CreateSweepRun
  <2>2. SweepType' /\ Grows
    BY <1>0, <1>1, <1>2, <1>3, <2>1 DEF SweepType, Grows
  <2> QED
    BY <1>2, <1>5, <2>1, <2>2, MovedRun
<1>7. CASE ~run[s].failed
  <2>1. /\ last' = clock
        /\ longest' = Later(longest, clock - run[s].to)
        /\ floor' = IF last = None \/ run[s].cut THEN Later(floor, run[s].from) ELSE floor
    BY <1>7 DEF CreateSweepRun
  <2>2. /\ longest' \in Times /\ longest' >= longest /\ longest' >= clock - run[s].to
        /\ longest' \in Int
    <3>1. longest \in Times /\ clock - run[s].to \in Times
      BY <1>0, <1>3, SweepAssumption DEF SweepType, Times
    <3> QED
      BY <1>3, <2>1, <3>1, SweepConstants DEF Later
  <2>3. /\ floor' \in Int
        /\ floor # None => floor' >= floor
        /\ (last = None \/ run[s].cut) => floor' >= run[s].from
    BY <1>3, <2>1 DEF Later
  <2>4. SweepType'
    BY <1>0, <1>1, <1>2, <2>1, <2>2, <2>3 DEF SweepType
  <2>5. Grows
    BY <1>0, <1>1, <1>3, <2>1 DEF Grows
  <2>6. \A q \in Sweepers : RunInv(q)'
    BY <1>2, <1>5, <2>4, <2>5, RunStays
  <2>7. ClockInv'
    BY <1>0, <1>1, <1>3, <2>1, <2>3 DEF ClockInv
  <2>8. NothingSkipped'
    <3> SUFFICES ASSUME NEW p \in Payments, pay[p] # None, posted[p] = None, p \notin missed,
                        pay[p].listed # None,
                        (pay[p].listed - pay[p].at) + longest' <= Overlap,
                        pay[p].at >= floor'
                 PROVE  pay[p].at >= clock - Overlap
      BY <1>1, <1>3, <2>1 DEF NothingSkipped, NextFrom
    <3>1. pay[p].at \in Int /\ pay[p].listed \in Int
      BY <1>0, SweepConstants DEF SweepType, Payment
    <3> SUFFICES ASSUME pay[p].at < clock - Overlap PROVE FALSE
      BY <1>3, <3>1
    <3>2. pay[p].listed < run[s].to
      BY <1>3, <2>2, <3>1
    <3>3. pay[p].at < run[s].from
      <4>1. ~Early(p, run[s])
        BY <1>0, <1>3, <1>7 DEF RunInv, Listed
      <4> QED
        BY <1>3, <3>1, <3>2, <4>1 DEF Early
    <3>4. last # None /\ ~run[s].cut
      BY <1>3, <2>3, <3>1, <3>3
    <3>5. run[s].from <= last - Overlap
      BY <1>0, <1>7, <3>4 DEF RunInv, NextFrom
    <3>6. pay[p].at >= floor /\ (pay[p].listed - pay[p].at) + longest <= Overlap
      BY <1>3, <2>2, <2>3, <3>1, <3>4
    <3>7. pay[p].at >= last - Overlap
      BY <1>0, <3>4, <3>6 DEF NothingSkipped, NextFrom
    <3> QED
      BY <1>3, <3>1, <3>3, <3>4, <3>5, <3>7
  <2>9. PostedAmounts'
    BY <1>0, <1>1 DEF PostedAmounts
  <2> QED
    BY <2>4, <2>6, <2>7, <2>8, <2>9 DEF SweepInv
<1> QED
  BY <1>6, <1>7

\* In the beginning there is nothing to skip.
LEMMA SweepInvInit == Init => SweepInv
<1> SUFFICES ASSUME Init PROVE SweepInv
  OBVIOUS
<1>1. /\ focus \in Focuses /\ focus.runs \in Nat /\ 0 \in Times
  BY SweepAssumption DEF Init, Times
<1>2. SweepType
  BY <1>1, SweepConstants DEF Init, SweepType
<1>3. NoRun.to = 0 /\ NoRun.pc = "idle"
  BY DEF NoRun
<1>4. \A s \in Sweepers : RunInv(s)
  BY <1>3 DEF Init, RunInv, Listed
<1> QED
  BY <1>2, <1>4 DEF Init, SweepInv, ClockInv, NothingSkipped, PostedAmounts

\* Every step keeps the invariant.
LEMMA SweepInvNext == SweepInv /\ [Next]_vars => SweepInv'
<1> SUFFICES ASSUME SweepInv, [Next]_vars PROVE SweepInv'
  OBVIOUS
<1>1. CASE Environment
  BY <1>1, WorldSweep DEF Environment, OtherCall
<1>2. CASE \E c \in Callers : TokenStep(c) /\ UNCHANGED sweepVars
  BY <1>2, WorldSweep
<1>3. CASE \E s \in Sweepers : RunStep(s)
  BY <1>3, WorldSweep, WindowSweep, PageSweep, GivenUpSweep, ItemSweep, LoggedSweep
     DEF RunStep, RequestPage
<1>4. CASE Failure
  BY <1>4, WorldSweep, WindowSweep, ItemSweep, PageSweep, GivenUpSweep DEF Failure
<1>5. CASE UNCHANGED vars
  BY <1>5, WorldSweep DEF vars
<1> QED
  BY <1>1, <1>2, <1>3, <1>4, <1>5 DEF Next

FaultBound == faults \in 0..MaxFaults

\* The number of failures stays within its bound.
LEMMA FaultsBounded == FaultBound /\ [Next]_vars => FaultBound'
<1> SUFFICES ASSUME FaultBound, [Next]_vars PROVE FaultBound'
  OBVIOUS
<1>1. UNCHANGED faults \/ Fault
  BY DEF Next, vars, tokenVars, Environment, Tick, Pay, List, Webhook, OtherCall, AuthDo,
     ExpireToken, TokenStep, AccessToken, FetchToken, CloseChannel, TakeToken, RunStep,
     StartRun, ComputeWindowFrom, RequestPage, ReceivePage, CutPage, PageRefused, Item,
     CreateSweepRun, Failure, TokenFault, FetchTokenFails, ContextDone,
     LastSweepTimeFails, PageFails, EntryMalformed, ItemFails, CreateSweepRunFails, Crash
<1> QED
  BY <1>1, TokenAssumption DEF Fault, FaultBound

\* The inductive invariant of the sweeps.
THEOREM SweepInvariant == Spec => []SweepInv
BY SweepInvInit, SweepInvNext, PTL DEF Spec

\* The type invariant of the sweeps and their provider calls.
THEOREM TypeCorrect == Spec => []TypeOK
<1>1. Init => FaultBound
  BY TokenAssumption DEF Init, TokenInit, FaultBound
<1>2. SweepInv /\ TokenInv /\ FaultBound => TypeOK
  BY DEF FaultBound, SweepInv, SweepType, TokenInv, TokenType, TypeOK
<1> QED
  BY <1>1, <1>2, FaultsBounded, SweepInvariant, TokenInvariant, PTL DEF Spec

\* The overlap of the windows loses no payment that was listed in time, with any
\* number of runs at the same time, failed pages, lost logs and crashes.
THEOREM OverlapSuffices == Spec => []NothingSkipped
<1>1. SweepInv => NothingSkipped
  BY DEF SweepInv
<1> QED
  BY <1>1, SweepInvariant, PTL

\* The sweep posts what was paid, to the kobo; nobody ever posts more.
THEOREM AmountsExact == Spec => []PostedAmounts
<1>1. SweepInv => PostedAmounts
  BY DEF SweepInv
<1> QED
  BY <1>1, SweepInvariant, PTL
=============================================================================
