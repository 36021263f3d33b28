----------------------------- MODULE TokenCache -----------------------------
(***************************************************************************)
(* The provider's HTTP client (provider/nomba/client.go): the cached       *)
(* access token and its single-flight refresh.                             *)
(*                                                                         *)
(*   idle -> token -> send                         the cached token serves *)
(*           token -> fetch -> close -> send       this caller refreshes   *)
(*           token -> wait -> woken -> send        another one does        *)
(*                                                                         *)
(* Each step is a critical section of the mutex, the close of the channel  *)
(* or an HTTP exchange; a call that fails goes to "error" instead of       *)
(* "send".  The channel of a refresh is named by its refresher.            *)
(***************************************************************************)
EXTENDS Naturals, FiniteSets

CONSTANTS
    Callers,   \* goroutines that call the provider
    Nobody,    \* a nil channel
    MaxFaults  \* bound on failed calls and crashes

ASSUME TokenAssumption ==
    /\ Nobody \notin Callers
    /\ MaxFaults \in Nat

VARIABLES
    token,     \* the cached token: empty, stale (past its 28 minutes) or fresh
    inflight,  \* the refresher, or Nobody
    call,      \* what each caller is at
    faults

tokenVars == <<token, inflight, call, faults>>

TokenStates == {"empty", "stale", "fresh"}

CallSteps == {"idle", "token", "fetch", "close", "wait", "woken", "send", "error"}

\* held is the token the caller will send; on, the channel it waits for; outcome,
\* how its own fetch ended.
Call == [pc: CallSteps, held: TokenStates, on: Callers \cup {Nobody}, outcome: {"ok", "error"}]

NoCall == [pc |-> "idle", held |-> "empty", on |-> Nobody, outcome |-> "ok"]

TokenInit(cached) ==
    /\ token = cached
    /\ inflight = Nobody
    /\ call = [c \in Callers |-> NoCall]
    /\ faults = 0

Fault == faults < MaxFaults /\ faults' = faults + 1

-----------------------------------------------------------------------------
\* Client.do with auth: a request needs a token.
AuthDo(c) ==
    /\ call[c] = NoCall
    /\ call' = [call EXCEPT ![c].pc = "token"]
    /\ UNCHANGED <<token, inflight, faults>>

\* Mutant of Refreshing: a refresh under way is not announced.
RefreshingAlone(c) == UNCHANGED inflight

Refreshing(c) == inflight' = c

\* The first critical section of accessToken.
AccessToken(c) ==
    /\ call[c].pc = "token"
    /\ \/ /\ token = "fresh"
          /\ call' = [call EXCEPT ![c].pc = "send", ![c].held = token]
          /\ UNCHANGED inflight
       \/ /\ token # "fresh" /\ inflight # Nobody
          /\ call' = [call EXCEPT ![c].pc = "wait", ![c].on = inflight]
          /\ UNCHANGED inflight
       \/ /\ token # "fresh" /\ inflight = Nobody
          /\ call' = [call EXCEPT ![c].pc = "fetch"]
          /\ Refreshing(c)
    /\ UNCHANGED <<token, faults>>

\* Mutant of FetchToken: the new token is returned and not stored.
FetchTokenUnstored(c) ==
    /\ call[c].pc = "fetch"
    /\ inflight' = Nobody
    /\ call' = [call EXCEPT ![c].pc = "close", ![c].held = "fresh"]
    /\ UNCHANGED <<token, faults>>

\* The answer to fetchToken, and the critical section after it.
FetchToken(c) ==
    /\ call[c].pc = "fetch"
    /\ token' = "fresh"
    /\ inflight' = Nobody
    /\ call' = [call EXCEPT ![c].pc = "close", ![c].held = "fresh"]
    /\ UNCHANGED faults

\* The old token is kept, whatever it is.
FetchTokenFails(c) ==
    /\ Fault
    /\ call[c].pc = "fetch"
    /\ inflight' = Nobody
    /\ call' = [call EXCEPT ![c].pc = "close", ![c].outcome = "error"]
    /\ UNCHANGED token

Woken(c) == {w \in Callers : call[w].pc = "wait" /\ call[w].on = c}

\* Mutant of CloseChannel: a failed refresh returns without closing.
CloseChannelOnSuccess(c) ==
    /\ call[c].pc = "close"
    /\ call' = [w \in Callers |->
                   CASE w = c -> [call[c] EXCEPT !.pc = IF call[c].outcome = "ok"
                                                        THEN "send" ELSE "error"]
                     [] w \in Woken(c) /\ call[c].outcome = "ok" ->
                            [call[w] EXCEPT !.pc = "woken", !.on = Nobody]
                     [] OTHER -> call[w]]
    /\ UNCHANGED <<token, inflight, faults>>

\* close(ch) after the mutex is released: every waiter of this refresh goes on.
CloseChannel(c) ==
    /\ call[c].pc = "close"
    /\ call' = [w \in Callers |->
                   CASE w = c -> [call[c] EXCEPT !.pc = IF call[c].outcome = "ok"
                                                        THEN "send" ELSE "error"]
                     [] w \in Woken(c) -> [call[w] EXCEPT !.pc = "woken", !.on = Nobody]
                     [] OTHER -> call[w]]
    /\ UNCHANGED <<token, inflight, faults>>

\* A waiter takes the token there is, with a nil error.
TakeToken(c) ==
    /\ call[c].pc = "woken"
    /\ call' = [call EXCEPT ![c].pc = "send", ![c].held = token]
    /\ UNCHANGED <<token, inflight, faults>>

\* The context of a waiter ends before the refresh does.
ContextDone(c) ==
    /\ Fault
    /\ call[c].pc = "wait"
    /\ call' = [call EXCEPT ![c].pc = "error", ![c].on = Nobody]
    /\ UNCHANGED <<token, inflight>>

\* The caller has its answer, or its error.
Return(c) == call' = [call EXCEPT ![c] = NoCall]

\* The 28 minutes are over.  Steps between a refresh and its use take less than
\* the two minutes that are left of a token then.
ExpireToken ==
    /\ token = "fresh"
    /\ \A c \in Callers : call[c].pc \notin {"wait", "woken"}
    /\ token' = "stale"
    /\ UNCHANGED <<inflight, call, faults>>

-----------------------------------------------------------------------------
TokenStep(c) ==
    \/ AccessToken(c)
    \/ FetchToken(c)
    \/ CloseChannel(c)
    \/ TakeToken(c)

TokenFault(c) == FetchTokenFails(c) \/ ContextDone(c)

-----------------------------------------------------------------------------
\* NFR-8, "single-flight pattern to avoid the documented concurrent-auth 401": at
\* most one caller is asking for a token, with any number of callers, failed
\* refreshes, and refreshes that start before the waiters of the last one are woken.
OneRefresh ==
    \A c, d \in Callers : (call[c].pc = "fetch" /\ call[d].pc = "fetch") => c = d

\* "accessToken returns a valid Nomba access token": a request goes out with an
\* empty or expired token only after a refresh failed, and then as that of a waiter.
SentTokensFresh ==
    \A c \in Callers : (call[c].pc = "send" /\ faults = 0) => call[c].held = "fresh"

\* "if a refresh is in progress, waiters block here": whoever waits, waits for a
\* caller that is still to close the channel, also when refreshes fail, when the
\* context of another waiter ends and when the next refresh has begun.
NobodyStranded ==
    \A c \in Callers : call[c].pc = "wait" =>
        call[c].on \in {d \in Callers : call[d].pc \in {"fetch", "close"}}
=============================================================================
