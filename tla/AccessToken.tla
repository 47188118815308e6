------------------------------ MODULE AccessToken ------------------------------
(****************************************************************************)
(* The access_token of the WeChat API: DefaultAccessTokenServer, whose      *)
(* daemon alone fetches tokens, and the calls of core.Client, which take    *)
(* the cached token, and refresh it once when WeChat rejects it.            *)
(*                                                                          *)
(* A caller hands its rejected token (0: it had none) to the daemon over    *)
(* one unbuffered channel and takes the answer from another; nothing ties   *)
(* an answer to a request but the order of the daemon's steps.  WeChat may  *)
(* drop the previous token when it issues one, and any token at any time.   *)
(****************************************************************************)
EXTENDS Integers

CONSTANTS Calls,      \* calls of the WeChat API
          MaxTokens,  \* bound: tokens issued
          MaxTicks,   \* bound: times the ticker fires
          MaxLosses,  \* bound: tokens WeChat drops of its own accord
          Lifetimes,  \* values of expires_in, in seconds
          FirstTick   \* the first period of the ticker: 100 days or more

ASSUME TokenAssumption == /\ MaxTokens \in Nat /\ MaxTicks \in Nat /\ MaxLosses \in Nat
                          /\ Lifetimes \subseteq Nat
                          /\ FirstTick \in Nat

Tokens == 1 .. MaxTokens
Year == 31556952

VARIABLES
    pc,        \* pc[c]: where call c is
    tok,       \* tok[c]: the token it uses, or passes to RefreshToken
    retried,   \* retried[c]: hasRetried
    cache,     \* tokenCache, 0 for nil
    keep,      \* ExpiresIn of the cached token, the margin taken off
    period,    \* tickDuration
    daemon,    \* where tokenUpdateDaemon is
    cause,     \* why it fetches: for a "call" or the "tick" of its ticker
    result,    \* the token it answers with, 0 for an error
    fetched,   \* !cached: the answer comes from a fetch
    issued,    \* WeChat: tokens issued so far, the newest one
    life,      \* WeChat: the expires_in of the newest one
    valid,     \* WeChat: the tokens it accepts
    lost,      \* lost[c]: since c took its first token, a token was dropped
               \*   (one whose answer was still on its way then included)
    ticks, losses  \* bounds

callVars   == <<pc, tok, retried>>
daemonVars == <<cache, keep, period, daemon, cause, result, fetched>>
wechatVars == <<issued, life, valid, lost, ticks, losses>>
tokVars == <<callVars, daemonVars, wechatVars>>

TokInit == /\ pc = [c \in Calls |-> "idle"]
        /\ tok = [c \in Calls |-> 0]
        /\ retried = [c \in Calls |-> FALSE]
        /\ cache = 0 /\ keep = 0 /\ period = FirstTick
        /\ daemon = "free" /\ cause = "tick" /\ result = 0 /\ fetched = FALSE
        /\ issued = 0 /\ life = 0 /\ valid = {}
        /\ lost = [c \in Calls |-> FALSE]
        /\ ticks = 0 /\ losses = 0

-----------------------------------------------------------------------------
(* A call: GetJSON, PostJSON and PostMultipartForm share the same steps.    *)

\* Token(): the cached token, or RefreshToken("") when there is none.
Token(c) ==
    /\ pc[c] = "idle"
    /\ pc' = [pc EXCEPT ![c] = IF cache = 0 THEN "asking" ELSE "calling"]
    /\ tok' = [tok EXCEPT ![c] = cache]
    /\ lost' = [lost EXCEPT ![c] = daemon = "issued" /\ issued \notin valid]
    /\ UNCHANGED <<retried, daemonVars, issued, life, valid, ticks, losses>>

\* WeChat accepts the token, or the HTTP request fails.
CallReturns(c) ==
    /\ pc[c] = "calling"
    /\ \/ tok[c] \in valid /\ pc' = [pc EXCEPT ![c] = "ok"]
       \/ pc' = [pc EXCEPT ![c] = "failed"]
    /\ UNCHANGED <<tok, retried, daemonVars, wechatVars>>

\* ErrCodeInvalidCredential or ErrCodeAccessTokenExpired: refresh it, once.
CallRejected(c) ==
    /\ pc[c] = "calling" /\ tok[c] \notin valid
    /\ pc' = [pc EXCEPT ![c] = IF retried[c] THEN "rejected" ELSE "asking"]
    /\ retried' = [retried EXCEPT ![c] = TRUE]
    /\ UNCHANGED <<tok, daemonVars, wechatVars>>

-----------------------------------------------------------------------------
(* tokenUpdateDaemon.                                                       *)

\* Variant: the cached token is the answer to whoever asks.
AcceptAnyCached(c) ==
    /\ daemon = "free" /\ pc[c] = "asking"
    /\ pc' = [pc EXCEPT ![c] = "awaiting"]
    /\ cause' = "call"
    /\ IF cache # 0
       THEN daemon' = "answering" /\ result' = cache /\ fetched' = FALSE
       ELSE daemon' = "fetching" /\ UNCHANGED <<result, fetched>>
    /\ UNCHANGED <<tok, retried, cache, keep, period, wechatVars>>

\* Variant: with a buffered answer channel, the daemon is free before its
\* answer is taken.
AcceptEarly(c) ==
    /\ daemon \in {"free", "answering"} /\ pc[c] = "asking"
    /\ pc' = [pc EXCEPT ![c] = "awaiting"]
    /\ cause' = "call"
    /\ IF tok[c] # 0 /\ cache \notin {0, tok[c]}
       THEN daemon' = "answering" /\ result' = cache /\ fetched' = FALSE
       ELSE daemon' = "fetching" /\ UNCHANGED <<result, fetched>>
    /\ UNCHANGED <<tok, retried, cache, keep, period, wechatVars>>

\* A request is received.  If another call has replaced the token in the
\* meantime, the new one is the answer; otherwise it is fetched.
Accept(c) ==
    /\ daemon = "free" /\ pc[c] = "asking"
    /\ pc' = [pc EXCEPT ![c] = "awaiting"]
    /\ cause' = "call"
    /\ IF tok[c] # 0 /\ cache \notin {0, tok[c]}
       THEN daemon' = "answering" /\ result' = cache /\ fetched' = FALSE
       ELSE daemon' = "fetching" /\ UNCHANGED <<result, fetched>>
    /\ UNCHANGED <<tok, retried, cache, keep, period, wechatVars>>

Tick == /\ daemon = "free" /\ ticks < MaxTicks
        /\ ticks' = ticks + 1
        /\ daemon' = "fetching" /\ cause' = "tick"
        /\ UNCHANGED <<callVars, cache, keep, period, result, fetched,
                       issued, life, valid, lost, losses>>

\* Variant: what is left of a lifetime when only network delay is taken off.
KeptTight(e) == CASE e > Year -> 0
                  [] e > 60 /\ e <= Year -> e - 1
                  [] OTHER -> 0

\* How long a token of lifetime e is used; 0 if e is too large or too small.
Kept(e) == CASE e > Year -> 0
             [] e > 3600 /\ e <= Year -> e - 600
             [] e > 1800 /\ e <= 3600 -> e - 300
             [] e > 300 /\ e <= 1800 -> e - 60
             [] e > 60 /\ e <= 300 -> e - 10
             [] OTHER -> 0

\* Variant: the old token stays cached.
FetchFailsKeepsCache ==
    /\ daemon = "fetching" \/ daemon = "issued"
    /\ daemon' = IF cause = "call" THEN "answering" ELSE "free"
    /\ UNCHANGED <<result, fetched>>
    /\ UNCHANGED <<callVars, cache, keep, period, cause, wechatVars>>

\* Variant: an error is not sent to the caller.
FetchFailsSilently ==
    /\ daemon = "fetching" \/ daemon = "issued"
    /\ cache' = 0 /\ keep' = 0
    /\ daemon' = "free"
    /\ UNCHANGED <<result, fetched>>
    /\ UNCHANGED <<callVars, period, cause, wechatVars>>

\* The request or its answer is lost, WeChat refuses, or the lifetime is out
\* of range: nothing is cached.
FetchFails ==
    /\ daemon = "fetching" \/ daemon = "issued"
    /\ cache' = 0 /\ keep' = 0
    /\ daemon' = IF cause = "call" THEN "answering" ELSE "free"
    /\ UNCHANGED <<result, fetched>>
    /\ UNCHANGED <<callVars, period, cause, wechatVars>>

Distance(x, y) == IF x >= y THEN x - y ELSE y - x

\* The new token is cached.  The ticker is set anew for a fetch it made itself
\* only if the period changes by more than five seconds.
FetchStores ==
    /\ daemon = "issued" /\ Kept(life) # 0
    /\ cache' = issued /\ keep' = Kept(life)
    /\ daemon' = IF cause = "call" THEN "answering" ELSE "free"
    /\ IF cause = "call" THEN result' = issued /\ fetched' = TRUE
                         ELSE UNCHANGED <<result, fetched>>
    /\ period' = IF cause = "tick" /\ Distance(period, keep') > 5 THEN keep' ELSE period
    /\ UNCHANGED <<callVars, cause, wechatVars>>

\* The answer is received by whoever waits; after a fetch for a call the
\* ticker is set anew.
Answer(c) ==
    /\ daemon = "answering" /\ pc[c] = "awaiting"
    /\ pc' = [pc EXCEPT ![c] = IF result = 0 THEN "failed" ELSE "calling"]
    /\ tok' = [tok EXCEPT ![c] = result]
    /\ daemon' = "free"
    /\ period' = IF fetched /\ result # 0 THEN keep ELSE period
    /\ result' = 0 /\ fetched' = FALSE
    /\ UNCHANGED <<retried, cache, keep, cause, wechatVars>>

-----------------------------------------------------------------------------
(* WeChat.                                                                  *)

Dropping(kept) == lost' = [c \in Calls |-> lost[c] \/ (pc[c] # "idle" /\ ~(valid \subseteq kept))]

\* A token is issued; the one before it may go on for a while.
Issue == /\ daemon = "fetching" /\ issued < MaxTokens
         /\ issued' = issued + 1
         /\ life' \in Lifetimes
         /\ \/ valid' = {issued'}
            \/ valid' = valid \cup {issued'}
         /\ Dropping(valid')
         /\ daemon' = "issued"
         /\ UNCHANGED <<callVars, cache, keep, period, cause, result, fetched, ticks, losses>>

Lose == /\ losses < MaxLosses
        /\ losses' = losses + 1
        /\ \E t \in valid : valid' = valid \ {t}
        /\ Dropping(valid')
        /\ UNCHANGED <<callVars, daemonVars, issued, life, ticks>>

-----------------------------------------------------------------------------

Call(c) == Token(c) \/ CallReturns(c) \/ CallRejected(c)
Fetch == Issue \/ FetchFails \/ FetchStores

TokNext == \/ \E c \in Calls : Call(c) \/ Accept(c) \/ Answer(c)
        \/ Fetch \/ Tick \/ Lose

TokSpec == TokInit /\ [][TokNext]_tokVars

\* A call that began goes on, and HTTP requests return or time out.  Senders on
\* a channel are served first come first served, and select is random: a
\* request that can be received again and again is received.
TokFairness == /\ WF_tokVars(Fetch)
            /\ \A c \in Calls : /\ WF_tokVars(pc[c] # "idle" /\ Call(c))
                                /\ WF_tokVars(Answer(c))
                                /\ SF_tokVars(Accept(c))
TokFairSpec == TokSpec /\ TokFairness

-----------------------------------------------------------------------------

TokTypeOK ==
    /\ pc \in [Calls -> {"idle", "asking", "awaiting", "calling", "ok", "failed", "rejected"}]
    /\ tok \in [Calls -> 0 .. MaxTokens]
    /\ retried \in [Calls -> BOOLEAN]
    /\ cache \in 0 .. MaxTokens /\ keep \in Nat /\ period \in Nat
    /\ daemon \in {"free", "fetching", "issued", "answering"}
    /\ cause \in {"call", "tick"}
    /\ result \in 0 .. MaxTokens /\ fetched \in BOOLEAN
    /\ issued \in 0 .. MaxTokens /\ life \in Nat
    /\ valid \in SUBSET Tokens
    /\ lost \in [Calls -> BOOLEAN]
    /\ ticks \in 0 .. MaxTicks /\ losses \in 0 .. MaxLosses

\* An answer goes to the call that asked: whoever waits for one is alone, and
\* the daemon is busy for it, until it has answered.
AnswerIsOwn ==
    /\ \A c, d \in Calls : pc[c] = "awaiting" /\ pc[d] = "awaiting" => c = d
    /\ (daemon # "free" /\ cause = "call") <=> \E c \in Calls : pc[c] = "awaiting"

\* Whatever was fetched and lost, no token is cached that a later one replaced.
CacheIsNewest == cache # 0 /\ daemon # "issued" => cache = issued

\* Between requests, the ticker fires before the cached token ends, although
\* it is not set anew for every new lifetime.
TickBeforeExpiry == cache # 0 /\ daemon = "free" => period < life

\* A call is rejected for good only if WeChat dropped a token after the call
\* had taken its first: tokens that were stale before do not fail it, however
\* many calls refresh at once.
RejectedOnlyAfterLoss == \A c \in Calls : pc[c] = "rejected" => lost[c]

\* The inductive strengthening.  What is cached is kept for less than its life
\* and the ticker is at most five seconds behind; what the daemon holds.
CacheState ==
    /\ daemon = "issued" => issued # 0
    /\ cache # 0 /\ daemon # "issued" => keep = Kept(life) /\ keep # 0
    /\ cache # 0 /\ (daemon = "free" \/ (daemon = "answering" /\ ~fetched)) => period <= keep + 5
    /\ IF daemon = "answering" THEN result = cache ELSE result = 0 /\ ~fetched
    /\ fetched => result # 0

\* As long as nothing was dropped since call c took its first token: a token
\* that differs from it is good, be it cached, on its way or handed to c.
FreshFor(c) ==
    /\ pc[c] = "idle" => ~retried[c]
    /\ ~lost[c] =>
        /\ pc[c] \in {"calling", "asking", "awaiting"} /\ cache \notin {0, tok[c]} => cache \in valid
        /\ daemon = "issued" /\ pc[c] # "idle" => issued \in valid
        /\ daemon = "answering" /\ pc[c] = "awaiting" /\ result # 0 => result \in valid
        /\ pc[c] = "calling" /\ retried[c] => tok[c] \in valid
TokenInv == /\ TokTypeOK /\ AnswerIsOwn /\ CacheIsNewest /\ CacheState
            /\ RejectedOnlyAfterLoss /\ \A c \in Calls : FreshFor(c)

Over == {"ok", "failed", "rejected"}

\* Every call ends, although all share one daemon and its two channels: in the
\* end there are only calls that are over and calls that never began.
CallEnds == <>[](\A c \in Calls : pc[c] \in Over \cup {"idle"})

=============================================================================
