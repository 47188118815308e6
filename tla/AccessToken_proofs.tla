-------------------------- MODULE AccessToken_proofs --------------------------
(****************************************************************************)
(* The token server and its callers, for any calls, lifetimes and bounds.   *)
(****************************************************************************)
EXTENDS AccessToken, TLAPS

\* What is used of a lifetime leaves a margin of at least ten seconds.
LEMMA KeptMargin == \A e \in Nat : Kept(e) \in Nat /\ (Kept(e) # 0 => Kept(e) + 10 <= e)
BY DEF Kept, Year

\* Nothing is cached and nobody calls at the start.
LEMMA TokenInit == TokInit => TokenInv
<1> SUFFICES ASSUME TokInit PROVE TokenInv
  OBVIOUS
<1>1. TokTypeOK
  <2>1. 0 \in 0 .. MaxTokens /\ 0 \in 0 .. MaxTicks /\ 0 \in 0 .. MaxLosses /\ FirstTick \in Nat
    BY TokenAssumption
  <2> QED BY <2>1 DEF TokInit, TokTypeOK
<1>2. AnswerIsOwn /\ CacheIsNewest /\ CacheState /\ RejectedOnlyAfterLoss
  BY DEF TokInit, AnswerIsOwn, CacheIsNewest, CacheState, RejectedOnlyAfterLoss
<1>3. \A c \in Calls : FreshFor(c)
  BY DEF TokInit, FreshFor
<1> QED BY <1>1, <1>2, <1>3 DEF TokenInv

\* Every step keeps the types.
LEMMA TypeStep == TokTypeOK /\ [TokNext]_tokVars => TokTypeOK'
<1> SUFFICES ASSUME TokTypeOK, [TokNext]_tokVars PROVE TokTypeOK'
  OBVIOUS
<1> USE DEF TokTypeOK
<1>1. ASSUME NEW c \in Calls, Token(c) PROVE TokTypeOK'
  BY <1>1 DEF Token, daemonVars
<1>2. ASSUME NEW c \in Calls, CallReturns(c) \/ CallRejected(c) PROVE TokTypeOK'
  BY <1>2 DEF CallReturns, CallRejected, daemonVars, wechatVars
<1>3. ASSUME NEW c \in Calls, Accept(c) PROVE TokTypeOK'
  BY <1>3 DEF Accept, wechatVars
<1>4. ASSUME NEW c \in Calls, Answer(c) PROVE TokTypeOK'
  <2>1. 0 \in 0 .. MaxTokens
    BY TokenAssumption
  <2> QED BY <1>4, <2>1 DEF Answer, wechatVars
<1>5. CASE Issue
  <2>1. issued' \in 0 .. MaxTokens /\ issued' \in Tokens /\ life' \in Nat
    BY <1>5, TokenAssumption DEF Issue, Tokens
  <2>2. valid' \in SUBSET Tokens
    BY <1>5, <2>1 DEF Issue
  <2>3. lost' \in [Calls -> BOOLEAN]
    BY <1>5 DEF Issue, Dropping
  <2> QED BY <1>5, <2>1, <2>2, <2>3 DEF Issue, callVars
<1>6. CASE FetchFails
  BY <1>6, TokenAssumption DEF FetchFails, callVars, wechatVars
<1>7. CASE FetchStores
  BY <1>7, KeptMargin DEF FetchStores, callVars, wechatVars
<1>8. CASE Tick
  BY <1>8, TokenAssumption DEF Tick, callVars
<1>9. CASE Lose
  BY <1>9, TokenAssumption DEF Lose, Dropping, callVars, daemonVars
<1>10. CASE UNCHANGED tokVars
  BY <1>10 DEF tokVars, callVars, daemonVars, wechatVars
<1> QED BY <1>1, <1>2, <1>3, <1>4, <1>5, <1>6, <1>7, <1>8, <1>9, <1>10 DEF TokNext, Call, Fetch

\* One request is served at a time.
LEMMA AnswerStep == TokTypeOK /\ AnswerIsOwn /\ [TokNext]_tokVars => AnswerIsOwn'
<1> SUFFICES ASSUME TokTypeOK, AnswerIsOwn, [TokNext]_tokVars PROVE AnswerIsOwn'
  OBVIOUS
<1> USE DEF TokTypeOK, AnswerIsOwn
<1>1. ASSUME NEW c \in Calls, Token(c) PROVE AnswerIsOwn'
  BY <1>1 DEF Token, daemonVars
<1>2. ASSUME NEW c \in Calls, CallReturns(c) \/ CallRejected(c) PROVE AnswerIsOwn'
  BY <1>2 DEF CallReturns, CallRejected, daemonVars
<1>3. ASSUME NEW c \in Calls, Accept(c) PROVE AnswerIsOwn'
  <2>1. \A d \in Calls : pc[d] # "awaiting" \/ cause = "tick"
    BY <1>3 DEF Accept
  <2>2. \A d \in Calls : pc[d] # "awaiting"
    BY <1>3 DEF Accept
  <2> QED BY <1>3, <2>2 DEF Accept
<1>4. ASSUME NEW c \in Calls, Answer(c) PROVE AnswerIsOwn'
  BY <1>4 DEF Answer
<1>5. CASE Issue \/ FetchFails \/ FetchStores
  BY <1>5 DEF Issue, FetchFails, FetchStores, callVars
<1>6. CASE Tick
  BY <1>6 DEF Tick, callVars
<1>7. CASE Lose \/ UNCHANGED tokVars
  BY <1>7 DEF Lose, tokVars, callVars, daemonVars
<1> QED BY <1>1, <1>2, <1>3, <1>4, <1>5, <1>6, <1>7 DEF TokNext, Call, Fetch

\* The cache and the ticker.
LEMMA CacheStep ==
    TokTypeOK /\ CacheIsNewest /\ CacheState /\ [TokNext]_tokVars => CacheIsNewest' /\ CacheState'
<1> SUFFICES ASSUME TokTypeOK, CacheIsNewest, CacheState, [TokNext]_tokVars
             PROVE CacheIsNewest' /\ CacheState'
  OBVIOUS
<1> USE DEF TokTypeOK, CacheIsNewest, CacheState
<1>1. ASSUME NEW c \in Calls, Call(c) PROVE CacheIsNewest' /\ CacheState'
  BY <1>1 DEF Call, Token, CallReturns, CallRejected, daemonVars, wechatVars
<1>2. ASSUME NEW c \in Calls, Accept(c) PROVE CacheIsNewest' /\ CacheState'
  BY <1>2 DEF Accept, wechatVars
<1>3. ASSUME NEW c \in Calls, Answer(c) PROVE CacheIsNewest' /\ CacheState'
  BY <1>3 DEF Answer, wechatVars
<1>4. CASE Issue
  BY <1>4 DEF Issue
<1>5. CASE FetchFails
  BY <1>5 DEF FetchFails, wechatVars
<1>6. CASE FetchStores
  <2>1. Kept(life) \in Nat
    BY KeptMargin
  <2> QED BY <1>6, <2>1 DEF FetchStores, Distance, wechatVars
<1>7. CASE Tick
  BY <1>7 DEF Tick
<1>8. CASE Lose \/ UNCHANGED tokVars
  BY <1>8 DEF Lose, tokVars, daemonVars, wechatVars
<1> QED BY <1>1, <1>2, <1>3, <1>4, <1>5, <1>6, <1>7, <1>8 DEF TokNext, Fetch

\* What a call may count on.
LEMMA FreshStep ==
    TokenInv /\ [TokNext]_tokVars => RejectedOnlyAfterLoss' /\ \A c \in Calls : FreshFor(c)'
<1> SUFFICES ASSUME TokenInv, [TokNext]_tokVars, NEW d \in Calls
             PROVE (pc'[d] = "rejected" => lost'[d]) /\ FreshFor(d)'
  BY DEF RejectedOnlyAfterLoss
<1> USE DEF TokenInv, TokTypeOK, CacheState, AnswerIsOwn, RejectedOnlyAfterLoss, FreshFor
<1>1. ASSUME NEW c \in Calls, Token(c) PROVE (pc'[d] = "rejected" => lost'[d]) /\ FreshFor(d)'
  BY <1>1 DEF Token, daemonVars
<1>2. ASSUME NEW c \in Calls, CallReturns(c) \/ CallRejected(c)
      PROVE (pc'[d] = "rejected" => lost'[d]) /\ FreshFor(d)'
  BY <1>2 DEF CallReturns, CallRejected, daemonVars, wechatVars
<1>3. ASSUME NEW c \in Calls, Accept(c) PROVE (pc'[d] = "rejected" => lost'[d]) /\ FreshFor(d)'
  BY <1>3 DEF Accept, wechatVars
<1>4. ASSUME NEW c \in Calls, Answer(c) PROVE (pc'[d] = "rejected" => lost'[d]) /\ FreshFor(d)'
  BY <1>4 DEF Answer, wechatVars
<1>5. CASE Issue
  <2>1. issued' \in valid' /\ \A t \in valid : t \in valid' \/ lost'[d] \/ pc[d] = "idle"
    BY <1>5 DEF Issue, Dropping
  <2> QED BY <1>5, <2>1 DEF Issue, Dropping, callVars
<1>6. CASE FetchFails
  BY <1>6 DEF FetchFails, callVars, wechatVars
<1>7. CASE FetchStores
  BY <1>7 DEF FetchStores, callVars, wechatVars
<1>8. CASE Tick
  BY <1>8 DEF Tick, callVars
<1>9. CASE Lose
  <2>1. \A t \in valid : t \in valid' \/ lost'[d] \/ pc[d] = "idle"
    BY <1>9 DEF Lose, Dropping
  <2> QED BY <1>9, <2>1 DEF Lose, Dropping, callVars, daemonVars
<1>10. CASE UNCHANGED tokVars
  BY <1>10 DEF tokVars, callVars, daemonVars, wechatVars
<1> QED BY <1>1, <1>2, <1>3, <1>4, <1>5, <1>6, <1>7, <1>8, <1>9, <1>10 DEF TokNext, Call, Fetch

\* The invariant holds.
LEMMA TokenInvariant == TokSpec => []TokenInv
<1>1. TokenInv /\ [TokNext]_tokVars => TokenInv'
  BY TypeStep, AnswerStep, CacheStep, FreshStep DEF TokenInv
<1> QED BY <1>1, TokenInit, PTL DEF TokSpec

\* An answer of the daemon reaches the call it was made for.
THEOREM AnswersDoNotMix == TokSpec => []AnswerIsOwn
<1>1. TokenInv => AnswerIsOwn
  BY DEF TokenInv
<1> QED BY <1>1, TokenInvariant, PTL

\* The cache never holds a token that was replaced.
THEOREM CacheHoldsNewest == TokSpec => []CacheIsNewest
<1>1. TokenInv => CacheIsNewest
  BY DEF TokenInv
<1> QED BY <1>1, TokenInvariant, PTL

\* For any lifetimes the ticker fires before the cached token ends: the margin
\* is at least ten seconds, and the ticker at most five behind.
THEOREM TickerInTime == TokSpec => []TickBeforeExpiry
<1>1. TokenInv => TickBeforeExpiry
  <2> SUFFICES ASSUME TokenInv, cache # 0, daemon = "free" PROVE period < life
    BY DEF TickBeforeExpiry
  <2>1. keep = Kept(life) /\ keep # 0 /\ period <= keep + 5
    BY DEF TokenInv, CacheState
  <2>2. keep + 10 <= life
    BY <2>1, KeptMargin DEF TokenInv, TokTypeOK
  <2> QED BY <2>1, <2>2 DEF TokenInv, TokTypeOK
<1> QED BY <1>1, TokenInvariant, PTL

\* One retry is enough unless WeChat drops a token during the call.
THEOREM OneRetryIsEnough == TokSpec => []RejectedOnlyAfterLoss
<1>1. TokenInv => RejectedOnlyAfterLoss
  BY DEF TokenInv
<1> QED BY <1>1, TokenInvariant, PTL

=============================================================================
