-------------------------- MODULE ReplyExchange_proofs --------------------------
(****************************************************************************)
(* The channel table of ReplyExchange for any number of users, callbacks    *)
(* and replies: types, the inductive invariant IInv, the safety properties  *)
(* that follow from it, the refinement of Rendezvous, and where stored and  *)
(* filed replies are.                                                       *)
(****************************************************************************)
EXTENDS ReplyExchange, PendingHistory_proofs, FiniteSetTheorems

\* Every id the application may send resolves to a key of the tables.
LEMMA EchoKeyType == \A a \in Keys : EchoKey(a) \in Keys
  BY DEF EchoKey, Keys, Origin, Stray

\* Every id reported to the application is a key.
LEMMA ReportedAsType == \A u \in Users : ReportedAs(u) \in Keys
  BY DEF ReportedAs, Keys, Origin, Row, OpenIDs

\* The key a callback registers under is a key.
LEMMA WaitKeyType == \A c \in Callbacks : Origin(From[c]) \in Keys
  BY ExchangeAssumption DEF Keys, Origin, OpenIDs

\* A response keeps the type of the answers.
LEMMA RespondType ==
    ASSUME TypeOK, NEW c \in Callbacks, NEW k \in Kinds, NEW h \in Seq(Replies), Respond(c, k, h)
    PROVE  answer' \in [Callbacks -> [kind : Kinds, history : Seq(Replies)]]
  BY DEF TypeOK, Respond

\* Every step keeps every variable in its set.
LEMMA TypeStep ==
    ASSUME TypeOK, CallbackState, [Next]_vars
    PROVE  TypeOK'
<1> USE DEF TypeOK, Steps
<1>1. ASSUME NEW c \in Callbacks, Report(c) PROVE TypeOK'
  BY <1>1 DEF Report, tableVars, replyVars
<1>2. ASSUME NEW c \in Callbacks, Register(c) PROVE TypeOK'
  BY <1>2, WaitKeyType DEF Register, replyVars
<1>3. ASSUME NEW c \in Callbacks, Receive(c) PROVE TypeOK'
  BY <1>3 DEF Receive, tableVars, replyVars
<1>4. ASSUME NEW c \in Callbacks, TimerFires(c) PROVE TypeOK'
  BY <1>4 DEF TimerFires, tableVars, replyVars
<1>5. ASSUME NEW c \in Callbacks, Expire(c) PROVE TypeOK'
  <2>1. answer' \in [Callbacks -> [kind : Kinds, history : Seq(Replies)]]
    <3>1. CASE UNCHANGED answer
      BY <3>1
    <3>2. CASE Respond(c, "silent", <<>>)
      BY <3>2 DEF Respond, Kinds
    <3>3. QED
      BY <1>5, <3>1, <3>2 DEF Expire
  <2>2. waiter' \in [Keys -> Callbacks \cup {None}]
    BY <1>5, WaitKeyType DEF Expire
  <2>3. QED
    BY <1>5, <2>1, <2>2 DEF Expire, replyVars
<1>6. ASSUME NEW c \in Callbacks, UploadFails(c) PROVE TypeOK'
  <2>1. answer' \in [Callbacks -> [kind : Kinds, history : Seq(Replies)]]
    BY <1>6 DEF UploadFails, Respond, Kinds
  <2>2. QED
    BY <1>6, <2>1 DEF UploadFails, tableVars, replyVars
<1>7. ASSUME NEW c \in Callbacks, AnswerMedia(c) PROVE TypeOK'
  <2>1. answer' \in [Callbacks -> [kind : Kinds, history : Seq(Replies)]]
    BY <1>7 DEF AnswerMedia, Respond, Kinds
  <2>2. got[c] \in Replies /\ addr[got[c]] \in Keys
    BY <1>7 DEF AnswerMedia, CallbackState
  <2>3. pending' \in [Keys -> Seq(Replies)]
    BY <1>7, <2>2 DEF AnswerMedia
  <2>4. QED
    BY <1>7, <2>1, <2>3 DEF AnswerMedia, tableVars, replyVars
<1>8. ASSUME NEW c \in Callbacks, AnswerText(c) PROVE TypeOK'
  <2> DEFINE k == Origin(From[c])
  <2>1. k \in Keys /\ pending[k] \in Seq(Replies)
    BY WaitKeyType
  <2>2. /\ Shown(pending[k], BodySize(c)) \in Seq(Replies)
        /\ Left(pending[k], BodySize(c)) \in Seq(Replies)
    BY <2>1, ShownIsReverse, LeftComesFromQueue
  <2>3. answer' \in [Callbacks -> [kind : Kinds, history : Seq(Replies)]]
    <3>1. \E kind \in Kinds : Respond(c, kind, Shown(pending[k], BodySize(c)))
      BY <1>8 DEF AnswerText, Kinds
    <3>2. QED
      BY <2>2, <3>1, RespondType
  <2>4. pending' \in [Keys -> Seq(Replies)]
    BY <1>8, <2>1, <2>2 DEF AnswerText
  <2>5. QED
    BY <1>8, <2>3, <2>4 DEF AnswerText, tableVars, replyVars
<1>9. ASSUME NEW r \in Replies, AppSend(r) PROVE TypeOK'
  <2>1. \A a \in {ReportedAs(u) : u \in HeardOf} \cup {Stray} : a \in Keys
    BY ReportedAsType, ExchangeAssumption DEF HeardOf, Keys
  <2>2. QED
    BY <1>9, <2>1 DEF AppSend, handlerVars, tableVars
<1>10. ASSUME NEW r \in Replies, RecvLock(r) PROVE TypeOK'
  BY <1>10 DEF RecvLock, handlerVars, replyVars
<1>11. ASSUME NEW r \in Replies, RecvHand(r) PROVE TypeOK'
  BY <1>11, EchoKeyType DEF RecvHand
<1>12. ASSUME NEW r \in Replies, RecvStore(r) PROVE TypeOK'
  BY <1>12, EchoKeyType DEF RecvStore, handlerVars
<1>13. CASE UNCHANGED vars
  BY <1>13 DEF vars
<1>14. QED
  BY <1>1, <1>2, <1>3, <1>4, <1>5, <1>6, <1>7, <1>8, <1>9, <1>10, <1>11, <1>12, <1>13
     DEF Next, Handler, Recv

\* Who may hold what is kept by a step that hands nothing over and leaves the
\* ids of the held replies alone.
LEMMA HandedFrame ==
    ASSUME HandedToOwnUser,
           \A c \in Callbacks, r \in Replies : Holds(c, r)' => Holds(c, r) /\ addr'[r] = addr[r]
    PROVE  HandedToOwnUser'
<1>1. ASSUME NEW c \in Callbacks, NEW r \in Replies, Holds(c, r)'
      PROVE  EchoKey(addr'[r]) = Origin(From[c])
  BY <1>1 DEF HandedToOwnUser
<1>2. ASSUME NEW c \in Callbacks, NEW d \in Callbacks, NEW r \in Replies, Holds(c, r)', Holds(d, r)'
      PROVE  c = d
  BY <1>2 DEF HandedToOwnUser
<1>3. QED
  BY <1>1, <1>2 DEF HandedToOwnUser

\* Every step keeps the rest of the inductive invariant.
LEMMA TableStep ==
    ASSUME IInv, [Next]_vars
    PROVE  (CallbackState /\ OnlyFiledIsHeld /\ SenderNeverBlocks /\ HandedToOwnUser)'
<1> DEFINE G == CallbackState /\ OnlyFiledIsHeld /\ SenderNeverBlocks /\ HandedToOwnUser
<1> USE ExchangeAssumption DEF IInv, TypeOK
<1>1. ASSUME NEW c \in Callbacks, Report(c) PROVE G'
  <2>1. CallbackState'
    BY <1>1 DEF Report, tableVars, replyVars, CallbackState
  <2>2. OnlyFiledIsHeld'
    BY <1>1 DEF Report, tableVars, replyVars, OnlyFiledIsHeld, Holds, CallbackState
  <2>3. SenderNeverBlocks'
    BY <1>1 DEF Report, tableVars, replyVars, SenderNeverBlocks, CallbackState
  <2>4. HandedToOwnUser'
    <3>1. \A e \in Callbacks, s \in Replies : Holds(e, s)' => Holds(e, s) /\ addr'[s] = addr[s]
      BY <1>1 DEF Report, tableVars, replyVars, Holds
    <3>2. QED
      BY <3>1, HandedFrame
  <2>5. QED
    BY <2>1, <2>2, <2>3, <2>4
<1>2. ASSUME NEW c \in Callbacks, Register(c) PROVE G'
  <2>1. CallbackState'
    BY <1>2, WaitKeyType DEF Register, replyVars, CallbackState
  <2>2. OnlyFiledIsHeld'
    BY <1>2, WaitKeyType DEF Register, replyVars, OnlyFiledIsHeld, Holds, CallbackState
  <2>3. SenderNeverBlocks'
    BY <1>2, WaitKeyType DEF Register, replyVars, SenderNeverBlocks, CallbackState
  <2>4. HandedToOwnUser'
    <3>1. \A e \in Callbacks, s \in Replies : Holds(e, s)' => Holds(e, s) /\ addr'[s] = addr[s]
      BY <1>2, WaitKeyType DEF Register, replyVars, Holds
    <3>2. QED
      BY <3>1, HandedFrame
  <2>5. QED
    BY <2>1, <2>2, <2>3, <2>4
<1>3. ASSUME NEW c \in Callbacks, Receive(c) PROVE G'
  <2>1. CallbackState'
    BY <1>3 DEF Receive, tableVars, replyVars, CallbackState
  <2>2. OnlyFiledIsHeld'
    BY <1>3 DEF Receive, tableVars, replyVars, OnlyFiledIsHeld, Holds, CallbackState
  <2>3. SenderNeverBlocks'
    BY <1>3 DEF Receive, tableVars, replyVars, SenderNeverBlocks, CallbackState
  <2>4. HandedToOwnUser'
    <3>1. \A e \in Callbacks, s \in Replies : Holds(e, s)' => Holds(e, s) /\ addr'[s] = addr[s]
      BY <1>3 DEF Receive, tableVars, replyVars, Holds, CallbackState
    <3>2. QED
      BY <3>1, HandedFrame
  <2>5. QED
    BY <2>1, <2>2, <2>3, <2>4
<1>4. ASSUME NEW c \in Callbacks, TimerFires(c) PROVE G'
  <2>1. CallbackState'
    BY <1>4 DEF TimerFires, tableVars, replyVars, CallbackState
  <2>2. OnlyFiledIsHeld'
    BY <1>4 DEF TimerFires, tableVars, replyVars, OnlyFiledIsHeld, Holds, CallbackState
  <2>3. SenderNeverBlocks'
    BY <1>4 DEF TimerFires, tableVars, replyVars, SenderNeverBlocks, CallbackState
  <2>4. HandedToOwnUser'
    <3>1. \A e \in Callbacks, s \in Replies : Holds(e, s)' => Holds(e, s) /\ addr'[s] = addr[s]
      BY <1>4 DEF TimerFires, tableVars, replyVars, Holds
    <3>2. QED
      BY <3>1, HandedFrame
  <2>5. QED
    BY <2>1, <2>2, <2>3, <2>4
<1>5. ASSUME NEW c \in Callbacks, Expire(c) PROVE G'
  <2>1. CallbackState'
    BY <1>5, WaitKeyType DEF Expire, replyVars, CallbackState
  <2>2. OnlyFiledIsHeld'
    BY <1>5, WaitKeyType DEF Expire, replyVars, OnlyFiledIsHeld, Holds, CallbackState
  <2>3. SenderNeverBlocks'
    BY <1>5, WaitKeyType DEF Expire, replyVars, SenderNeverBlocks, CallbackState
  <2>4. HandedToOwnUser'
    <3>1. \A e \in Callbacks, s \in Replies : Holds(e, s)' => Holds(e, s) /\ addr'[s] = addr[s]
      BY <1>5, WaitKeyType DEF Expire, replyVars, Holds
    <3>2. QED
      BY <3>1, HandedFrame
  <2>5. QED
    BY <2>1, <2>2, <2>3, <2>4
<1>6. ASSUME NEW c \in Callbacks, UploadFails(c) PROVE G'
  <2>1. CallbackState'
    BY <1>6 DEF UploadFails, tableVars, replyVars, CallbackState
  <2>2. OnlyFiledIsHeld'
    BY <1>6 DEF UploadFails, tableVars, replyVars, OnlyFiledIsHeld, Holds, CallbackState
  <2>3. SenderNeverBlocks'
    BY <1>6 DEF UploadFails, tableVars, replyVars, SenderNeverBlocks, CallbackState
  <2>4. HandedToOwnUser'
    <3>1. \A e \in Callbacks, s \in Replies : Holds(e, s)' => Holds(e, s) /\ addr'[s] = addr[s]
      BY <1>6 DEF UploadFails, tableVars, replyVars, Holds
    <3>2. QED
      BY <3>1, HandedFrame
  <2>5. QED
    BY <2>1, <2>2, <2>3, <2>4
<1>7. ASSUME NEW c \in Callbacks, AnswerMedia(c) PROVE G'
  <2>1. CallbackState'
    BY <1>7 DEF AnswerMedia, tableVars, replyVars, CallbackState
  <2>2. OnlyFiledIsHeld'
    BY <1>7 DEF AnswerMedia, tableVars, replyVars, OnlyFiledIsHeld, Holds, CallbackState
  <2>3. SenderNeverBlocks'
    BY <1>7 DEF AnswerMedia, tableVars, replyVars, SenderNeverBlocks, CallbackState
  <2>4. HandedToOwnUser'
    <3>1. \A e \in Callbacks, s \in Replies : Holds(e, s)' => Holds(e, s) /\ addr'[s] = addr[s]
      BY <1>7 DEF AnswerMedia, tableVars, replyVars, Holds
    <3>2. QED
      BY <3>1, HandedFrame
  <2>5. QED
    BY <2>1, <2>2, <2>3, <2>4
<1>8. ASSUME NEW c \in Callbacks, AnswerText(c) PROVE G'
  <2>1. CallbackState'
    BY <1>8 DEF AnswerText, tableVars, replyVars, CallbackState
  <2>2. OnlyFiledIsHeld'
    BY <1>8 DEF AnswerText, tableVars, replyVars, OnlyFiledIsHeld, Holds, CallbackState
  <2>3. SenderNeverBlocks'
    BY <1>8 DEF AnswerText, tableVars, replyVars, SenderNeverBlocks, CallbackState
  <2>4. HandedToOwnUser'
    <3>1. \A e \in Callbacks, s \in Replies : Holds(e, s)' => Holds(e, s) /\ addr'[s] = addr[s]
      BY <1>8 DEF AnswerText, tableVars, replyVars, Holds
    <3>2. QED
      BY <3>1, HandedFrame
  <2>5. QED
    BY <2>1, <2>2, <2>3, <2>4
<1>9. ASSUME NEW r \in Replies, AppSend(r) PROVE G'
  <2>1. CallbackState'
    BY <1>9 DEF AppSend, handlerVars, tableVars, CallbackState
  <2>2. OnlyFiledIsHeld'
    BY <1>9 DEF AppSend, handlerVars, tableVars, OnlyFiledIsHeld, Holds, CallbackState
  <2>3. SenderNeverBlocks'
    BY <1>9 DEF AppSend, handlerVars, tableVars, SenderNeverBlocks, CallbackState
  <2>4. HandedToOwnUser'
    <3>1. \A e \in Callbacks, s \in Replies : Holds(e, s)' => Holds(e, s) /\ addr'[s] = addr[s]
      BY <1>9 DEF AppSend, handlerVars, tableVars, Holds, OnlyFiledIsHeld
    <3>2. QED
      BY <3>1, HandedFrame
  <2>5. QED
    BY <2>1, <2>2, <2>3, <2>4
<1>10. ASSUME NEW r \in Replies, RecvLock(r) PROVE G'
  <2>1. CallbackState'
    BY <1>10 DEF RecvLock, handlerVars, replyVars, CallbackState
  <2>2. OnlyFiledIsHeld'
    BY <1>10 DEF RecvLock, handlerVars, replyVars, OnlyFiledIsHeld, Holds, CallbackState
  <2>3. SenderNeverBlocks'
    BY <1>10 DEF RecvLock, handlerVars, replyVars, SenderNeverBlocks, CallbackState
  <2>4. HandedToOwnUser'
    <3>1. \A e \in Callbacks, s \in Replies : Holds(e, s)' => Holds(e, s) /\ addr'[s] = addr[s]
      BY <1>10 DEF RecvLock, handlerVars, replyVars, Holds
    <3>2. QED
      BY <3>1, HandedFrame
  <2>5. QED
    BY <2>1, <2>2, <2>3, <2>4
<1>11. ASSUME NEW r \in Replies, RecvHand(r) PROVE G'
  <2> DEFINE k == EchoKey(addr[r])  d == waiter[k]
  <2>0. /\ k \in Keys /\ d \in Callbacks /\ frame[r] = "received"
        /\ chan[d] = <<>> /\ got[d] = None /\ Origin(From[d]) = k
        /\ pc[d] \in {"waiting", "expired"}
    BY <1>11, EchoKeyType DEF RecvHand, OnlyFiledIsHeld, CallbackState, SenderNeverBlocks
  <2>00. /\ chan' = [chan EXCEPT ![d] = <<r>>] /\ waiter' = [waiter EXCEPT ![k] = None]
         /\ mutex' = None /\ frame' = [frame EXCEPT ![r] = "filed"]
         /\ UNCHANGED <<pc, got, answer, addr, pending>>
    BY <1>11 DEF RecvHand
  <2> HIDE DEF k, d
  <2>1. CallbackState'
    BY <1>11, <2>0, <2>00 DEF CallbackState
  <2>2. OnlyFiledIsHeld'
    BY <1>11, <2>0, <2>00 DEF OnlyFiledIsHeld, Holds, CallbackState
  <2>3. SenderNeverBlocks'
    BY <1>11, <2>0, <2>00 DEF SenderNeverBlocks, CallbackState
  <2>4. HandedToOwnUser'
    <3>1. \A e \in Callbacks, s \in Replies : Holds(e, s)' => Holds(e, s) \/ (e = d /\ s = r)
      BY <2>0, <2>00 DEF Holds
    <3>2. \A e \in Callbacks : ~ Holds(e, r)
      BY <2>0 DEF OnlyFiledIsHeld
    <3>3. EchoKey(addr[r]) = Origin(From[d])
      BY <2>0 DEF k
    <3>4. ASSUME NEW e \in Callbacks, NEW s \in Replies, Holds(e, s)'
          PROVE  EchoKey(addr'[s]) = Origin(From[e])
      BY <2>00, <3>1, <3>3, <3>4 DEF HandedToOwnUser
    <3>5. ASSUME NEW e \in Callbacks, NEW f \in Callbacks, NEW s \in Replies, Holds(e, s)', Holds(f, s)'
          PROVE  e = f
      <4>1. CASE s = r
        BY <3>1, <3>2, <3>5, <4>1
      <4>2. CASE s # r
        <5>1. Holds(e, s) /\ Holds(f, s)
          BY <3>1, <3>5, <4>2
        <5>2. QED
          BY <5>1 DEF HandedToOwnUser
      <4>3. QED
        BY <4>1, <4>2
    <3>6. QED
      BY <3>4, <3>5 DEF HandedToOwnUser
  <2>5. QED
    BY <2>1, <2>2, <2>3, <2>4
<1>12. ASSUME NEW r \in Replies, RecvStore(r) PROVE G'
  <2>1. CallbackState'
    BY <1>12 DEF RecvStore, handlerVars, CallbackState
  <2>2. OnlyFiledIsHeld'
    BY <1>12 DEF RecvStore, handlerVars, OnlyFiledIsHeld, Holds, CallbackState
  <2>3. SenderNeverBlocks'
    BY <1>12 DEF RecvStore, handlerVars, SenderNeverBlocks, CallbackState
  <2>4. HandedToOwnUser'
    <3>1. \A e \in Callbacks, s \in Replies : Holds(e, s)' => Holds(e, s) /\ addr'[s] = addr[s]
      BY <1>12 DEF RecvStore, handlerVars, Holds
    <3>2. QED
      BY <3>1, HandedFrame
  <2>5. QED
    BY <2>1, <2>2, <2>3, <2>4
<1>13. CASE UNCHANGED vars
  <2>1. UNCHANGED <<pc, chan, got, waiter, mutex, frame, addr>>
    BY <1>13 DEF vars
  <2>2. CallbackState'
    BY <2>1 DEF CallbackState
  <2>3. OnlyFiledIsHeld'
    BY <2>1 DEF OnlyFiledIsHeld, Holds
  <2>4. SenderNeverBlocks'
    BY <2>1 DEF SenderNeverBlocks
  <2>5. HandedToOwnUser'
    BY <2>1 DEF HandedToOwnUser, Holds
  <2>6. QED
    BY <2>2, <2>3, <2>4, <2>5
<1>14. QED
  BY <1>1, <1>2, <1>3, <1>4, <1>5, <1>6, <1>7, <1>8, <1>9, <1>10, <1>11, <1>12, <1>13
     DEF Next, Handler, Recv

\* The initial state satisfies the inductive invariant.
LEMMA InitIInv == Init => IInv
  BY ExchangeAssumption DEF Init, IInv, TypeOK, Unanswered, Steps, Kinds, Keys, Origin, OpenIDs,
     CallbackState, OnlyFiledIsHeld, SenderNeverBlocks, HandedToOwnUser, Holds

\* The inductive invariant holds in every reachable state.
LEMMA IInvInvariant == Spec => []IInv
<1>1. IInv /\ [Next]_vars => IInv'
  BY TypeStep, TableStep DEF IInv
<1>2. QED
  BY InitIInv, <1>1, PTL DEF Spec

\* Types: every reachable state has every variable in its set.
THEOREM TypeCorrect == Spec => []TypeOK
<1>1. IInv => TypeOK
  BY DEF IInv
<1>2. QED
  BY <1>1, IInvInvariant, PTL

\* recvMessage never blocks on a full channel while it holds mapMutex.
THEOREM NeverBlocks == Spec => []SenderNeverBlocks
<1>1. IInv => SenderNeverBlocks
  BY DEF IInv
<1>2. QED
  BY <1>1, IInvInvariant, PTL

-----------------------------------------------------------------------------
(* Histories.  Here a reply counts as u's when recvMessage has filed it     *)
(* and its user_id resolves to u.                                           *)

FiledFor(k, r) == frame[r] = "filed" /\ EchoKey(addr[r]) = k
StoredIsOwn == \A k \in Keys : k.form = "origin" =>
                   \A i \in DOMAIN pending[k] : FiledFor(k, pending[k][i])
ShownIsOwn == \A c \in Callbacks : \A i \in DOMAIN answer[c].history :
                  FiledFor(Origin(From[c]), answer[c].history[i])

\* A filed reply stays filed, and keeps its user_id.
LEMMA FiledStays ==
    ASSUME IInv, [Next]_vars
    PROVE  \A k, r : r \in Replies /\ FiledFor(k, r) => FiledFor(k, r)'
<1> USE DEF FiledFor, IInv, TypeOK, handlerVars, tableVars, replyVars
<1>1. ASSUME NEW c \in Callbacks, Report(c) \/ Handler(c) PROVE UNCHANGED <<frame, addr>>
  BY <1>1 DEF Report, Handler, Register, Receive, TimerFires, Expire, UploadFails, AnswerMedia,
              AnswerText
<1>2. ASSUME NEW q \in Replies, AppSend(q)
      PROVE  \A k, r : r \in Replies /\ FiledFor(k, r) => FiledFor(k, r)'
  <2>1. /\ frame[q] = "unsent"
        /\ \A r \in Replies : r # q => frame'[r] = frame[r] /\ addr'[r] = addr[r]
    BY <1>2 DEF AppSend
  <2>2. QED
    BY <2>1
<1>3. ASSUME NEW q \in Replies, RecvLock(q) PROVE UNCHANGED <<frame, addr>>
  BY <1>3 DEF RecvLock
<1>4. ASSUME NEW q \in Replies, RecvHand(q) \/ RecvStore(q)
      PROVE  frame' = [frame EXCEPT ![q] = "filed"] /\ UNCHANGED addr
  BY <1>4 DEF RecvHand, RecvStore
<1>5. CASE UNCHANGED vars
  BY <1>5 DEF vars
<1>6. QED
  BY <1>1, <1>2, <1>3, <1>4, <1>5 DEF Next, Recv

\* Stored replies and histories stay with their users.
LEMMA HistoryStep ==
    ASSUME IInv, StoredIsOwn, ShownIsOwn, [Next]_vars
    PROVE  StoredIsOwn' /\ ShownIsOwn'
<1>0. \A k, r : r \in Replies /\ FiledFor(k, r) => FiledFor(k, r)'
  BY FiledStays
<1>a. /\ pending \in [Keys -> Seq(Replies)]
      /\ answer \in [Callbacks -> [kind : Kinds, history : Seq(Replies)]]
  BY DEF IInv, TypeOK
<1>b. ASSUME NEW k \in Keys, NEW q \in Replies, pending' = [pending EXCEPT ![k] = Append(@, q)],
             k.form = "origin" => FiledFor(k, q)'
      PROVE  StoredIsOwn'
  <2>1. ASSUME NEW l \in Keys, l.form = "origin", NEW i \in DOMAIN pending'[l]
        PROVE  frame'[pending'[l][i]] = "filed" /\ EchoKey(addr'[pending'[l][i]]) = l
    <3>1. CASE l = k /\ i = Len(pending[k]) + 1
      <4>1. pending'[l][i] = q
        BY <1>a, <1>b, <3>1
      <4>2. QED
        BY <1>b, <2>1, <3>1, <4>1 DEF FiledFor
    <3>2. CASE ~(l = k /\ i = Len(pending[k]) + 1)
      <4>1. i \in DOMAIN pending[l] /\ pending'[l][i] = pending[l][i] /\ pending[l][i] \in Replies
        BY <1>a, <1>b, <2>1, <3>2
      <4>2. FiledFor(l, pending[l][i])
        BY <2>1, <4>1 DEF StoredIsOwn
      <4>3. QED
        BY <1>0, <4>1, <4>2 DEF FiledFor
    <3>3. QED
      BY <3>1, <3>2
  <2>2. QED
    BY <2>1 DEF StoredIsOwn, FiledFor
<1>c. ASSUME pending' = pending PROVE StoredIsOwn'
  BY <1>0, <1>a, <1>c DEF StoredIsOwn, FiledFor
<1>e. ASSUME \A d \in Callbacks : answer'[d].history \in {answer[d].history, <<>>}
      PROVE  ShownIsOwn'
  <2>1. ASSUME NEW d \in Callbacks, NEW i \in DOMAIN answer'[d].history
        PROVE  /\ frame'[answer'[d].history[i]] = "filed"
               /\ EchoKey(addr'[answer'[d].history[i]]) = Origin(From[d])
    <3>1. answer[d].history \in Seq(Replies)
      BY <1>a
    <3>2. answer'[d].history = answer[d].history
      BY <1>e, <2>1
    <3>3. answer[d].history[i] \in Replies /\ FiledFor(Origin(From[d]), answer[d].history[i])
      BY <2>1, <3>1, <3>2 DEF ShownIsOwn
    <3>4. QED
      BY <1>0, <3>2, <3>3 DEF FiledFor
  <2>2. QED
    BY <2>1 DEF ShownIsOwn, FiledFor
<1>d. ASSUME NEW c \in Callbacks, NEW kind \in Kinds, Respond(c, kind, <<>>) PROVE ShownIsOwn'
  <2>1. \A d \in Callbacks : answer'[d].history \in {answer[d].history, <<>>}
    BY <1>a, <1>d DEF Respond
  <2>2. QED
    BY <1>e, <2>1
<1>1. ASSUME NEW c \in Callbacks,
             Report(c) \/ Register(c) \/ Receive(c) \/ TimerFires(c)
      PROVE  StoredIsOwn' /\ ShownIsOwn'
  BY <1>1, <1>c, <1>e DEF Report, Register, Receive, TimerFires
<1>2. ASSUME NEW c \in Callbacks, Expire(c) \/ UploadFails(c)
      PROVE  StoredIsOwn' /\ ShownIsOwn'
  <2>1. pending' = pending
    BY <1>2 DEF Expire, UploadFails
  <2>2. answer' = answer \/ \E kind \in Kinds : Respond(c, kind, <<>>)
    BY <1>2 DEF Expire, UploadFails, Kinds
  <2>3. QED
    BY <1>c, <1>d, <1>e, <2>1, <2>2
<1>3. ASSUME NEW c \in Callbacks, AnswerMedia(c) PROVE StoredIsOwn' /\ ShownIsOwn'
  <2>1. got[c] \in Replies /\ addr[got[c]] \in Keys /\ frame[got[c]] = "filed"
    BY <1>3 DEF AnswerMedia, IInv, TypeOK, CallbackState, OnlyFiledIsHeld, Holds
  <2>2. addr[got[c]].form = "origin" => EchoKey(addr[got[c]]) = addr[got[c]]
    BY <2>1 DEF EchoKey, Keys, Origin, Stray
  <2>3. pending' = pending \/ pending' = [pending EXCEPT ![addr[got[c]]] = Append(@, got[c])]
    BY <1>3 DEF AnswerMedia
  <2>4. addr[got[c]].form = "origin" => FiledFor(addr[got[c]], got[c])
    BY <2>1, <2>2 DEF FiledFor
  <2>5. addr[got[c]].form = "origin" => frame'[got[c]] = "filed" /\ EchoKey(addr'[got[c]]) = addr[got[c]]
    BY <1>0, <2>1, <2>4 DEF FiledFor
  <2>6. StoredIsOwn'
    <3> DEFINE q == got[c]  k == addr[q]
    <3>1. q \in Replies /\ k \in Keys
      BY <2>1
    <3>2. k.form = "origin" => frame'[q] = "filed" /\ EchoKey(addr'[q]) = k
      BY <2>5
    <3>3. pending' = pending \/ pending' = [pending EXCEPT ![k] = Append(@, q)]
      BY <2>3
    <3> HIDE DEF q, k
    <3>4. QED
      BY <1>b, <1>c, <3>1, <3>2, <3>3 DEF FiledFor
  <2>7. \E kind \in Kinds : Respond(c, kind, <<>>)
    BY <1>3 DEF AnswerMedia, Kinds
  <2>8. QED
    BY <1>d, <2>6, <2>7
<1>4. ASSUME NEW c \in Callbacks, AnswerText(c) PROVE StoredIsOwn' /\ ShownIsOwn'
  <2> DEFINE k == Origin(From[c])
             m == pending[k]
             b == BodySize(c)
  <2>1. k \in Keys /\ k.form = "origin"
    BY WaitKeyType DEF Origin
  <2>2. m \in Seq(Replies)
    BY <1>a, <2>1
  <2>3. /\ pending' = [pending EXCEPT ![k] = IF m = <<>> THEN m ELSE Left(m, b)]
        /\ \E kind \in Kinds : answer' = [answer EXCEPT ![c] = [kind |-> kind, history |-> Shown(m, b)]]
    BY <1>4, <1>a, <2>1 DEF AnswerText, Respond, Kinds
  <2>4. \A i \in DOMAIN m : m[i] \in Replies /\ FiledFor(k, m[i])
    BY <2>1, <2>2 DEF StoredIsOwn
  <2> HIDE DEF k, b
  <2>5. \A i \in DOMAIN Left(m, b) : Left(m, b)[i] \in Replies /\ FiledFor(k, Left(m, b)[i])
    BY <2>2, <2>4, LeftComesFromQueue
  <2>6. \A i \in DOMAIN Shown(m, b) : Shown(m, b)[i] \in Replies /\ FiledFor(k, Shown(m, b)[i])
    <3> SUFFICES ASSUME NEW i \in DOMAIN Shown(m, b)
                 PROVE  Shown(m, b)[i] \in Replies /\ FiledFor(k, Shown(m, b)[i])
      OBVIOUS
    <3> DEFINE n == TakenCount(m, b)
    <3>0. /\ n \in 0 .. Len(m) /\ Shown(m, b) \in Seq(Replies) /\ Len(Shown(m, b)) = n
          /\ \A j \in 1 .. n : Shown(m, b)[j] = m[n + 1 - j]
      <4> HIDE DEF m
      <4> QED BY <2>2, ShownIsReverse
    <3>1. /\ n \in 0 .. Len(m) /\ i \in 1 .. n /\ Shown(m, b)[i] = m[n + 1 - i]
      BY <3>0
    <3>2. n + 1 - i \in DOMAIN m
      BY <2>2, <3>1
    <3>3. QED
      BY <2>4, <3>1, <3>2
  <2>7. ASSUME NEW l \in Keys, l.form = "origin", NEW i \in DOMAIN pending'[l]
        PROVE  frame'[pending'[l][i]] = "filed" /\ EchoKey(addr'[pending'[l][i]]) = l
    <3>1. CASE l = k
      <4>1. pending'[l] = m \/ pending'[l] = Left(m, b)
        BY <1>a, <2>3, <3>1
      <4>2. pending'[l][i] \in Replies /\ FiledFor(l, pending'[l][i])
        BY <2>4, <2>5, <2>7, <3>1, <4>1
      <4>3. QED
        BY <1>0, <4>2 DEF FiledFor
    <3>2. CASE l # k
      <4>1. pending'[l] = pending[l] /\ pending[l] \in Seq(Replies)
        BY <1>a, <2>3, <3>2
      <4>2. pending'[l][i] \in Replies /\ FiledFor(l, pending'[l][i])
        BY <2>7, <4>1 DEF StoredIsOwn
      <4>3. QED
        BY <1>0, <4>2 DEF FiledFor
    <3>3. QED
      BY <3>1, <3>2
  <2>8. ASSUME NEW d \in Callbacks, NEW i \in DOMAIN answer'[d].history
        PROVE  /\ frame'[answer'[d].history[i]] = "filed"
               /\ EchoKey(addr'[answer'[d].history[i]]) = Origin(From[d])
    <3>1. CASE d = c
      <4>1. answer'[d].history = Shown(m, b)
        BY <1>a, <2>3, <3>1
      <4>2. answer'[d].history[i] \in Replies /\ FiledFor(Origin(From[d]), answer'[d].history[i])
        BY <2>6, <2>8, <3>1, <4>1 DEF k
      <4>3. QED
        BY <1>0, <4>2 DEF FiledFor
    <3>2. CASE d # c
      <4>1. answer'[d] = answer[d] /\ answer[d].history \in Seq(Replies)
        BY <1>a, <2>3, <3>2
      <4>2. answer'[d].history[i] \in Replies /\ FiledFor(Origin(From[d]), answer'[d].history[i])
        BY <2>8, <4>1 DEF ShownIsOwn
      <4>3. QED
        BY <1>0, <4>2 DEF FiledFor
    <3>3. QED
      BY <3>1, <3>2
  <2>9. QED
    BY <2>7, <2>8 DEF StoredIsOwn, ShownIsOwn, FiledFor
<1>5. ASSUME NEW r \in Replies, AppSend(r) \/ RecvLock(r) \/ RecvHand(r)
      PROVE  StoredIsOwn' /\ ShownIsOwn'
  BY <1>5, <1>c, <1>e DEF AppSend, RecvLock, RecvHand, handlerVars
<1>6. ASSUME NEW r \in Replies, RecvStore(r) PROVE StoredIsOwn' /\ ShownIsOwn'
  <2> DEFINE k == EchoKey(addr[r])
  <2>1. k \in Keys
    BY EchoKeyType DEF IInv, TypeOK
  <2>2. /\ pending' = [pending EXCEPT ![k] = Append(@, r)] /\ answer' = answer
        /\ frame' = [frame EXCEPT ![r] = "filed"] /\ addr' = addr
    BY <1>6 DEF RecvStore, handlerVars
  <2>3. frame'[r] = "filed" /\ EchoKey(addr'[r]) = k
    BY <2>2 DEF IInv, TypeOK
  <2> HIDE DEF k
  <2>4. StoredIsOwn'
    BY <1>b, <2>1, <2>2, <2>3 DEF FiledFor
  <2>5. QED
    BY <1>e, <2>2, <2>4
<1>7. CASE UNCHANGED vars
  BY <1>7, <1>c, <1>e DEF vars
<1>8. QED
  BY <1>1, <1>2, <1>3, <1>4, <1>5, <1>6, <1>7 DEF Next, Handler, Recv

\* What a user gets was addressed to that user: the reply, and the history in
\* front of it.
THEOREM OnlyOwnReplies == Spec => []RepliesAreOwn
<1>1. Init => StoredIsOwn /\ ShownIsOwn
  BY DEF Init, StoredIsOwn, ShownIsOwn, Unanswered
<1>2. IInv /\ IInv' /\ StoredIsOwn /\ ShownIsOwn /\ [Next]_vars => StoredIsOwn' /\ ShownIsOwn'
  BY HistoryStep
<1>3. ShownIsOwn => HistoryIsOwn
  BY DEF ShownIsOwn, HistoryIsOwn, FiledFor
<1>4. IInv => HandedToOwnUser
  BY DEF IInv
<1>5. IInv /\ ShownIsOwn => RepliesAreOwn
  BY <1>3, <1>4 DEF RepliesAreOwn
<1>6. QED
  BY <1>1, <1>2, <1>5, IInvInvariant, PTL DEF Spec

-----------------------------------------------------------------------------
(* The refinement of Rendezvous: what the mapping of a reply's fate means,  *)
(* then one abstract step, or none, for each step.                          *)

FateIs == \A r \in Replies :
    /\ frame[r] = "unsent" => Fate[r] = "unsent"
    /\ frame[r] = "received" => Fate[r] = "open"
    /\ \A c \in Callbacks : Holds(c, r) => Fate[r] = c
    /\ frame[r] = "filed" /\ (\A c \in Callbacks : ~ Holds(c, r)) => Fate[r] = "aside"

\* Only one callback can hold a reply: the choice in Fate is none.
LEMMA FateMeaning == IInv => FateIs
<1> SUFFICES ASSUME IInv, NEW r \in Replies
             PROVE  /\ frame[r] = "unsent" => Fate[r] = "unsent"
                    /\ frame[r] = "received" => Fate[r] = "open"
                    /\ \A c \in Callbacks : Holds(c, r) => Fate[r] = c
                    /\ frame[r] = "filed" /\ (\A c \in Callbacks : ~ Holds(c, r)) => Fate[r] = "aside"
  BY DEF FateIs
<1>1. Fate[r] = CASE frame[r] = "unsent" -> "unsent"
                  [] frame[r] = "received" -> "open"
                  [] OTHER -> IF \E c \in Callbacks : Holds(c, r)
                              THEN CHOOSE c \in Callbacks : Holds(c, r)
                              ELSE "aside"
  BY DEF Fate
<1>2. ASSUME NEW c \in Callbacks, Holds(c, r)
      PROVE  Fate[r] = c
  <2>1. frame[r] = "filed"
    BY <1>2 DEF IInv, OnlyFiledIsHeld
  <2>2. Fate[r] = CHOOSE d \in Callbacks : Holds(d, r)
    BY <1>1, <1>2, <2>1
  <2>3. /\ (CHOOSE d \in Callbacks : Holds(d, r)) \in Callbacks
        /\ Holds(CHOOSE d \in Callbacks : Holds(d, r), r)
    BY <1>2, Zenon
  <2>4. QED
    BY <1>2, <2>2, <2>3 DEF IInv, HandedToOwnUser
<1>3. QED
  BY <1>1, <1>2

\* A step that holds and files every reply as before leaves their fates.
LEMMA SameFate ==
    ASSUME IInv, IInv', FateIs, FateIs', frame' = frame,
           \A c \in Callbacks, r \in Replies : Holds(c, r) <=> Holds(c, r)'
    PROVE  Fate' = Fate
<1>1. ASSUME NEW r \in Replies PROVE Fate'[r] = Fate[r]
  <2>1. frame[r] \in {"unsent", "received", "filed"}
    BY DEF IInv, TypeOK
  <2>2. CASE \E c \in Callbacks : Holds(c, r)
    BY <2>2 DEF FateIs
  <2>3. CASE \A c \in Callbacks : ~ Holds(c, r)
    BY <2>1, <2>3 DEF FateIs
  <2>4. QED
    BY <2>2, <2>3
<1>2. QED
  BY <1>1 DEF Fate

\* A step that only touches one reply's frame leaves the fates of the others.
LEMMA OthersFate ==
    ASSUME IInv, IInv', FateIs, FateIs', NEW q \in Replies,
           \A r \in Replies : r # q => /\ frame'[r] = frame[r]
                                       /\ \A c \in Callbacks : Holds(c, r) <=> Holds(c, r)'
    PROVE  Fate' = [Fate EXCEPT ![q] = Fate'[q]]
<1>1. ASSUME NEW r \in Replies, r # q PROVE Fate'[r] = Fate[r]
  <2>1. frame[r] \in {"unsent", "received", "filed"} /\ frame'[r] = frame[r]
    BY <1>1 DEF IInv, TypeOK
  <2>2. CASE \E c \in Callbacks : Holds(c, r)
    BY <1>1, <2>2 DEF FateIs
  <2>3. CASE \A c \in Callbacks : ~ Holds(c, r)
    BY <1>1, <2>1, <2>3 DEF FateIs
  <2>4. QED
    BY <2>2, <2>3
<1>2. QED
  BY <1>1 DEF Fate

\* Every step is a step of Rendezvous, or changes nothing of it.
LEMMA RefineStep ==
    ASSUME IInv, IInv', FateIs, FateIs', [Next]_vars
    PROVE  [R!Next]_R!rvars
<1> USE DEF handlerVars, tableVars, replyVars
<1>0. /\ pc \in [Callbacks -> Steps] /\ frame \in [Replies -> {"unsent", "received", "filed"}]
      /\ addr \in [Replies -> Keys] /\ chan \in [Callbacks -> Seq(Replies)]
      /\ got \in [Callbacks -> Replies \cup {None}]
  BY DEF IInv, TypeOK
<1>a. ASSUME UNCHANGED <<chan, got, frame, addr>>, Phase' = Phase
      PROVE  UNCHANGED R!rvars
  <2>1. Fate' = Fate
    BY <1>a, SameFate DEF Holds
  <2>2. AddressedTo' = AddressedTo
    BY <1>a DEF AddressedTo
  <2>3. QED
    BY <1>a, <2>1, <2>2 DEF R!rvars
<1>1. ASSUME NEW c \in Callbacks, Report(c) PROVE UNCHANGED R!rvars
  <2>1. Phase' = Phase
    BY <1>0, <1>1 DEF Report, Phase
  <2>2. QED
    BY <1>1, <1>a, <2>1 DEF Report
<1>2. ASSUME NEW c \in Callbacks, Register(c) PROVE R!Enter(c)
  <2>1. Phase[c] = "out" /\ Phase' = [Phase EXCEPT ![c] = "waiting"]
    BY <1>0, <1>2 DEF Register, Phase
  <2>2. UNCHANGED <<chan, got, frame, addr>>
    BY <1>2 DEF Register
  <2>3. Fate' = Fate /\ AddressedTo' = AddressedTo
    BY <2>2, SameFate DEF Holds, AddressedTo
  <2>4. QED
    BY <2>1, <2>2, <2>3 DEF R!Enter
<1>3. ASSUME NEW c \in Callbacks, Receive(c) PROVE \E r \in Replies : R!LeaveWith(c, r)
  <2>1. PICK r \in Replies : chan[c] = <<r>>
    BY <1>3 DEF Receive, IInv, CallbackState
  <2>2. /\ got' = [got EXCEPT ![c] = r] /\ chan' = [chan EXCEPT ![c] = <<>>]
        /\ pc[c] = "waiting" /\ pc' = [pc EXCEPT ![c] = "processing"]
        /\ got[c] = None /\ UNCHANGED <<frame, addr>>
    BY <1>3, <2>1 DEF Receive, IInv, CallbackState
  <2>3. Phase[c] = "waiting" /\ Phase' = [Phase EXCEPT ![c] = "left"]
    BY <1>0, <2>2 DEF Phase
  <2>4. \A d \in Callbacks, q \in Replies : Holds(d, q) <=> Holds(d, q)'
    <3> SUFFICES ASSUME NEW d \in Callbacks, NEW q \in Replies
                 PROVE  Holds(d, q) <=> Holds(d, q)'
      OBVIOUS
    <3>1. CASE d = c
      <4>1. got[d] # q /\ got'[d] = r /\ chan'[d] = <<>>
        BY <1>0, <2>2, <3>1, ExchangeAssumption
      <4>2. (chan[d] = <<q>> <=> r = q) /\ <<>> # <<q>>
        BY <2>1, <3>1
      <4>3. QED
        BY <4>1, <4>2 DEF Holds
    <3>2. CASE d # c
      BY <1>0, <2>2, <3>2 DEF Holds
    <3>3. QED
      BY <3>1, <3>2
  <2>5. Fate' = Fate /\ AddressedTo' = AddressedTo
    BY <2>2, <2>4, SameFate DEF AddressedTo
  <2>6. Fate[r] = c
    BY <2>1 DEF FateIs, Holds
  <2>7. QED
    BY <2>2, <2>3, <2>5, <2>6 DEF R!LeaveWith
<1>4. ASSUME NEW c \in Callbacks, TimerFires(c) PROVE UNCHANGED R!rvars
  <2>1. Phase' = Phase
    BY <1>0, <1>4 DEF TimerFires, Phase
  <2>2. QED
    BY <1>4, <1>a, <2>1 DEF TimerFires
<1>5. ASSUME NEW c \in Callbacks, Expire(c) PROVE R!LeaveWithout(c)
  <2>1. /\ pc[c] = "expired" /\ \E p \in {"texting", "done"} : pc' = [pc EXCEPT ![c] = p]
        /\ UNCHANGED <<chan, got, frame, addr>>
    BY <1>5 DEF Expire
  <2>2. Phase[c] = "waiting" /\ Phase' = [Phase EXCEPT ![c] = "left"]
    BY <1>0, <2>1 DEF Phase
  <2>3. Fate' = Fate /\ AddressedTo' = AddressedTo
    BY <2>1, SameFate DEF Holds, AddressedTo
  <2>4. QED
    BY <2>1, <2>2, <2>3 DEF R!LeaveWithout
<1>6. ASSUME NEW c \in Callbacks, UploadFails(c) \/ AnswerMedia(c) \/ AnswerText(c)
      PROVE  UNCHANGED R!rvars
  <2>1. /\ pc[c] \in {"processing", "texting"} /\ pc' = [pc EXCEPT ![c] = "done"]
        /\ UNCHANGED <<chan, got, frame, addr>>
    BY <1>6 DEF UploadFails, AnswerMedia, AnswerText
  <2>2. Phase' = Phase
    BY <1>0, <2>1 DEF Phase
  <2>3. QED
    BY <1>a, <2>1, <2>2
<1>7. ASSUME NEW r \in Replies, AppSend(r) PROVE \E u \in Users \cup {None} : R!Address(r, u)
  <2>1. PICK a : addr' = [addr EXCEPT ![r] = a]
    BY <1>7 DEF AppSend
  <2>2. /\ frame[r] = "unsent" /\ frame' = [frame EXCEPT ![r] = "received"]
        /\ UNCHANGED <<pc, chan, got>>
    BY <1>7 DEF AppSend
  <2>3. Fate[r] = "unsent" /\ Fate'[r] = "open"
    BY <1>0, <2>2 DEF FateIs
  <2>4. Fate' = [Fate EXCEPT ![r] = "open"]
    BY <1>0, <2>2, <2>3, OthersFate DEF Holds
  <2>5. Phase' = Phase
    BY <2>2 DEF Phase
  <2>6. AddressedTo'[r] \in Users \cup {None}
    BY DEF AddressedTo
  <2>7. AddressedTo' = [AddressedTo EXCEPT ![r] = AddressedTo'[r]]
    BY <1>0, <2>1, <2>2 DEF AddressedTo
  <2>8. QED
    BY <2>2, <2>3, <2>4, <2>5, <2>6, <2>7 DEF R!Address
<1>8. ASSUME NEW r \in Replies, RecvLock(r) PROVE UNCHANGED R!rvars
  <2>1. Phase' = Phase
    BY <1>8 DEF RecvLock, Phase
  <2>2. QED
    BY <1>8, <1>a, <2>1 DEF RecvLock
<1>9. ASSUME NEW r \in Replies, RecvHand(r) PROVE \E c \in Callbacks : R!Match(c, r)
  <2>1. PICK c \in Callbacks : c = waiter[EchoKey(addr[r])]
    BY <1>0, <1>9, EchoKeyType DEF RecvHand, IInv, TypeOK
  <2>2. /\ chan[c] = <<>> /\ chan' = [chan EXCEPT ![c] = <<r>>]
        /\ frame' = [frame EXCEPT ![r] = "filed"] /\ UNCHANGED <<pc, got, addr>>
        /\ mutex = r /\ c # None
    BY <1>9, <2>1 DEF RecvHand
  <2>3. pc[c] \in {"waiting", "expired"} /\ Origin(From[c]) = EchoKey(addr[r]) /\ got[c] = None
    BY <1>0, <2>1, <2>2, EchoKeyType DEF IInv, SenderNeverBlocks, CallbackState
  <2>4. frame[r] = "received" /\ Fate[r] = "open"
    BY <2>2, ExchangeAssumption DEF IInv, OnlyFiledIsHeld, FateIs
  <2>5. Phase' = Phase /\ Phase[c] = "waiting"
    BY <2>2, <2>3 DEF Phase
  <2>6. AddressedTo[r] = From[c]
    BY <2>3, <2>4, ExchangeAssumption DEF AddressedTo, Origin
  <2>7. AddressedTo' = AddressedTo
    BY <1>0, <2>2, <2>4 DEF AddressedTo
  <2>8. \A s \in Replies : Fate[s] # c
    <3>1. SUFFICES ASSUME NEW s \in Replies, Fate[s] = c PROVE FALSE
      OBVIOUS
    <3>2. ~ Holds(c, s)
      BY <2>2, <2>3, ExchangeAssumption DEF Holds
    <3>3. CASE \E d \in Callbacks : Holds(d, s)
      BY <3>1, <3>2, <3>3 DEF FateIs
    <3>4. CASE \A d \in Callbacks : ~ Holds(d, s)
      BY <1>0, <3>1, <3>4, ExchangeAssumption DEF FateIs
    <3>5. QED
      BY <3>3, <3>4
  <2>9. Fate'[r] = c
    BY <1>0, <2>2 DEF FateIs, Holds
  <2>10. Fate' = [Fate EXCEPT ![r] = c]
    <3>1. \A s \in Replies : s # r => /\ frame'[s] = frame[s]
                                      /\ \A d \in Callbacks : Holds(d, s) <=> Holds(d, s)'
      BY <1>0, <2>2 DEF Holds
    <3>2. QED
      BY <2>9, <3>1, OthersFate
  <2>11. QED
    BY <2>2, <2>4, <2>5, <2>6, <2>7, <2>8, <2>10 DEF R!Match
<1>10. ASSUME NEW r \in Replies, RecvStore(r) PROVE R!PutAside(r)
  <2>1. /\ mutex = r /\ frame' = [frame EXCEPT ![r] = "filed"]
        /\ UNCHANGED <<pc, chan, got, addr>>
    BY <1>10 DEF RecvStore
  <2>2. frame[r] = "received" /\ Fate[r] = "open"
    BY <2>1, ExchangeAssumption DEF IInv, OnlyFiledIsHeld, FateIs
  <2>3. \A c \in Callbacks : ~ Holds(c, r)'
    BY <2>1, <2>2 DEF IInv, OnlyFiledIsHeld, Holds
  <2>4. Fate'[r] = "aside"
    BY <1>0, <2>1, <2>3 DEF FateIs
  <2>5. Fate' = [Fate EXCEPT ![r] = "aside"]
    BY <1>0, <2>1, <2>4, OthersFate DEF Holds
  <2>6. Phase' = Phase
    BY <2>1 DEF Phase
  <2>7. AddressedTo' = AddressedTo
    BY <1>0, <2>1, <2>2 DEF AddressedTo
  <2>8. QED
    BY <2>1, <2>2, <2>5, <2>6, <2>7 DEF R!PutAside
<1>11. CASE UNCHANGED vars
  <2>1. Phase' = Phase
    BY <1>11 DEF vars, Phase
  <2>2. QED
    BY <1>11, <1>a, <2>1 DEF vars
<1>12. QED
  BY <1>1, <1>2, <1>3, <1>4, <1>5, <1>6, <1>7, <1>8, <1>9, <1>10, <1>11
     DEF Next, Handler, Recv, R!Next

\* The table of channels, with its races, implements the rendezvous.
THEOREM Implements == Spec => ImplementsRendezvous
<1>1. Init => R!Init
  BY DEF Init, R!Init, Phase, AddressedTo, Fate
<1>2. IInv /\ IInv' /\ FateIs /\ FateIs' /\ [Next]_vars => [R!Next]_R!rvars
  BY RefineStep
<1>3. QED
  BY <1>1, <1>2, FateMeaning, IInvInvariant, PTL DEF Spec, ImplementsRendezvous, R!Spec

-----------------------------------------------------------------------------
(* Stored messages are under keys that a callback fetches from.             *)

\* Who a frame is for is known since it was sent.
Fetchable(k) == k = Stray \/ \E u \in Users : k = Origin(u)
AskedFor == /\ \A r \in Replies : frame[r] # "unsent" => Fetchable(addr[r])
            /\ \A k \in Keys : pending[k] # <<>> => Fetchable(k)

\* In string mode and with group messages, what is filed is filed under the
\* user's own key, or under one nobody was ever told of.
THEOREM StoredIsFetchable ==
    ASSUME StringOb11, GroupMode
    PROVE  Spec => []PendingIsFetchable
<1>1. Init => AskedFor
  BY DEF Init, AskedFor
<1>2. IInv /\ AskedFor /\ [Next]_vars => AskedFor'
  <2> SUFFICES ASSUME IInv, AskedFor, [Next]_vars PROVE AskedFor'
    OBVIOUS
  <2> USE DEF handlerVars, tableVars, replyVars
  <2>0. /\ frame \in [Replies -> {"unsent", "received", "filed"}] /\ addr \in [Replies -> Keys]
        /\ pending \in [Keys -> Seq(Replies)]
    BY DEF IInv, TypeOK
  <2>1. CASE UNCHANGED <<frame, addr, pending>>
    BY <2>1 DEF AskedFor
  <2>2. ASSUME NEW r \in Replies, AppSend(r) PROVE AskedFor'
    <3>1. \A u \in HeardOf : u \in Users /\ ReportedAs(u) = Origin(u)
      BY ExchangeAssumption DEF HeardOf, ReportedAs
    <3>2. PICK a \in {ReportedAs(u) : u \in HeardOf} \cup {Stray} : addr' = [addr EXCEPT ![r] = a]
      BY <2>2 DEF AppSend
    <3>3. Fetchable(a)
      BY <3>1, <3>2 DEF Fetchable
    <3>4. /\ \A q \in Replies : q # r => frame'[q] = frame[q] /\ addr'[q] = addr[q]
          /\ addr'[r] = a /\ pending' = pending
      BY <2>0, <2>2, <3>2 DEF AppSend
    <3> QED BY <3>3, <3>4 DEF AskedFor, Fetchable
  <2>3. ASSUME NEW r \in Replies, RecvHand(r) PROVE AskedFor'
    <3>1. frame[r] = "received"
      BY <2>3, ExchangeAssumption DEF RecvHand, IInv, OnlyFiledIsHeld
    <3> QED BY <2>0, <2>3, <3>1 DEF RecvHand, AskedFor, Fetchable
  <2>4. ASSUME NEW r \in Replies, RecvStore(r) PROVE AskedFor'
    <3>1. frame[r] = "received" /\ EchoKey(addr[r]) = addr[r]
      BY <2>4, ExchangeAssumption DEF RecvStore, IInv, OnlyFiledIsHeld, EchoKey
    <3>2. /\ pending' = [pending EXCEPT ![addr[r]] = Append(@, r)] /\ addr' = addr
          /\ \A q \in Replies : q # r => frame'[q] = frame[q]
      BY <2>0, <2>4, <3>1 DEF RecvStore
    <3>3. Fetchable(addr[r])
      BY <3>1 DEF AskedFor
    <3>4. \A k \in Keys : k # addr[r] => pending'[k] = pending[k]
      BY <2>0, <3>2
    <3> QED BY <2>0, <3>1, <3>2, <3>3, <3>4 DEF AskedFor, Fetchable
  <2>5. ASSUME NEW c \in Callbacks, AnswerMedia(c) PROVE AskedFor'
    <3>1. got[c] \in Replies /\ frame[got[c]] = "filed"
      BY <2>5 DEF AnswerMedia, IInv, CallbackState, OnlyFiledIsHeld, Holds
    <3>2. /\ frame' = frame /\ addr' = addr
          /\ \A k \in Keys : k # addr[got[c]] => pending'[k] = pending[k]
      BY <2>0, <2>5 DEF AnswerMedia
    <3>3. Fetchable(addr[got[c]])
      BY <3>1 DEF AskedFor
    <3> QED BY <3>2, <3>3 DEF AskedFor, Fetchable
  <2>6. ASSUME NEW c \in Callbacks, AnswerText(c) PROVE AskedFor'
    <3>1. /\ frame' = frame /\ addr' = addr
          /\ \A k \in Keys : k # Origin(From[c]) => pending'[k] = pending[k]
      BY <2>0, <2>6 DEF AnswerText
    <3>2. Fetchable(Origin(From[c]))
      BY ExchangeAssumption DEF Fetchable
    <3> QED BY <3>1, <3>2 DEF AskedFor, Fetchable
  <2> QED
    BY <2>1, <2>2, <2>3, <2>4, <2>5, <2>6
    DEF Next, Handler, Recv, Report, Register, Receive, TimerFires, Expire, UploadFails, RecvLock, vars
<1>3. AskedFor => PendingIsFetchable
  BY DEF AskedFor, Fetchable, PendingIsFetchable
<1> QED BY <1>1, <1>2, <1>3, IInvInvariant, PTL DEF Spec

-----------------------------------------------------------------------------
(* A reply is in one place.                                                 *)

\* No history overflows: a callback about to answer fits all that is queued for
\* its user, its own text, the default one's included, taken into account.
HistoriesFit ==
    \A c \in Callbacks : pc[c] \in {"texting", "processing"} =>
        Overflows(pending[Origin(From[c])], BodySize(c)) = {}

\* Until a callback ends it has answered nothing.
UntilDone == \A c \in Callbacks : pc[c] # "done" => answer[c] = Unanswered

\* p is a place of reply r.
IsAt(p, r) ==
    \/ \E c \in Callbacks : Holds(c, r) /\ p = <<"held", c, 0>>
    \/ \E k \in Keys : \E i \in DOMAIN pending[k] :
          pending[k][i] = r /\ p = <<"stored", k, i>>
    \/ \E c \in Callbacks : \E i \in DOMAIN answer[c].history :
          answer[c].history[i] = r /\ p = <<"shown", c, i>>

\* A reply that is not filed is nowhere, one that is filed in one place or two.
OnePlace(r) ==
    /\ frame[r] # "filed" => \A p : ~IsAt(p, r)
    /\ frame[r] = "filed" =>
          \E p : /\ IsAt(p, r)
                 /\ ~Doubled(r) => \A q : IsAt(q, r) => q = p
                 /\ Doubled(r) => \E o : /\ o # p /\ IsAt(o, r)
                                         /\ \A q : IsAt(q, r) => q \in {o, p}

\* The places of a reply are where it is.
LEMMA PlacesAre == \A r \in Replies : \A p : p \in Places(r) <=> IsAt(p, r)
<1> SUFFICES ASSUME NEW r \in Replies, NEW p PROVE p \in Places(r) <=> IsAt(p, r)
  OBVIOUS
<1>1. p \in {<<"held", c, 0>> : c \in {d \in Callbacks : Holds(d, r)}}
         <=> \E c \in Callbacks : Holds(c, r) /\ p = <<"held", c, 0>>
  OBVIOUS
<1>2. p \in {<<"stored", q[1], q[2]>> : q \in {q \in UNION {{k} \X DOMAIN pending[k] : k \in Keys} :
                                                  pending[q[1]][q[2]] = r}}
         <=> \E k \in Keys : \E i \in DOMAIN pending[k] :
                pending[k][i] = r /\ p = <<"stored", k, i>>
  <2> DEFINE all == UNION {{k} \X DOMAIN pending[k] : k \in Keys}
  <2>1. ASSUME NEW k \in Keys, NEW i \in DOMAIN pending[k] PROVE <<k, i>> \in all
    OBVIOUS
  <2>2. ASSUME NEW q \in all PROVE \E k \in Keys : \E i \in DOMAIN pending[k] : q = <<k, i>>
    OBVIOUS
  <2> HIDE DEF all
  <2>3. \A k, i : <<k, i>>[1] = k /\ <<k, i>>[2] = i
    OBVIOUS
  <2>4. ASSUME NEW q \in all, pending[q[1]][q[2]] = r, p = <<"stored", q[1], q[2]>>
        PROVE  \E k \in Keys : \E i \in DOMAIN pending[k] :
                  pending[k][i] = r /\ p = <<"stored", k, i>>
    BY <2>2, <2>3, <2>4
  <2>5. ASSUME NEW k \in Keys, NEW i \in DOMAIN pending[k], pending[k][i] = r, p = <<"stored", k, i>>
        PROVE  \E q \in all : pending[q[1]][q[2]] = r /\ p = <<"stored", q[1], q[2]>>
    BY <2>1, <2>3, <2>5
  <2> QED BY <2>4, <2>5 DEF all
<1>3. p \in {<<"shown", q[1], q[2]>> : q \in {q \in UNION {{c} \X DOMAIN answer[c].history :
                                                              c \in Callbacks} :
                                                answer[q[1]].history[q[2]] = r}}
         <=> \E c \in Callbacks : \E i \in DOMAIN answer[c].history :
                answer[c].history[i] = r /\ p = <<"shown", c, i>>
  <2> DEFINE all == UNION {{c} \X DOMAIN answer[c].history : c \in Callbacks}
  <2>1. ASSUME NEW c \in Callbacks, NEW i \in DOMAIN answer[c].history PROVE <<c, i>> \in all
    OBVIOUS
  <2>2. ASSUME NEW q \in all
        PROVE  \E c \in Callbacks : \E i \in DOMAIN answer[c].history : q = <<c, i>>
    OBVIOUS
  <2> HIDE DEF all
  <2>3. \A k, i : <<k, i>>[1] = k /\ <<k, i>>[2] = i
    OBVIOUS
  <2>4. ASSUME NEW q \in all, answer[q[1]].history[q[2]] = r, p = <<"shown", q[1], q[2]>>
        PROVE  \E c \in Callbacks : \E i \in DOMAIN answer[c].history :
                  answer[c].history[i] = r /\ p = <<"shown", c, i>>
    BY <2>2, <2>3, <2>4
  <2>5. ASSUME NEW c \in Callbacks, NEW i \in DOMAIN answer[c].history,
               answer[c].history[i] = r, p = <<"shown", c, i>>
        PROVE  \E q \in all : answer[q[1]].history[q[2]] = r /\ p = <<"shown", q[1], q[2]>>
    BY <2>1, <2>3, <2>5
  <2> QED BY <2>4, <2>5 DEF all
<1> QED BY <1>1, <1>2, <1>3 DEF Places, IsAt

\* So one place, or two, are as many as ExactlyOnePlace counts.
LEMMA OnePlaceCounts == (\A r \in Replies : OnePlace(r)) => ExactlyOnePlace
<1> SUFFICES ASSUME \A r \in Replies : OnePlace(r), NEW r \in Replies
             PROVE  Cardinality(Places(r)) = CASE frame[r] # "filed" -> 0
                                               [] frame[r] = "filed" /\ Doubled(r) -> 2
                                               [] OTHER -> 1
  BY DEF ExactlyOnePlace
<1>1. CASE frame[r] # "filed"
  <2>1. Places(r) = {}
    BY <1>1, PlacesAre DEF OnePlace
  <2> QED BY <1>1, <2>1, FS_EmptySet
<1>2. CASE frame[r] = "filed" /\ ~Doubled(r)
  <2>1. PICK p : Places(r) = {p}
    BY <1>2, PlacesAre DEF OnePlace
  <2>2. Cardinality({p}) = 1
    BY FS_Singleton
  <2> QED BY <1>2, <2>1, <2>2
<1>3. CASE frame[r] = "filed" /\ Doubled(r)
  <2>1. PICK o, p : o # p /\ Places(r) = {o, p}
    <3>1. PICK p : /\ IsAt(p, r)
                   /\ \E o : o # p /\ IsAt(o, r) /\ \A q : IsAt(q, r) => q \in {o, p}
      BY <1>3 DEF OnePlace
    <3>2. PICK o : o # p /\ IsAt(o, r) /\ \A q : IsAt(q, r) => q \in {o, p}
      BY <3>1
    <3>3. Places(r) = {o, p}
      BY <3>1, <3>2, PlacesAre
    <3> QED BY <3>2, <3>3
  <2>2. IsFiniteSet({p}) /\ Cardinality({p}) = 1
    BY FS_Singleton
  <2>3. {o, p} = {p} \cup {o} /\ o \notin {p}
    BY <2>1
  <2>4. Cardinality({p} \cup {o}) = 1 + 1
    BY <2>2, <2>3, FS_AddElement, Zenon
  <2>5. Cardinality({o, p}) = 2
    BY <2>3, <2>4
  <2> QED BY <1>3, <2>1, <2>5
<1> QED BY <1>1, <1>2, <1>3

\* A step after which a reply is where it was.
LEMMA StaysThere ==
    ASSUME NEW r \in Replies, OnePlace(r), frame'[r] = "filed" <=> frame[r] = "filed",
           \A p : IsAt(p, r)' <=> IsAt(p, r), Doubled(r)' <=> Doubled(r)
    PROVE  OnePlace(r)'
BY DEF OnePlace


\* A step that moves no reply and stores or shows none.
LEMMA NothingMoves ==
    ASSUME NEW r \in Replies, OnePlace(r), frame'[r] = "filed" <=> frame[r] = "filed",
           pending' = pending, \A c \in Callbacks : Holds(c, r)' <=> Holds(c, r),
           \A c \in Callbacks : answer'[c].history = answer[c].history,
           Doubled(r)' <=> Doubled(r)
    PROVE  OnePlace(r)'
<1>1. \A p : IsAt(p, r)' <=> IsAt(p, r)
  BY DEF IsAt
<1> QED BY <1>1, StaysThere

\* Callbacks register, expire and end without an answer; frames come in.
LEMMA PlacesStay ==
    ASSUME IInv, UntilDone, NEW r \in Replies, OnePlace(r),
           \/ \E c \in Callbacks : \/ Report(c) \/ Register(c) \/ Receive(c) \/ TimerFires(c)
                                   \/ Expire(c) \/ UploadFails(c)
           \/ \E q \in Replies : AppSend(q) \/ RecvLock(q)
           \/ UNCHANGED vars
    PROVE  OnePlace(r)'
<1> USE DEF handlerVars, tableVars, replyVars
<1>0. /\ pc \in [Callbacks -> Steps] /\ frame \in [Replies -> {"unsent", "received", "filed"}]
      /\ chan \in [Callbacks -> Seq(Replies)] /\ got \in [Callbacks -> Replies \cup {None}]
      /\ DOMAIN answer = Callbacks
  BY DEF IInv, TypeOK
<1>1. CASE UNCHANGED <<frame, got, chan, answer, pending>>
  BY <1>1, NothingMoves DEF Holds, Doubled
<1>2. ASSUME NEW q \in Replies, AppSend(q) PROVE OnePlace(r)'
  <2>1. /\ UNCHANGED <<got, chan, answer, pending>> /\ frame'[r] = "filed" <=> frame[r] = "filed"
    BY <1>0, <1>2 DEF AppSend
  <2> QED BY <1>0, <1>2, <2>1, NothingMoves DEF AppSend, Holds, Doubled
<1>3. ASSUME NEW c \in Callbacks, Receive(c) PROVE OnePlace(r)'
  <2>1. PICK q \in Replies : chan[c] = <<q>>
    BY <1>3 DEF Receive, IInv, CallbackState
  <2>2. /\ got' = [got EXCEPT ![c] = q] /\ chan' = [chan EXCEPT ![c] = <<>>] /\ got[c] = None
        /\ answer[c].kind = "none" /\ UNCHANGED <<answer, pending, frame>>
    BY <1>3, <2>1 DEF Receive, IInv, CallbackState, UntilDone, Unanswered
  <2>3. \A d \in Callbacks : Holds(d, r)' <=> Holds(d, r)
    <3> SUFFICES ASSUME NEW d \in Callbacks PROVE Holds(d, r)' <=> Holds(d, r)
      OBVIOUS
    <3>1. CASE d = c
      <4>1. got[d] # r /\ got'[d] = q /\ chan'[d] = <<>>
        BY <1>0, <2>2, <3>1, ExchangeAssumption
      <4>2. (chan[d] = <<r>> <=> q = r) /\ <<>> # <<r>>
        BY <2>1, <3>1
      <4> QED BY <4>1, <4>2 DEF Holds
    <3>2. CASE d # c
      BY <1>0, <2>2, <3>2 DEF Holds
    <3> QED BY <3>1, <3>2
  <2>4. Doubled(r)' <=> Doubled(r)
    BY <1>0, <2>2 DEF Doubled
  <2> QED BY <2>2, <2>3, <2>4, NothingMoves
<1>4. ASSUME NEW c \in Callbacks, Expire(c) \/ UploadFails(c) PROVE OnePlace(r)'
  <2>1. /\ UNCHANGED <<frame, got, chan, pending>> /\ answer[c] = Unanswered
        /\ answer' = answer \/ \E k \in {"silent", "error"} : Respond(c, k, <<>>)
    BY <1>4 DEF Expire, UploadFails, UntilDone
  <2>2. /\ \A d \in Callbacks : d # c => answer'[d] = answer[d]
        /\ answer'[c].history = <<>> /\ answer'[c].kind # "media"
    BY <1>0, <2>1 DEF Respond, Unanswered
  <2>3. answer[c].history = <<>> /\ answer[c].kind # "media"
    BY <2>1 DEF Unanswered
  <2>4. Doubled(r)' <=> Doubled(r)
    BY <2>1, <2>2, <2>3 DEF Doubled
  <2> QED BY <2>1, <2>2, <2>3, <2>4, NothingMoves DEF Holds
<1> QED
  BY <1>1, <1>2, <1>3, <1>4 DEF Report, Register, TimerFires, RecvLock, vars

\* Where replies are stored when one more is appended.
LEMMA StoredLast ==
    ASSUME pending \in [Keys -> Seq(Replies)], NEW k \in Keys, NEW q \in Replies, NEW r \in Replies,
           pending' = [pending EXCEPT ![k] = Append(pending[k], q)], NEW p
    PROVE  (\E l \in Keys : \E i \in DOMAIN pending'[l] :
               pending'[l][i] = r /\ p = <<"stored", l, i>>)
           <=> \/ \E l \in Keys : \E i \in DOMAIN pending[l] :
                     pending[l][i] = r /\ p = <<"stored", l, i>>
               \/ r = q /\ p = <<"stored", k, Len(pending[k]) + 1>>
<1> DEFINE m == pending[k]
           n == Len(m) + 1
<1>1. m \in Seq(Replies) /\ pending'[k] = Append(m, q) /\ \A l \in Keys \ {k} : pending'[l] = pending[l]
  OBVIOUS
<1>2. /\ DOMAIN pending'[k] = DOMAIN m \cup {n} /\ n \notin DOMAIN m
      /\ pending'[k][n] = q /\ \A i \in DOMAIN m : pending'[k][i] = m[i]
  BY <1>1
<1>3. ASSUME NEW l \in Keys, NEW i \in DOMAIN pending'[l], pending'[l][i] = r, p = <<"stored", l, i>>
      PROVE  \/ \E j \in Keys : \E o \in DOMAIN pending[j] :
                   pending[j][o] = r /\ p = <<"stored", j, o>>
             \/ r = q /\ p = <<"stored", k, n>>
  <2>1. CASE l = k /\ i = n
    BY <1>2, <1>3, <2>1
  <2>2. CASE l = k /\ i # n
    BY <1>2, <1>3, <2>2
  <2>3. CASE l # k
    BY <1>1, <1>3, <2>3
  <2> QED BY <2>1, <2>2, <2>3
<1>4. ASSUME NEW l \in Keys, NEW i \in DOMAIN pending[l], pending[l][i] = r, p = <<"stored", l, i>>
      PROVE  \E j \in Keys : \E o \in DOMAIN pending'[j] : pending'[j][o] = r /\ p = <<"stored", j, o>>
  <2>1. i \in DOMAIN pending'[l] /\ pending'[l][i] = r
    BY <1>1, <1>2, <1>4
  <2> QED BY <1>4, <2>1
<1>5. ASSUME r = q, p = <<"stored", k, n>>
      PROVE  \E j \in Keys : \E o \in DOMAIN pending'[j] : pending'[j][o] = r /\ p = <<"stored", j, o>>
  BY <1>2, <1>5
<1> QED BY <1>3, <1>4, <1>5

\* recvMessage files a reply in one place, and the others stay.
LEMMA FiledOnce ==
    ASSUME IInv, UntilDone, NEW r \in Replies, OnePlace(r), NEW q \in Replies,
           RecvHand(q) \/ RecvStore(q)
    PROVE  OnePlace(r)'
<1> USE DEF handlerVars, tableVars, replyVars
<1>0. /\ frame \in [Replies -> {"unsent", "received", "filed"}]
      /\ chan \in [Callbacks -> Seq(Replies)] /\ addr \in [Replies -> Keys]
      /\ pending \in [Keys -> Seq(Replies)] /\ waiter \in [Keys -> Callbacks \cup {None}]
  BY DEF IInv, TypeOK
<1>1. /\ frame[q] = "received" /\ frame' = [frame EXCEPT ![q] = "filed"]
      /\ UNCHANGED <<got, answer>> /\ EchoKey(addr[q]) \in Keys
  BY <1>0, EchoKeyType, ExchangeAssumption DEF RecvHand, RecvStore, IInv, OnlyFiledIsHeld
<1>2. (r # q => frame'[r] = frame[r]) /\ frame'[q] = "filed" /\ (Doubled(r)' <=> Doubled(r))
  BY <1>0, <1>1 DEF Doubled
<1>3. /\ \A p : ~IsAt(p, q) \/ r # q
      /\ ~Doubled(q)
  BY <1>1 DEF OnePlace, Doubled, IInv, OnlyFiledIsHeld, Holds
<1>4. CASE RecvHand(q)
  <2> DEFINE c == waiter[EchoKey(addr[q])]
  <2>1. /\ c \in Callbacks /\ chan[c] = <<>> /\ chan' = [chan EXCEPT ![c] = <<q>>]
        /\ pending' = pending
    BY <1>0, <1>1, <1>4 DEF RecvHand
  <2>2. \A d \in Callbacks : Holds(d, r)' <=> Holds(d, r) \/ (d = c /\ r = q)
    <3> SUFFICES ASSUME NEW d \in Callbacks
                 PROVE  Holds(d, r)' <=> Holds(d, r) \/ (d = c /\ r = q)
      OBVIOUS
    <3>1. CASE d = c
      <4>1. chan'[d] = <<q>> /\ chan[d] = <<>>
        BY <1>0, <2>1, <3>1
      <4>2. (<<q>> = <<r>> <=> q = r) /\ <<>> # <<r>>
        OBVIOUS
      <4> QED BY <1>1, <3>1, <4>1, <4>2 DEF Holds
    <3>2. CASE d # c
      BY <1>0, <1>1, <2>1, <3>2 DEF Holds
    <3> QED BY <3>1, <3>2
  <2> HIDE DEF c
  <2>3. CASE r # q
    <3>1. \A d \in Callbacks : Holds(d, r)' <=> Holds(d, r)
      BY <2>2, <2>3
    <3> QED BY <1>1, <1>2, <2>1, <2>3, <3>1, NothingMoves
  <2>4. CASE r = q
    <3>1. \A p : IsAt(p, r)' <=> IsAt(p, r) \/ p = <<"held", c, 0>>
      BY <1>1, <2>1, <2>2, <2>4 DEF IsAt
    <3> QED BY <1>2, <1>3, <2>4, <3>1 DEF OnePlace
  <2> QED BY <2>3, <2>4
<1>5. CASE RecvStore(q)
  <2> DEFINE k == EchoKey(addr[q])
             n == Len(pending[k]) + 1
  <2>1. /\ k \in Keys /\ pending[k] \in Seq(Replies)
        /\ pending' = [pending EXCEPT ![k] = Append(pending[k], q)] /\ chan' = chan
    BY <1>0, <1>1, <1>5 DEF RecvStore
  <2> HIDE DEF k
  <2>2. \A p : IsAt(p, r)' <=> IsAt(p, r) \/ (r = q /\ p = <<"stored", k, n>>)
    BY <1>0, <1>1, <2>1, StoredLast DEF IsAt, Holds
  <2>3. CASE r # q
    BY <1>2, <2>2, <2>3, StaysThere
  <2>4. CASE r = q
    BY <1>2, <1>3, <2>2, <2>4 DEF OnePlace
  <2> QED BY <2>3, <2>4
<1> QED BY <1>4, <1>5

\* An image that is sent leaves its text in the store; voices leave nothing.
LEMMA MediaDoubles ==
    ASSUME IInv, UntilDone, NEW r \in Replies, OnePlace(r), NEW c \in Callbacks, AnswerMedia(c)
    PROVE  OnePlace(r)'
<1> DEFINE q == got[c]
<1>0. /\ pending \in [Keys -> Seq(Replies)] /\ DOMAIN answer = Callbacks
      /\ addr \in [Replies -> Keys]
  BY DEF IInv, TypeOK
<1>1. /\ UNCHANGED <<frame, got, chan>> /\ q \in Replies /\ frame[q] = "filed" /\ addr[q] \in Keys
      /\ answer[c] = Unanswered
  BY <1>0 DEF AnswerMedia, replyVars, IInv, CallbackState, OnlyFiledIsHeld, Holds, UntilDone
<1>2. /\ \A d \in Callbacks : d # c => answer'[d] = answer[d]
      /\ answer'[c].history = <<>> /\ answer'[c].kind = "media"
  BY <1>0 DEF AnswerMedia, Respond
<1>3. /\ answer[c].history = <<>> /\ answer[c].kind # "media"
      /\ \A d \in Callbacks : answer'[d].history = answer[d].history
  BY <1>1, <1>2 DEF Unanswered
<1>4. \A d \in Callbacks : got[d] = q => d = c
  BY <1>1 DEF IInv, HandedToOwnUser, Holds
<1>5. Doubled(r)' <=> Doubled(r) \/ (r = q /\ Shape[q] = "mixed")
  <2>1. Doubled(r)' <=> Shape[r] = "mixed" /\ \E d \in Callbacks : got[d] = r /\ answer'[d].kind = "media"
    BY <1>1 DEF Doubled
  <2> QED BY <1>2, <1>3, <2>1 DEF Doubled
<1>6. ~Doubled(q)
  BY <1>3, <1>4 DEF Doubled
<1>7. CASE Shape[q] # "mixed"
  <2>1. pending' = pending
    BY <1>7 DEF AnswerMedia
  <2> QED BY <1>1, <1>3, <1>5, <1>7, <2>1, NothingMoves DEF Holds
<1>8. CASE Shape[q] = "mixed"
  <2> DEFINE k == addr[q]
             n == Len(pending[k]) + 1
  <2>1. k \in Keys /\ pending' = [pending EXCEPT ![k] = Append(pending[k], q)]
    BY <1>0, <1>1, <1>8 DEF AnswerMedia
  <2>2. \A p : (\E l \in Keys : \E i \in DOMAIN pending'[l] :
                   pending'[l][i] = r /\ p = <<"stored", l, i>>)
               <=> \/ \E l \in Keys : \E i \in DOMAIN pending[l] :
                         pending[l][i] = r /\ p = <<"stored", l, i>>
                   \/ r = q /\ p = <<"stored", k, n>>
    BY <1>0, <1>1, <2>1, StoredLast
  <2> HIDE DEF k
  <2>3. \A p : IsAt(p, r)' <=> IsAt(p, r) \/ (r = q /\ p = <<"stored", k, n>>)
    BY <1>1, <1>3, <2>2 DEF IsAt, Holds
  <2>4. CASE r # q
    BY <1>1, <1>5, <2>3, <2>4, StaysThere
  <2>5. CASE r = q
    <3>1. ~IsAt(<<"stored", k, n>>, r)
      <4>1. n \notin DOMAIN pending[k]
        BY <1>0, <2>1
      <4> QED BY <4>1 DEF IsAt
    <3>2. PICK p : IsAt(p, r) /\ \A o : IsAt(o, r) => o = p
      BY <1>1, <1>6, <2>5 DEF OnePlace
    <3>3. <<"stored", k, n>> # p
      BY <3>1, <3>2
    <3>4. \A o : IsAt(o, r)' <=> o \in {<<"stored", k, n>>, p}
      BY <2>3, <2>5, <3>2
    <3>5. Doubled(r)' /\ frame'[r] = "filed"
      BY <1>1, <1>5, <1>8, <2>5
    <3> QED BY <3>3, <3>4, <3>5 DEF OnePlace
  <2> QED BY <2>4, <2>5
<1> QED BY <1>7, <1>8

\* A queue that fits is shown whole, from its end.
LEMMA ShownWhole ==
    ASSUME NEW m \in Seq(Replies), NEW b, Overflows(m, b) = {}
    PROVE  /\ Shown(m, b) \in Seq(Replies) /\ Len(Shown(m, b)) = Len(m)
           /\ \A i \in DOMAIN m : /\ Len(m) + 1 - i \in DOMAIN m
                                  /\ Len(m) + 1 - (Len(m) + 1 - i) = i
                                  /\ Shown(m, b)[i] = m[Len(m) + 1 - i]
           /\ Left(m, b) = <<>>
<1>1. TakenCount(m, b) = Len(m)
  BY DEF TakenCount
<1>2. /\ Shown(m, b) \in Seq(Replies) /\ Len(Shown(m, b)) = Len(m)
      /\ \A i \in 1 .. Len(m) : Shown(m, b)[i] = m[Len(m) + 1 - i]
  BY <1>1, ShownIsReverse
<1>3. \A i \in DOMAIN m : Len(m) + 1 - i \in DOMAIN m /\ Len(m) + 1 - (Len(m) + 1 - i) = i
  OBVIOUS
<1> QED BY <1>1, <1>2, <1>3 DEF Left

\* What is stored for the user moves in front of the answer.
LEMMA HistoryMoves ==
    ASSUME IInv, UntilDone, HistoriesFit, NEW r \in Replies, OnePlace(r),
           NEW c \in Callbacks, AnswerText(c)
    PROVE  OnePlace(r)'
<1> DEFINE k == Origin(From[c])
           m == pending[k]
           h == Shown(m, BodySize(c))
           n == Len(m)
<1>0. /\ pending \in [Keys -> Seq(Replies)] /\ DOMAIN answer = Callbacks /\ k \in Keys
  BY WaitKeyType DEF IInv, TypeOK
<1>1. /\ m \in Seq(Replies) /\ Left(m, BodySize(c)) = <<>>
      /\ h \in Seq(Replies) /\ Len(h) = n
      /\ \A i \in DOMAIN m : /\ n + 1 - i \in DOMAIN m /\ n + 1 - (n + 1 - i) = i
                             /\ h[i] = m[n + 1 - i]
  <2>1. m \in Seq(Replies) /\ Overflows(m, BodySize(c)) = {}
    BY <1>0 DEF HistoriesFit, AnswerText
  <2> HIDE DEF m
  <2> QED BY <2>1, ShownWhole
<1>2. /\ UNCHANGED <<frame, got, chan>> /\ answer[c] = Unanswered
      /\ \E kind \in {"default", "text"} : answer' = [answer EXCEPT ![c] = [kind |-> kind, history |-> h]]
  <2>1. /\ UNCHANGED <<frame, got, chan>> /\ answer[c] = Unanswered
        /\ Respond(c, IF got[c] = None THEN "default" ELSE "text", h)
    BY DEF AnswerText, replyVars, UntilDone
  <2> HIDE DEF h
  <2>2. (IF got[c] = None THEN "default" ELSE "text") \in {"default", "text"}
    OBVIOUS
  <2> QED BY <2>1, <2>2 DEF Respond
<1>3. pending' = [pending EXCEPT ![k] = <<>>]
  BY <1>0, <1>1 DEF AnswerText
<1> HIDE DEF k, h
<1>4. /\ \A d \in Callbacks : d # c => answer'[d] = answer[d]
      /\ answer'[c].history = h /\ answer'[c].kind # "media"
  BY <1>0, <1>2
<1>5. answer[c].history = <<>> /\ answer[c].kind # "media"
  BY <1>2 DEF Unanswered
<1>6. Doubled(r)' <=> Doubled(r)
  BY <1>2, <1>4, <1>5 DEF Doubled
<1>7. pending'[k] = <<>> /\ \A l \in Keys \ {k} : pending'[l] = pending[l]
  BY <1>0, <1>3
<1> DEFINE InQueue(p) == \E i \in DOMAIN m : p = <<"stored", k, i>>
           Moved(p) == IF InQueue(p) THEN <<"shown", c, n + 1 - p[3]>> ELSE p
<1>8. /\ \A i : <<"stored", k, i>>[3] = i
      /\ \A i \in DOMAIN m : n + 1 - i \in DOMAIN h /\ h[n + 1 - i] = m[i]
  BY <1>1
<1>9. ASSUME NEW p, IsAt(p, r)
      PROVE  (\E o : o = Moved(p) /\ IsAt(o, r)') /\ (~InQueue(p) => \A i : p # <<"shown", c, i>>)
  <2>1. CASE \E d \in Callbacks : Holds(d, r) /\ p = <<"held", d, 0>>
    BY <1>2, <2>1 DEF IsAt, Holds
  <2>2. ASSUME NEW l \in Keys, NEW i \in DOMAIN pending[l], pending[l][i] = r, p = <<"stored", l, i>>
        PROVE  (\E o : o = Moved(p) /\ IsAt(o, r)') /\ (~InQueue(p) => \A j : p # <<"shown", c, j>>)
    <3>1. CASE l = k
      <4>1. InQueue(p) /\ Moved(p) = <<"shown", c, n + 1 - i>>
        BY <1>8, <2>2, <3>1
      <4>2. n + 1 - i \in DOMAIN answer'[c].history /\ answer'[c].history[n + 1 - i] = r
        BY <1>4, <1>8, <2>2, <3>1
      <4> QED BY <4>1, <4>2 DEF IsAt
    <3>2. CASE l # k
      <4>1. Moved(p) = p /\ pending'[l] = pending[l]
        BY <1>7, <2>2, <3>2
      <4> QED BY <2>2, <4>1 DEF IsAt
    <3> QED BY <3>1, <3>2
  <2>3. ASSUME NEW d \in Callbacks, NEW i \in DOMAIN answer[d].history,
               answer[d].history[i] = r, p = <<"shown", d, i>>
        PROVE  (\E o : o = Moved(p) /\ IsAt(o, r)') /\ (~InQueue(p) => \A j : p # <<"shown", c, j>>)
    <3>1. d # c
      BY <1>5, <2>3
    <3>2. Moved(p) = p /\ answer'[d] = answer[d]
      BY <1>4, <2>3, <3>1
    <3> QED BY <2>3, <3>1, <3>2 DEF IsAt
  <2> QED BY <1>9, <2>1, <2>2, <2>3 DEF IsAt
<1>10. ASSUME NEW o, IsAt(o, r)' PROVE \E p : IsAt(p, r) /\ o = Moved(p)
  <2>1. CASE \E d \in Callbacks : Holds(d, r)' /\ o = <<"held", d, 0>>
    <3>1. IsAt(o, r) /\ ~InQueue(o)
      BY <1>2, <2>1 DEF IsAt, Holds
    <3> QED BY <3>1
  <2>2. ASSUME NEW l \in Keys, NEW i \in DOMAIN pending'[l], pending'[l][i] = r, o = <<"stored", l, i>>
        PROVE  \E p : IsAt(p, r) /\ o = Moved(p)
    <3>1. l # k /\ pending'[l] = pending[l]
      BY <1>7, <2>2
    <3>2. IsAt(o, r) /\ ~InQueue(o)
      BY <2>2, <3>1 DEF IsAt
    <3> QED BY <3>2
  <2>3. ASSUME NEW d \in Callbacks, NEW i \in DOMAIN answer'[d].history,
               answer'[d].history[i] = r, o = <<"shown", d, i>>
        PROVE  \E p : IsAt(p, r) /\ o = Moved(p)
    <3>1. CASE d = c
      <4>1. /\ i \in DOMAIN m /\ n + 1 - i \in DOMAIN m /\ m[n + 1 - i] = r
            /\ n + 1 - (n + 1 - i) = i
        BY <1>1, <1>4, <2>3, <3>1
      <4>2. PICK j \in DOMAIN m : m[j] = r /\ n + 1 - j = i
        BY <4>1
      <4>3. IsAt(<<"stored", k, j>>, r) /\ o = Moved(<<"stored", k, j>>)
        BY <1>0, <1>8, <2>3, <3>1, <4>2 DEF IsAt
      <4> QED BY <4>3
    <3>2. CASE d # c
      <4>1. answer'[d] = answer[d]
        BY <1>4, <3>2
      <4>2. IsAt(o, r) /\ ~InQueue(o)
        BY <2>3, <4>1 DEF IsAt
      <4> QED BY <4>2
    <3> QED BY <3>1, <3>2
  <2> QED BY <1>10, <2>1, <2>2, <2>3 DEF IsAt
<1>11. ASSUME NEW p, NEW q, IsAt(p, r), IsAt(q, r), Moved(p) = Moved(q) PROVE p = q
  <2>1. CASE InQueue(p) /\ InQueue(q)
    <3>1. PICK i \in DOMAIN m : p = <<"stored", k, i>>
      BY <2>1
    <3>2. PICK j \in DOMAIN m : q = <<"stored", k, j>>
      BY <2>1
    <3>3. Moved(p) = <<"shown", c, n + 1 - i>> /\ Moved(q) = <<"shown", c, n + 1 - j>>
      BY <1>8, <3>1, <3>2
    <3>4. n + 1 - i = n + 1 - j
      BY <1>11, <3>3
    <3>5. i = j
      BY <1>1, <3>4
    <3> QED BY <3>1, <3>2, <3>5
  <2>2. CASE InQueue(p) /\ ~InQueue(q)
    BY <1>9, <1>11, <2>2
  <2>3. CASE ~InQueue(p) /\ InQueue(q)
    BY <1>9, <1>11, <2>3
  <2>4. CASE ~InQueue(p) /\ ~InQueue(q)
    BY <1>11, <2>4
  <2> QED BY <2>1, <2>2, <2>3, <2>4
<1> HIDE DEF Moved
<1>12. CASE frame[r] # "filed"
  BY <1>2, <1>10, <1>12 DEF OnePlace
<1>13. CASE frame[r] = "filed" /\ ~Doubled(r)
  <2>1. PICK p : IsAt(p, r) /\ \A q : IsAt(q, r) => q = p
    BY <1>13 DEF OnePlace
  <2>2. PICK o : o = Moved(p) /\ IsAt(o, r)'
    BY <1>9, <2>1
  <2>3. \A w : IsAt(w, r)' => w = o
    BY <1>10, <2>1, <2>2
  <2> QED BY <1>2, <1>6, <1>13, <2>2, <2>3 DEF OnePlace
<1>14. CASE frame[r] = "filed" /\ Doubled(r)
  <2>1. PICK p : /\ IsAt(p, r)
                 /\ \E q : q # p /\ IsAt(q, r) /\ \A o : IsAt(o, r) => o \in {q, p}
    BY <1>14 DEF OnePlace
  <2>2. PICK q : q # p /\ IsAt(q, r) /\ \A o : IsAt(o, r) => o \in {q, p}
    BY <2>1
  <2>3. PICK v : v = Moved(p) /\ IsAt(v, r)'
    BY <1>9, <2>1
  <2>4. PICK w : w = Moved(q) /\ IsAt(w, r)'
    BY <1>9, <2>2
  <2>5. w # v
    BY <1>11, <2>1, <2>2, <2>3, <2>4
  <2>6. \A o : IsAt(o, r)' => o \in {w, v}
    BY <1>10, <2>2, <2>3, <2>4
  <2> QED BY <1>2, <1>6, <1>14, <2>3, <2>4, <2>5, <2>6 DEF OnePlace
<1> QED BY <1>12, <1>13, <1>14

\* A callback that has answered is done.
LEMMA UntilDoneNext == IInv /\ UntilDone /\ [Next]_vars => UntilDone'
<1> SUFFICES ASSUME IInv, UntilDone, [Next]_vars PROVE UntilDone'
  OBVIOUS
<1> USE DEF handlerVars
<1>0. DOMAIN pc = Callbacks /\ DOMAIN answer = Callbacks
  BY DEF IInv, TypeOK
<1>1. CASE answer' = answer /\ \A c \in Callbacks : pc[c] = "done" => pc'[c] = "done"
  BY <1>1 DEF UntilDone
<1>2. ASSUME NEW c \in Callbacks, pc' = [pc EXCEPT ![c] = "done"], NEW k, NEW h, Respond(c, k, h)
      PROVE  UntilDone'
  BY <1>0, <1>2 DEF UntilDone, Respond
<1>3. ASSUME NEW c \in Callbacks, Expire(c) \/ UploadFails(c) \/ AnswerMedia(c) \/ AnswerText(c)
      PROVE  UntilDone'
  <2>1. \/ answer' = answer /\ \A d \in Callbacks : pc[d] = "done" => pc'[d] = "done"
        \/ pc' = [pc EXCEPT ![c] = "done"] /\ \E k, h : Respond(c, k, h)
    BY <1>0, <1>3 DEF Expire, UploadFails, AnswerMedia, AnswerText
  <2> QED BY <1>1, <1>2, <2>1
<1> QED
  BY <1>0, <1>1, <1>3
  DEF Next, Handler, Recv, Report, Register, Receive, TimerFires, AppSend, RecvLock, RecvHand,
      RecvStore, vars

\* However registrations, timers and replies interleave: as long as no history
\* overflows its budget, every reply that recvMessage has filed is in one place,
\* with a callback, stored or shown (and the text of an image that was sent in
\* one more), for any number of users, callbacks and replies.
THEOREM NoReplyIsLost == Spec /\ []HistoriesFit => []ExactlyOnePlace
<1> DEFINE Inv == UntilDone /\ \A r \in Replies : OnePlace(r)
<1>1. Init => Inv
  <2> SUFFICES ASSUME Init PROVE Inv
    OBVIOUS
  <2>1. \A c \in Callbacks : answer[c].history = <<>> /\ chan[c] = <<>> /\ got[c] = None
    BY DEF Init, Unanswered
  <2>2. \A r \in Replies : \A p : ~IsAt(p, r)
    <3>1. \A c \in Callbacks, r \in Replies : ~Holds(c, r)
      <4>1. \A r \in Replies : None # r /\ <<>> # <<r>>
        BY ExchangeAssumption
      <4> QED BY <2>1, <4>1 DEF Holds
    <3>2. \A k \in Keys : pending[k] = <<>>
      BY DEF Init
    <3> QED BY <2>1, <3>1, <3>2 DEF IsAt
  <2> QED BY <2>2 DEF Init, UntilDone, OnePlace
<1>2. IInv /\ HistoriesFit /\ Inv /\ [Next]_vars => Inv'
  <2> SUFFICES ASSUME IInv, HistoriesFit, UntilDone, \A r \in Replies : OnePlace(r), [Next]_vars
               PROVE  UntilDone' /\ \A r \in Replies : OnePlace(r)'
    OBVIOUS
  <2>1. ASSUME NEW r \in Replies PROVE OnePlace(r)'
    BY PlacesStay, FiledOnce, MediaDoubles, HistoryMoves DEF Next, Handler, Recv
  <2> QED BY <2>1, UntilDoneNext
<1>3. Inv => ExactlyOnePlace
  BY OnePlaceCounts
<1> QED BY <1>1, <1>2, <1>3, IInvInvariant, PTL DEF Spec

-----------------------------------------------------------------------------
(* What an overflow costs.                                                  *)

\* A reply that is somewhere, or is being filed, is somewhere after the step.
IsKept(r) == (\E p : IsAt(p, r)) \/ Filing(r) => \E p : IsAt(p, r)'

\* A step that takes no reply from a callback, from the store or from an answer.
LEMMA NothingLeaves ==
    ASSUME NEW r \in Replies, ~Filing(r), DOMAIN answer = Callbacks,
           \A c \in Callbacks : Holds(c, r) => Holds(c, r)',
           \A k \in Keys : \A i \in DOMAIN pending[k] :
               i \in DOMAIN pending'[k] /\ pending'[k][i] = pending[k][i],
           \A c \in Callbacks : answer[c].history = <<>> \/ answer'[c].history = answer[c].history
    PROVE  IsKept(r)
<1> SUFFICES ASSUME NEW p, IsAt(p, r) PROVE IsAt(p, r)'
  BY DEF IsKept
<1>1. CASE \E c \in Callbacks : Holds(c, r) /\ p = <<"held", c, 0>>
  BY <1>1 DEF IsAt
<1>2. ASSUME NEW k \in Keys, NEW i \in DOMAIN pending[k], pending[k][i] = r, p = <<"stored", k, i>>
      PROVE  IsAt(p, r)'
  BY <1>2 DEF IsAt
<1>3. ASSUME NEW c \in Callbacks, NEW i \in DOMAIN answer[c].history,
             answer[c].history[i] = r, p = <<"shown", c, i>>
      PROVE  IsAt(p, r)'
  BY <1>3 DEF IsAt
<1> QED BY <1>1, <1>2, <1>3 DEF IsAt

\* An append leaves what is stored where it is.
LEMMA AppendKeeps ==
    ASSUME pending \in [Keys -> Seq(Replies)], NEW k \in Keys, NEW q \in Replies,
           pending' = [pending EXCEPT ![k] = Append(pending[k], q)]
    PROVE  /\ \A l \in Keys : \A i \in DOMAIN pending[l] :
                 i \in DOMAIN pending'[l] /\ pending'[l][i] = pending[l][i]
           /\ \E i \in DOMAIN pending'[k] : pending'[k][i] = q
<1>1. /\ pending[k] \in Seq(Replies) /\ pending'[k] = Append(pending[k], q)
      /\ \A l \in Keys \ {k} : pending'[l] = pending[l]
  OBVIOUS
<1>2. /\ \A i \in DOMAIN pending[k] : i \in DOMAIN pending'[k] /\ pending'[k][i] = pending[k][i]
      /\ Len(pending[k]) + 1 \in DOMAIN pending'[k] /\ pending'[k][Len(pending[k]) + 1] = q
  BY <1>1
<1> QED BY <1>1, <1>2

\* A history that overflows loses the reply at which it does, and no other.
LEMMA TextKeepsOthers ==
    ASSUME IInv, UntilDone, NEW r \in Replies, NEW c \in Callbacks, AnswerText(c), ~Overlong(c, r)
    PROVE  IsKept(r)
<1> DEFINE k == Origin(From[c])
           m == pending[k]
           b == BodySize(c)
<1>0. /\ pending \in [Keys -> Seq(Replies)] /\ DOMAIN answer = Callbacks /\ k \in Keys
      /\ m \in Seq(Replies)
  BY WaitKeyType DEF IInv, TypeOK
<1>1. /\ UNCHANGED <<frame, got, chan>> /\ answer[c].history = <<>>
      /\ \E kind \in {"default", "text"} :
            answer' = [answer EXCEPT ![c] = [kind |-> kind, history |-> Shown(m, b)]]
  <2>1. /\ UNCHANGED <<frame, got, chan>> /\ pc[c] # "done"
        /\ Respond(c, IF got[c] = None THEN "default" ELSE "text", Shown(m, b))
    BY DEF AnswerText, replyVars
  <2>2. answer[c].history = <<>>
    BY <2>1 DEF UntilDone, Unanswered
  <2> HIDE DEF m, b
  <2>3. (IF got[c] = None THEN "default" ELSE "text") \in {"default", "text"}
    OBVIOUS
  <2> QED BY <2>1, <2>2, <2>3 DEF Respond
<1>2. answer'[c].history = Shown(m, b) /\ \A d \in Callbacks : d # c => answer'[d] = answer[d]
  BY <1>0, <1>1
<1>3. (m # <<>> => pending'[k] = Left(m, b)) /\ \A l \in Keys \ {k} : pending'[l] = pending[l]
  BY <1>0 DEF AnswerText
<1> SUFFICES ASSUME NEW p, IsAt(p, r) PROVE \E o : IsAt(o, r)'
  BY <1>1 DEF IsKept, Filing
<1>4. CASE \E d \in Callbacks : Holds(d, r) /\ p = <<"held", d, 0>>
  BY <1>1, <1>4 DEF IsAt, Holds
<1>5. ASSUME NEW l \in Keys, NEW i \in DOMAIN pending[l], pending[l][i] = r
      PROVE  \E o : IsAt(o, r)'
  <2>1. CASE l # k
    <3>1. pending'[l] = pending[l]
      BY <1>3, <2>1
    <3> QED BY <1>5, <3>1 DEF IsAt
  <2>2. CASE l = k
    <3>0. i \in DOMAIN m /\ m[i] = r /\ m # <<>>
      BY <1>0, <1>5, <2>2
    <3>1. i # TakenCount(m, b) + 1
      <4>1. TakenCount(m, b) \in 0 .. Len(m) /\ i \in 1 .. Len(m)
        BY <1>0, <3>0, TakenCountType
      <4>2. ~(TakenCount(m, b) < Len(m) /\ r = m[TakenCount(m, b) + 1])
        BY DEF Overlong
      <4> HIDE DEF m, b
      <4> QED BY <3>0, <4>1, <4>2
    <3>2. \/ \E j \in DOMAIN Shown(m, b) : Shown(m, b)[j] = m[i]
          \/ \E j \in DOMAIN Left(m, b) : Left(m, b)[j] = m[i]
      <4> HIDE DEF m, b
      <4> QED BY <1>0, <3>0, <3>1, FetchLosesAtMostOne
    <3>3. CASE \E j \in DOMAIN Shown(m, b) : Shown(m, b)[j] = m[i]
      <4> HIDE DEF m, b
      <4> QED BY <1>2, <3>0, <3>3 DEF IsAt
    <3>4. CASE \E j \in DOMAIN Left(m, b) : Left(m, b)[j] = m[i]
      <4> HIDE DEF m, b, k
      <4> QED BY <1>0, <1>3, <3>0, <3>4 DEF IsAt
    <3> QED BY <3>2, <3>3, <3>4
  <2> QED BY <2>1, <2>2
<1>6. ASSUME NEW d \in Callbacks, NEW i \in DOMAIN answer[d].history, answer[d].history[i] = r
      PROVE  \E o : IsAt(o, r)'
  <2>1. d # c
    BY <1>1, <1>6
  <2>2. answer'[d] = answer[d]
    BY <1>2, <2>1
  <2> QED BY <1>6, <2>2 DEF IsAt
<1> QED BY <1>4, <1>5, <1>6 DEF IsAt

\* Every other step keeps all replies.
LEMMA OthersKeep ==
    ASSUME IInv, UntilDone, NEW r \in Replies, [Next]_vars, \A c \in Callbacks : ~AnswerText(c)
    PROVE  IsKept(r)
<1> USE DEF handlerVars, tableVars, replyVars
<1>0. /\ pc \in [Callbacks -> Steps] /\ frame \in [Replies -> {"unsent", "received", "filed"}]
      /\ chan \in [Callbacks -> Seq(Replies)] /\ got \in [Callbacks -> Replies \cup {None}]
      /\ DOMAIN answer = Callbacks /\ addr \in [Replies -> Keys]
      /\ pending \in [Keys -> Seq(Replies)] /\ waiter \in [Keys -> Callbacks \cup {None}]
  BY DEF IInv, TypeOK
<1>1. CASE UNCHANGED <<frame, got, chan, answer, pending>>
  BY <1>0, <1>1, NothingLeaves DEF Filing, Holds
<1>2. ASSUME NEW q \in Replies, AppSend(q) PROVE IsKept(r)
  BY <1>0, <1>2, NothingLeaves DEF AppSend, Filing, Holds
<1>3. ASSUME NEW c \in Callbacks, Receive(c) PROVE IsKept(r)
  <2>1. PICK q \in Replies : chan[c] = <<q>>
    BY <1>3 DEF Receive, IInv, CallbackState
  <2>2. /\ got' = [got EXCEPT ![c] = q] /\ chan' = [chan EXCEPT ![c] = <<>>] /\ got[c] = None
        /\ UNCHANGED <<answer, pending, frame>>
    BY <1>3, <2>1 DEF Receive, IInv, CallbackState
  <2>3. \A d \in Callbacks : Holds(d, r) => Holds(d, r)'
    <3> SUFFICES ASSUME NEW d \in Callbacks, Holds(d, r) PROVE Holds(d, r)'
      OBVIOUS
    <3>1. CASE d = c
      <4>1. got[d] # r /\ got'[d] = q
        BY <1>0, <2>2, <3>1, ExchangeAssumption
      <4>2. chan[d] = <<r>> <=> q = r
        BY <2>1, <3>1
      <4> QED BY <4>1, <4>2 DEF Holds
    <3>2. CASE d # c
      BY <1>0, <2>2, <3>2 DEF Holds
    <3> QED BY <3>1, <3>2
  <2> QED BY <1>0, <2>2, <2>3, NothingLeaves DEF Filing
<1>4. ASSUME NEW c \in Callbacks, Expire(c) \/ UploadFails(c) PROVE IsKept(r)
  <2>1. /\ UNCHANGED <<frame, got, chan, pending>> /\ answer[c].history = <<>>
        /\ answer' = answer \/ \E k \in {"silent", "error"} : Respond(c, k, <<>>)
    BY <1>4 DEF Expire, UploadFails, UntilDone, Unanswered
  <2>2. \A d \in Callbacks : d # c => answer'[d] = answer[d]
    BY <1>0, <2>1 DEF Respond
  <2> QED BY <1>0, <2>1, <2>2, NothingLeaves DEF Filing, Holds
<1>5. ASSUME NEW c \in Callbacks, AnswerMedia(c) PROVE IsKept(r)
  <2>1. /\ UNCHANGED <<frame, got, chan>> /\ answer[c].history = <<>>
        /\ got[c] \in Replies /\ addr[got[c]] \in Keys
        /\ \A d \in Callbacks : d # c => answer'[d] = answer[d]
    BY <1>0, <1>5 DEF AnswerMedia, Respond, IInv, CallbackState, UntilDone, Unanswered
  <2>2. \/ pending' = pending
        \/ pending' = [pending EXCEPT ![addr[got[c]]] = Append(pending[addr[got[c]]], got[c])]
    BY <1>5 DEF AnswerMedia
  <2>3. \A l \in Keys : \A i \in DOMAIN pending[l] :
           i \in DOMAIN pending'[l] /\ pending'[l][i] = pending[l][i]
    BY <1>0, <2>1, <2>2, AppendKeeps
  <2> QED BY <1>0, <2>1, <2>3, NothingLeaves DEF Filing, Holds
<1>6. ASSUME NEW q \in Replies, RecvHand(q) \/ RecvStore(q) PROVE IsKept(r)
  <2>0. PICK k \in Keys : k = EchoKey(addr[q])
    BY <1>0, EchoKeyType
  <2>1. frame' = [frame EXCEPT ![q] = "filed"] /\ UNCHANGED <<got, answer>>
    BY <1>6 DEF RecvHand, RecvStore
  <2>2. CASE RecvHand(q)
    <3>1. PICK c \in Callbacks : /\ chan[c] = <<>> /\ chan' = [chan EXCEPT ![c] = <<q>>]
                                 /\ pending' = pending
      <4>1. waiter[k] \in Callbacks
        BY <1>0, <2>0, <2>2 DEF RecvHand
      <4> QED BY <2>0, <2>2, <4>1 DEF RecvHand
    <3>2. \A d \in Callbacks : Holds(d, r) => Holds(d, r)'
      <4>1. <<>> # <<r>>
        OBVIOUS
      <4> QED BY <1>0, <2>1, <3>1, <4>1 DEF Holds
    <3>3. CASE r = q
      <4>1. chan'[c] = <<r>>
        BY <1>0, <3>1, <3>3
      <4>2. IsAt(<<"held", c, 0>>, r)'
        BY <3>1, <4>1 DEF IsAt, Holds
      <4> QED BY <4>2 DEF IsKept
    <3>4. CASE r # q
      BY <1>0, <2>1, <3>1, <3>2, <3>4, NothingLeaves DEF Filing
    <3> QED BY <3>3, <3>4
  <2>3. CASE RecvStore(q)
    <3>1. pending' = [pending EXCEPT ![k] = Append(pending[k], q)] /\ chan' = chan
      BY <2>0, <2>3 DEF RecvStore
    <3>2. /\ \A l \in Keys : \A i \in DOMAIN pending[l] :
                i \in DOMAIN pending'[l] /\ pending'[l][i] = pending[l][i]
          /\ \E i \in DOMAIN pending'[k] : pending'[k][i] = q
      BY <1>0, <3>1, AppendKeeps
    <3>3. CASE r = q
      <4>1. PICK i \in DOMAIN pending'[k] : pending'[k][i] = r
        BY <3>2, <3>3
      <4>2. IsAt(<<"stored", k, i>>, r)'
        BY <4>1 DEF IsAt
      <4> QED BY <4>2 DEF IsKept
    <3>4. CASE r # q
      BY <1>0, <2>1, <3>1, <3>2, <3>4, NothingLeaves DEF Filing, Holds
    <3> QED BY <3>3, <3>4
  <2> QED BY <1>6, <2>2, <2>3
<1> QED
  BY <1>1, <1>2, <1>3, <1>4, <1>5, <1>6
  DEF Next, Handler, Recv, Report, Register, TimerFires, RecvLock, vars

\* With histories of any size: a reply that recvMessage files is with a callback,
\* stored or shown from then on, unless the history of an answer overflows at
\* that very reply (GetPendingMessages cuts it out of the slice).
THEOREM OnlyOverflowLoses == Spec => OverflowLosesNoOther
<1>1. Init => UntilDone
  BY DEF Init, UntilDone
<1>2. (\A r \in Replies : \A p : p \in Places(r) <=> IsAt(p, r))'
  BY PlacesAre, PTL
<1>3. IInv /\ UntilDone /\ [Next]_vars =>
          [\A r \in Replies :
              Places(r) # {} \/ Filing(r) =>
                  Places(r)' # {} \/ \E c \in Callbacks : Overlong(c, r)]_vars
  <2> SUFFICES ASSUME IInv, UntilDone, [Next]_vars, NEW r \in Replies,
                      Places(r) # {} \/ Filing(r), \A c \in Callbacks : ~Overlong(c, r)
               PROVE  Places(r)' # {}
    OBVIOUS
  <2>1. IsKept(r)
    BY TextKeepsOthers, OthersKeep
  <2>2. \E p : IsAt(p, r)'
    <3>1. Places(r) # {} => \E p : IsAt(p, r)
      BY PlacesAre
    <3> QED BY <2>1, <3>1 DEF IsKept
  <2>3. \A p : p \in Places(r)' <=> IsAt(p, r)'
    BY <1>2
  <2> QED BY <2>2, <2>3
<1> QED BY <1>1, <1>3, UntilDoneNext, IInvInvariant, PTL DEF Spec, OverflowLosesNoOther

=============================================================================
