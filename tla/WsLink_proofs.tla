---------------------------- MODULE WsLink_proofs ----------------------------
(****************************************************************************)
(* The goroutines of one WebSocketClient for any number of connections,     *)
(* retries and events: who is in charge of the connection, and what that    *)
(* means for the heartbeat and for isReconnecting.                          *)
(****************************************************************************)
EXTENDS WsLink, TLAPS

\* Epochs follow each other: when the reader of one has been started, every
\* earlier one is over.
Succession ==
    /\ \A n \in Epochs : rec[n] # "none" => reader[n] = "gone"
    /\ \A n \in Epochs : reader[n] # "none" =>
          \A m \in Epochs : m < n => reader[m] = "gone" /\ rec[m] \in {"launched", "done"}

\* What Reconnect relies on when it replaces the context and the connection.
Handover ==
    /\ \A n \in Epochs : InCharge(n) => cancel = n
    /\ \A n \in Epochs : reader[n] \in {"reading", "failed"} => conn = n
    /\ \A n \in Epochs : rec[n] = "connected" => conn = n + 1
    /\ \A n \in Epochs : cancelled[n] <=> reader[n] \in {"failed", "gone"}
    /\ \A n \in Epochs : beat[n] = "none" <=> reader[n] = "none"
    /\ \A n \in Epochs : beat[n] = "gone" => cancelled[n]
    /\ \A n \in Epochs : rec[n] = "dialing" => tries <= MaxRetry

LinkInv == TypeOK /\ Succession /\ Handover /\ FlagHasOwner

\* The steps that leave the goroutines of every epoch where they are.
LEMMA StayStep ==
    ASSUME LinkInv, UNCHANGED <<conn, reader, beat, cancelled, cancel, flag, rec, tries>>
    PROVE  (Succession /\ Handover /\ FlagHasOwner)'
  BY DEF LinkInv, Succession, Handover, FlagHasOwner, InCharge

\* A write, whichever way it ends, keeps the types.
LEMMA WriteType ==
    ASSUME TypeOK, NEW e \in Events, NEW w \in 0 .. MaxEpochs, NEW a \in {"failed", "failedAgain"},
           Write(e, w, a)
    PROVE  /\ sent' \in [Events -> {"new", "delivered", "swallowed", "failed", "failedAgain"}]
           /\ keeping' \in {Nobody} \cup [busy : {TRUE}, who : 0 .. MaxEpochs, list : Seq(Events)]
<1>1. Append(failures, e) \in Seq(Events)
  BY DEF TypeOK
<1>2. keeping' = keeping \/ keeping' = [busy |-> TRUE, who |-> w, list |-> Append(failures, e)]
  BY DEF Write
<1>3. \E s \in {"new", "delivered", "swallowed", "failed", "failedAgain"} : sent' = [sent EXCEPT ![e] = s]
  BY DEF Write, TypeOK
<1>4. sent' \in [Events -> {"new", "delivered", "swallowed", "failed", "failedAgain"}]
  BY <1>3 DEF TypeOK
<1>5. CASE keeping' = keeping
  BY <1>4, <1>5 DEF TypeOK
<1>6. CASE keeping' = [busy |-> TRUE, who |-> w, list |-> Append(failures, e)]
  <2>1. keeping' \in [busy : {TRUE}, who : 0 .. MaxEpochs, list : Seq(Events)]
    BY <1>1, <1>6
  <2>2. QED
    BY <1>4, <2>1
<1>7. QED
  BY <1>2, <1>5, <1>6

\* Every step keeps the invariant.
LEMMA LinkStep ==
    ASSUME LinkInv, [Next]_vars
    PROVE  LinkInv'
<1> USE LinkAssumption DEF LinkInv, Epochs
<1>1. ASSUME NEW e \in Events, Send(e) PROVE LinkInv'
  <2>1. Write(e, 0, "failed") /\ 0 \in 0 .. MaxEpochs /\ "failed" \in {"failed", "failedAgain"}
    BY <1>1 DEF Send
  <2>2. /\ sent' \in [Events -> {"new", "delivered", "swallowed", "failed", "failedAgain"}]
        /\ keeping' \in {Nobody} \cup [busy : {TRUE}, who : 0 .. MaxEpochs, list : Seq(Events)]
    BY <2>1, WriteType
  <2>3. TypeOK'
    BY <1>1, <2>2 DEF TypeOK, Send, taskVars, recVars
  <2>4. QED
    BY <1>1, <2>3, StayStep DEF Send, taskVars, recVars
<1>2. CASE Keep
  <2>1. keeping.list \in Seq(Events)
    BY <1>2 DEF Keep, Locked, TypeOK
  <2>2. TypeOK'
    BY <1>2, <2>1 DEF TypeOK, Keep, taskVars, recVars
  <2>3. QED
    BY <1>2, <2>2, StayStep DEF Keep, taskVars, recVars
<1>3. CASE Close
  <2>1. TypeOK'
    BY <1>3 DEF TypeOK, Close, taskVars, recVars, sendVars
  <2>2. QED
    BY <1>3, <2>1, StayStep DEF Close, taskVars, recVars
<1>4. ASSUME NEW n \in Epochs, Drop(n) PROVE LinkInv'
  <2>1. TypeOK'
    BY <1>4 DEF TypeOK, Drop, taskVars, recVars, sendVars
  <2>2. QED
    BY <1>4, <2>1, StayStep DEF Drop, taskVars, recVars
<1>5. ASSUME NEW n \in Epochs, BeatTick(n) PROVE LinkInv'
  <2>1. TypeOK'
    BY <1>5 DEF TypeOK, BeatTick, recVars, sendVars
  <2>2. Succession' /\ Handover' /\ FlagHasOwner'
    BY <1>5 DEF BeatTick, recVars, Succession, Handover, FlagHasOwner, InCharge, TypeOK
  <2>3. QED
    BY <2>1, <2>2
<1>6. ASSUME NEW n \in Epochs, Resend(n) PROVE LinkInv'
  <2>1. Head(snap[n]) \in Events /\ Tail(snap[n]) \in Seq(Events)
    BY <1>6 DEF Resend, TypeOK
  <2>2. /\ Write(Head(snap[n]), n, "failedAgain")
        /\ n \in 0 .. MaxEpochs /\ "failedAgain" \in {"failed", "failedAgain"}
    BY <1>6 DEF Resend
  <2>3. /\ sent' \in [Events -> {"new", "delivered", "swallowed", "failed", "failedAgain"}]
        /\ keeping' \in {Nobody} \cup [busy : {TRUE}, who : 0 .. MaxEpochs, list : Seq(Events)]
    BY <2>1, <2>2, WriteType
  <2>4. TypeOK'
    BY <1>6, <2>1, <2>3 DEF TypeOK, Resend, recVars
  <2>5. QED
    BY <1>6, <2>4, StayStep DEF Resend, recVars
<1>7. ASSUME NEW n \in Epochs, Clear(n) PROVE LinkInv'
  <2>1. TypeOK'
    BY <1>7 DEF TypeOK, Clear, recVars
  <2>2. Succession' /\ FlagHasOwner'
    BY <1>7 DEF Clear, recVars, Succession, FlagHasOwner
  <2>3. beat'[n] # "none" /\ (beat'[n] = "gone" => cancelled[n]) /\ \A m \in Epochs : m # n => beat'[m] = beat[m]
    BY <1>7 DEF Clear, TypeOK
  <2>4. Handover'
    BY <1>7, <2>3 DEF Clear, recVars, Handover, InCharge
  <2>5. QED
    BY <2>1, <2>2, <2>4
<1>8. ASSUME NEW n \in Epochs, BeatStop(n) PROVE LinkInv'
  <2>1. TypeOK'
    BY <1>8 DEF TypeOK, BeatStop, recVars, sendVars
  <2>2. Succession' /\ Handover' /\ FlagHasOwner'
    BY <1>8 DEF BeatStop, recVars, Succession, Handover, FlagHasOwner, InCharge, TypeOK
  <2>3. QED
    BY <2>1, <2>2
<1>9. ASSUME NEW n \in Epochs, ReadFails(n) PROVE LinkInv'
  <2>1. TypeOK'
    BY <1>9 DEF TypeOK, ReadFails, recVars, sendVars
  <2>2. Succession' /\ Handover' /\ FlagHasOwner'
    BY <1>9 DEF ReadFails, recVars, Succession, Handover, FlagHasOwner, InCharge, TypeOK
  <2>3. QED
    BY <2>1, <2>2
<1>10. ASSUME NEW n \in Epochs, ReaderExit(n) PROVE LinkInv'
  <2>1. TypeOK'
    BY <1>10 DEF TypeOK, ReaderExit, sendVars
  <2>2. rec[n] = "none"
    BY <1>10 DEF ReaderExit, Succession, TypeOK
  <2>3. Succession'
    BY <1>10, <2>2 DEF ReaderExit, Succession, TypeOK
  <2>4. Handover'
    BY <1>10, <2>2 DEF ReaderExit, Handover, InCharge, TypeOK
  <2>5. FlagHasOwner'
    BY <1>10, <2>2 DEF ReaderExit, FlagHasOwner, TypeOK
  <2>6. QED
    BY <2>1, <2>3, <2>4, <2>5
<1>11. ASSUME NEW n \in Epochs, RecStart(n) PROVE LinkInv'
  <2>1. TypeOK'
    <3>1. tries' \in 0 .. MaxRetry + 1 /\ rec' = [rec EXCEPT ![n] = "dialing"] /\ flag' \in BOOLEAN
      BY <1>11 DEF RecStart
    <3>2. QED
      BY <1>11, <3>1 DEF TypeOK, RecStart, taskVars, sendVars
  <2>2. Succession'
    BY <1>11 DEF RecStart, taskVars, Succession, TypeOK
  <2>3. Handover'
    BY <1>11 DEF RecStart, taskVars, Handover, InCharge, TypeOK
  <2>4. FlagHasOwner'
    BY <1>11 DEF RecStart, FlagHasOwner, TypeOK
  <2>5. QED
    BY <2>1, <2>2, <2>3, <2>4
<1>12. ASSUME NEW n \in Epochs, DialFails(n) PROVE LinkInv'
  <2>1. tries <= MaxRetry /\ tries \in Nat /\ rec[n] = "dialing" /\ tries' = tries + 1
    BY <1>12 DEF DialFails, Handover, TypeOK
  <2>2. rec' = [rec EXCEPT ![n] = "gaveUp"] \/ (rec' = rec /\ tries' <= MaxRetry)
    <3>1. CASE tries' > MaxRetry
      BY <1>12, <3>1 DEF DialFails
    <3>2. CASE ~ (tries' > MaxRetry)
      <4>1. rec' = [rec EXCEPT ![n] = rec[n]]
        BY <1>12, <3>2 DEF DialFails
      <4>2. rec' = rec
        BY <4>1 DEF TypeOK
      <4>3. tries' <= MaxRetry
        BY <2>1, <3>2
      <4>4. QED
        BY <4>2, <4>3
    <3>3. QED
      BY <3>1, <3>2
  <2>3. TypeOK'
    <3>1. tries' \in 0 .. MaxRetry + 1
      BY <2>1
    <3>2. rec' \in [Epochs -> {"none", "started", "dialing", "connected", "launched", "done", "gaveUp"}]
      BY <2>2 DEF TypeOK
    <3>3. QED
      BY <1>12, <3>1, <3>2 DEF TypeOK, DialFails, taskVars, sendVars
  <2>4. Succession'
    BY <1>12, <2>1, <2>2 DEF DialFails, taskVars, Succession, TypeOK
  <2>5. \A m \in Epochs : InCharge(m) => m = n
    BY <2>1 DEF Handover, InCharge
  <2>6. Handover'
    BY <1>12, <2>1, <2>2, <2>5 DEF DialFails, taskVars, Handover, InCharge, TypeOK
  <2>7. FlagHasOwner'
    BY <1>12, <2>1, <2>2 DEF DialFails, FlagHasOwner, TypeOK
  <2>8. QED
    BY <2>3, <2>4, <2>6, <2>7
<1>13. ASSUME NEW n \in Epochs, DialSucceeds(n) PROVE LinkInv'
  <2>1. TypeOK'
    <3>1. n + 1 \in Epochs /\ rec' = [rec EXCEPT ![n] = "connected"]
      BY <1>13 DEF DialSucceeds
    <3>2. QED
      BY <1>13, <3>1 DEF TypeOK, DialSucceeds, taskVars, sendVars
  <2>2. Succession'
    BY <1>13 DEF DialSucceeds, taskVars, Succession, TypeOK
  <2>3. InCharge(n) /\ rec[n] = "dialing" /\ cancel = n
    BY <1>13 DEF DialSucceeds, InCharge, Handover
  <2>4. \A m \in Epochs : InCharge(m) => m = n
    BY <2>3 DEF Handover
  <2>5. Handover'
    <3>1. rec' = [rec EXCEPT ![n] = "connected"] /\ conn' = n + 1
      BY <1>13 DEF DialSucceeds
    <3>2. UNCHANGED <<reader, beat, cancelled, cancel, tries>>
      BY <1>13 DEF DialSucceeds, taskVars
    <3>3. \A m \in Epochs : InCharge(m)' => m = n
      BY <2>4, <3>1, <3>2 DEF InCharge, TypeOK
    <3>4. \A m \in Epochs : reader[m] \notin {"reading", "failed"}
      BY <2>3, <2>4 DEF InCharge, Succession
    <3>5. \A m \in Epochs : rec'[m] = "connected" => m = n
      BY <3>3 DEF InCharge
    <3>6. \A m \in Epochs : rec'[m] = "dialing" => rec[m] = "dialing"
      BY <3>1 DEF TypeOK
    <3>7. QED
      BY <2>3, <3>1, <3>2, <3>3, <3>4, <3>5, <3>6 DEF Handover
  <2>6. FlagHasOwner'
    BY <1>13 DEF DialSucceeds, FlagHasOwner, TypeOK
  <2>7. QED
    BY <2>1, <2>2, <2>5, <2>6
<1>14. ASSUME NEW n \in Epochs, Launch(n) PROVE LinkInv'
  <2>1. rec[n] = "connected" /\ InCharge(n) /\ cancel = n /\ conn = n + 1 /\ n + 1 \in Epochs
    BY <1>14 DEF Launch, InCharge, Handover, TypeOK
  <2>2. TypeOK'
    BY <1>14, <2>1 DEF TypeOK, Launch, sendVars
  <2>3. \A m \in Epochs : InCharge(m) => m = n
    BY <2>1 DEF Handover
  <2>4. reader[n] = "gone" /\ \A m \in Epochs : m > n => reader[m] = "none"
    BY <2>1 DEF Succession
  <2>5. Succession'
    BY <1>14, <2>1, <2>4 DEF Launch, Succession, TypeOK
  <2>6. rec[n + 1] = "none" /\ ~ cancelled[n + 1]
    BY <2>1, <2>4 DEF Succession, Handover
  <2>7. Handover'
    BY <1>14, <2>1, <2>3, <2>4, <2>6 DEF Launch, Handover, InCharge, TypeOK
  <2>8. FlagHasOwner'
    BY <1>14, <2>1 DEF Launch, FlagHasOwner, TypeOK
  <2>9. QED
    BY <2>2, <2>5, <2>7, <2>8
<1>15. ASSUME NEW n \in Epochs, Finish(n) PROVE LinkInv'
  <2>1. TypeOK'
    BY <1>15 DEF TypeOK, Finish, taskVars, sendVars
  <2>2. Succession' /\ Handover' /\ FlagHasOwner'
    BY <1>15 DEF Finish, taskVars, Succession, Handover, FlagHasOwner, InCharge, TypeOK
  <2>3. QED
    BY <2>1, <2>2
<1>16. CASE UNCHANGED vars
  BY <1>16 DEF vars, TypeOK, Succession, Handover, FlagHasOwner, InCharge
<1>17. QED
  BY <1>1, <1>2, <1>3, <1>4, <1>5, <1>6, <1>7, <1>8, <1>9, <1>10, <1>11, <1>12, <1>13,
     <1>14, <1>15, <1>16 DEF Next, Beat, Reader, Rec

\* The first connection with its two goroutines satisfies it.
LEMMA LinkInit == Init => LinkInv
<1> SUFFICES ASSUME Init PROVE LinkInv
  OBVIOUS
<1> USE LinkAssumption DEF Init, Epochs
<1>1. TypeOK
  <2>1. conn \in Epochs /\ cancel \in Epochs /\ tries \in 0 .. MaxRetry + 1 /\ keeping \in {Nobody}
    OBVIOUS
  <2>2. /\ reader \in [Epochs -> {"none", "reading", "failed", "gone"}]
        /\ beat \in [Epochs -> {"none", "sleeping", "resending", "gone"}]
        /\ rec \in [Epochs -> {"none", "started", "dialing", "connected", "launched", "done", "gaveUp"}]
    OBVIOUS
  <2>3. up \in [Epochs -> BOOLEAN] /\ cancelled \in [Epochs -> BOOLEAN]
    OBVIOUS
  <2>4. snap \in [Epochs -> Seq(Events)] /\ failures \in Seq(Events)
    OBVIOUS
  <2>5. QED
    BY <2>1, <2>2, <2>3, <2>4 DEF TypeOK
<1>2. Succession /\ FlagHasOwner
  BY DEF Succession, FlagHasOwner
<1>3. Handover
  BY DEF Handover, InCharge
<1>4. QED
  BY <1>1, <1>2, <1>3 DEF LinkInv

\* The invariant holds in every reachable state.
LEMMA LinkInvariant == Spec => []LinkInv
  BY LinkInit, LinkStep, PTL DEF Spec

\* Types: the retry counter included, which stops one above reconnect_times.
THEOREM LinkTypeCorrect == Spec => []TypeOK
<1>1. LinkInv => TypeOK
  BY DEF LinkInv
<1>2. QED
  BY <1>1, LinkInvariant, PTL

\* There are never two in charge of a connection: what Handover says of
\* client.cancel leaves room for one.
THEOREM NeverTwoInCharge == Spec => []OneInCharge
<1>1. LinkInv => OneInCharge
  BY DEF LinkInv, Handover, OneInCharge
<1>2. QED
  BY <1>1, LinkInvariant, PTL

\* While a reader reads, the connection written to is its own, its heartbeat
\* runs, and no other context is live.
THEOREM ReadingIsAlwaysWhole == Spec => []ReadingIsWhole
<1>1. LinkInv => ReadingIsWhole
  <2> SUFFICES ASSUME LinkInv, NEW n \in Epochs, reader[n] = "reading"
               PROVE  /\ conn = n /\ cancel = n
                      /\ beat[n] \in {"sleeping", "resending"}
                      /\ \A m \in Epochs : ~cancelled[m] => m = n \/ beat[m] = "none"
    BY DEF ReadingIsWhole
  <2>1. InCharge(n) /\ cancel = n /\ conn = n
    BY DEF LinkInv, Handover, InCharge
  <2>2. beat[n] \in {"sleeping", "resending"}
    BY DEF LinkInv, Handover, TypeOK
  <2>3. ASSUME NEW m \in Epochs, ~ cancelled[m]
        PROVE  m = n \/ beat[m] = "none"
    <3>1. reader[m] \in {"none", "reading"}
      BY <2>3 DEF LinkInv, Handover, TypeOK
    <3>2. QED
      BY <2>1, <3>1 DEF LinkInv, Handover, InCharge
  <2>4. QED
    BY <2>1, <2>2, <2>3
<1>2. QED
  BY <1>1, LinkInvariant, PTL

\* isReconnecting is never left set by a Reconnect that came to its end.
THEOREM FlagAlwaysHasOwner == Spec => []FlagHasOwner
<1>1. LinkInv => FlagHasOwner
  BY DEF LinkInv
<1>2. QED
  BY <1>1, LinkInvariant, PTL

=============================================================================
