-------------------------- MODULE Services_proofs ---------------------------
(****************************************************************************)
(* The other parts that share no state, from the secrets of the callback    *)
(* server to the actions over the links, in the same way; then that         *)
(* Services implements every part.                                          *)
(****************************************************************************)
EXTENDS Services, Store_proofs

-----------------------------------------------------------------------------
(* Default replies: counting them on a day.                                 *)

\* Nobody has read more than was spent; calls that read the count of a day at
\* once have met, and what the others have counted is never taken back: each
\* count that is stored or read includes it.
QuoBound == \A c \in QuoCalls : quoPc[c] = "read" => quoRead[c] <= quoSpent[quoKey[c]]
QuoIncludes(d) ==
    /\ quoAlone[d] <= quoCount[d] /\ quoCount[d] <= QuoLimit
    /\ \A c \in QuoReaders(d) : quoAlone[d] <= quoRead[c]
    /\ \A c, o \in QuoReaders(d) : c = o \/ c \in quoMet
QuoFull(d) == /\ quoCount[d] <= quoSpent[d]
              /\ d \in quoEmpty => quoSpent[d] >= QuoLimit
QuoInv == QuoTypeOK /\ QuoBound /\ \A d \in 1 .. QuoDays : QuoIncludes(d) /\ QuoFull(d)

\* Initially nothing was counted.
LEMMA QuoInvInit == QuoInit => QuoInv
BY QuoAssumption DEF QuoInit, QuoInv, QuoTypeOK, QuoBound, QuoIncludes, QuoFull, QuoReaders

\* Whatever the calls do keeps the counts what they are said to be.
LEMMA QuoInvStep == QuoInv /\ [QuoNext]_quoVars => QuoInv'
<1> SUFFICES ASSUME QuoInv, [QuoNext]_quoVars PROVE QuoInv'
  OBVIOUS
<1>0. QuoTypeOK /\ QuoBound /\ \A d \in 1 .. QuoDays : QuoIncludes(d) /\ QuoFull(d)
  BY DEF QuoInv
<1>1. CASE QuoMidnight
  <2>1. QuoTypeOK'
    BY <1>0, <1>1, QuoAssumption DEF QuoMidnight, quoLocal, quoHistory, QuoTypeOK
  <2> QED
    BY <1>0, <1>1, <2>1
    DEF QuoMidnight, quoLocal, quoHistory, QuoInv, QuoBound, QuoIncludes, QuoFull, QuoReaders
<1>2. ASSUME NEW c \in QuoCalls, QuoLoad(c) PROVE QuoInv'
  <2>1. QuoTypeOK'
    BY <1>0, <1>2 DEF QuoLoad, QuoTypeOK, QuoReaders
  <2>2. QuoBound'
    BY <1>0, <1>2 DEF QuoLoad, QuoTypeOK, QuoBound, QuoFull
  <2>3. ASSUME NEW d \in 1 .. QuoDays PROVE QuoIncludes(d)'
    <3>1. \A o \in QuoCalls :
              o # c => (o \in QuoReaders(d)' <=> o \in QuoReaders(d)) /\ quoRead'[o] = quoRead[o]
      BY <1>0, <1>2 DEF QuoLoad, QuoTypeOK, QuoReaders
    <3>2. c \in QuoReaders(d)' => d = quoDay /\ quoRead'[c] = quoCount[d]
      BY <1>0, <1>2 DEF QuoLoad, QuoTypeOK, QuoReaders
    <3>3. /\ \A o \in QuoCalls : o \in quoMet => o \in quoMet'
          /\ d = quoDay => \A o \in QuoReaders(d) : o \in quoMet' /\ c \in quoMet'
      BY <1>2 DEF QuoLoad
    <3>4. quoCount' = quoCount /\ quoAlone' = quoAlone
      BY <1>2 DEF QuoLoad
    <3>5. QuoReaders(d)' \subseteq QuoCalls /\ QuoReaders(d) \subseteq QuoCalls
      BY DEF QuoReaders
    <3>6. \A o \in QuoReaders(d)' : quoAlone[d] <= quoRead'[o]
      BY <1>0, <3>1, <3>2, <3>5 DEF QuoIncludes
    <3>7. \A o, p \in QuoReaders(d)' : o = p \/ o \in quoMet'
      BY <1>0, <3>1, <3>2, <3>3, <3>5 DEF QuoIncludes
    <3> QED BY <1>0, <3>4, <3>6, <3>7 DEF QuoIncludes
  <2>4. \A d \in 1 .. QuoDays : QuoFull(d)'
    BY <1>0, <1>2 DEF QuoLoad, QuoFull
  <2> QED BY <2>1, <2>2, <2>3, <2>4 DEF QuoInv
<1>3. ASSUME NEW c \in QuoCalls, QuoRefuse(c) PROVE QuoInv'
  <2>1. QuoTypeOK'
    BY <1>0, <1>3 DEF QuoRefuse, QuoTypeOK
  <2>2. quoPc'[c] = "done" /\ \A o \in QuoCalls : o # c => quoPc'[o] = quoPc[o]
    BY <1>0, <1>3 DEF QuoRefuse, QuoTypeOK
  <2>3. /\ quoKey' = quoKey /\ quoRead' = quoRead /\ quoMet' = quoMet
        /\ quoSpent' = quoSpent /\ quoCount' = quoCount /\ quoAlone' = quoAlone
    BY <1>3 DEF QuoRefuse
  <2>4. QuoBound'
    BY <1>0, <2>2, <2>3 DEF QuoBound
  <2>5. \A d \in 1 .. QuoDays : QuoIncludes(d)'
    <3>1. \A d \in 1 .. QuoDays : QuoReaders(d)' \subseteq QuoReaders(d)
      BY <2>2, <2>3 DEF QuoReaders
    <3> QED BY <1>0, <2>3, <3>1 DEF QuoIncludes
  <2>6. quoSpent[quoKey[c]] >= QuoLimit
    BY <1>0, <1>3, QuoAssumption DEF QuoRefuse, QuoBound, QuoTypeOK
  <2>7. \A d \in 1 .. QuoDays : QuoFull(d)'
    BY <1>0, <1>3, <2>3, <2>6 DEF QuoRefuse, QuoFull
  <2> QED BY <2>1, <2>4, <2>5, <2>7 DEF QuoInv
<1>4. ASSUME NEW c \in QuoCalls, QuoStore(c) PROVE QuoInv'
  <2> DEFINE k == quoKey[c]
  <2>0. /\ quoPc[c] = "read" /\ quoRead[c] < QuoLimit /\ quoRead[c] \in Nat
        /\ k \in 1 .. QuoDays /\ quoRead[c] <= quoSpent[k] /\ quoSpent[k] \in Nat
        /\ c \in QuoReaders(k)
    BY <1>0, <1>4 DEF QuoStore, QuoTypeOK, QuoBound, QuoReaders
  <2>1. /\ quoCount' = [quoCount EXCEPT ![k] = quoRead[c] + 1]
        /\ quoSpent' = [quoSpent EXCEPT ![k] = quoSpent[k] + 1]
        /\ quoAlone' = IF c \in quoMet THEN quoAlone ELSE [quoAlone EXCEPT ![k] = quoAlone[k] + 1]
        /\ quoPc' = [quoPc EXCEPT ![c] = "done"]
        /\ quoDay' = quoDay /\ quoKey' = quoKey /\ quoRead' = quoRead
        /\ quoEmpty' = quoEmpty /\ quoMet' = quoMet
    BY <1>4 DEF QuoStore, QuoSpend
  <2> HIDE DEF k
  <2>2. QuoTypeOK'
    <3>1. quoAlone[k] \in Nat
      BY <1>0, <2>0 DEF QuoTypeOK
    <3>2. quoRead[c] + 1 \in Nat /\ quoSpent[k] + 1 \in Nat /\ quoAlone[k] + 1 \in Nat
      BY <2>0, <3>1
    <3> QED BY <1>0, <2>1, <3>2 DEF QuoTypeOK
  <2>3. \A d \in 1 .. QuoDays :
            /\ quoSpent'[d] = IF d = k THEN quoSpent[d] + 1 ELSE quoSpent[d]
            /\ quoCount'[d] = IF d = k THEN quoRead[c] + 1 ELSE quoCount[d]
            /\ quoAlone'[d] = IF d = k /\ c \notin quoMet THEN quoAlone[d] + 1 ELSE quoAlone[d]
            /\ quoSpent[d] \in Nat /\ quoCount[d] \in Nat /\ quoAlone[d] \in Nat
    BY <1>0, <2>1 DEF QuoTypeOK
  <2>4. \A o \in QuoCalls : quoPc'[o] = "read" => o # c /\ quoPc[o] = "read"
    BY <1>0, <2>1 DEF QuoTypeOK
  <2>5. QuoBound'
    BY <1>0, <2>1, <2>3, <2>4 DEF QuoBound, QuoTypeOK
  <2>6. ASSUME NEW d \in 1 .. QuoDays PROVE QuoIncludes(d)' /\ QuoFull(d)'
    <3>0. QuoReaders(d)' \subseteq QuoReaders(d) \ {c} /\ QuoReaders(d) \subseteq QuoCalls
      BY <2>1, <2>4 DEF QuoReaders
    <3>1. CASE d = k
      <4>1. c \notin quoMet => QuoReaders(d)' = {}
        BY <1>0, <2>0, <3>0, <3>1 DEF QuoIncludes
      <4>2. quoAlone'[d] <= quoCount'[d] /\ quoCount'[d] <= QuoLimit
        <5>1. quoAlone[d] <= quoRead[c]
          BY <1>0, <2>0, <3>1 DEF QuoIncludes
        <5> QED BY <2>0, <2>3, <3>1, <5>1, QuoAssumption
      <4>3. \A o \in QuoReaders(d)' : quoAlone'[d] <= quoRead'[o]
        BY <1>0, <2>1, <2>3, <3>0, <4>1 DEF QuoIncludes
      <4>4. \A o, p \in QuoReaders(d)' : o = p \/ o \in quoMet'
        BY <1>0, <2>1, <3>0 DEF QuoIncludes
      <4>5. QuoFull(d)'
        BY <1>0, <2>0, <2>1, <2>3, <3>1, QuoAssumption DEF QuoFull
      <4> QED BY <4>2, <4>3, <4>4, <4>5 DEF QuoIncludes
    <3>2. CASE d # k
      BY <1>0, <2>1, <2>3, <3>0, <3>2 DEF QuoIncludes, QuoFull
    <3> QED BY <3>1, <3>2
  <2> QED BY <2>2, <2>5, <2>6 DEF QuoInv
<1>5. CASE UNCHANGED quoVars
  BY <1>0, <1>5
  DEF quoVars, quoLocal, quoHistory, QuoInv, QuoTypeOK, QuoBound, QuoIncludes, QuoFull, QuoReaders
<1> QED BY <1>1, <1>2, <1>3, <1>4, <1>5 DEF QuoNext

\* Calls that meet no other between reading and storing the count spend no more
\* default replies of a day together than the limit, and nobody is refused before
\* the limit is spent (the counter of DefaultQuota has no lock).
THEOREM QuotaIsKept == QuoSpec => []QuotaKept
<1>1. QuoInv => QuotaKept
  <2> SUFFICES ASSUME QuoInv, NEW d \in 1 .. QuoDays
               PROVE  quoAlone[d] <= QuoLimit /\ (d \in quoEmpty => quoSpent[d] >= QuoLimit)
    BY DEF QuotaKept
  <2>1. quoAlone[d] \in Nat /\ quoCount[d] \in Nat
    BY DEF QuoInv, QuoTypeOK
  <2> QED BY <2>1, QuoAssumption DEF QuoInv, QuoIncludes, QuoFull
<1> QED BY <1>1, QuoInvInit, QuoInvStep, PTL DEF QuoSpec

-----------------------------------------------------------------------------
(* Followers: deliveries of one event, and the echo of the report.          *)

\* Of the deliveries that met no other one reports a user at most, and none does
\* again once an echo is kept; the report is kept sooner or later.
WelOnce(u) ==
    /\ \A d, e \in WelEvents \ welMet : WelReporting(d, u) /\ WelReporting(e, u) => d = e
    /\ \A d \in WelEvents \ welMet :
          WelReporting(d, u) => welReports[u] = IF welPc[d] = "report" THEN 0 ELSE 1
    /\ welReports[u] <= 1
    /\ welReports[u] # 0 => welEcho[u] # WelNone \/ \E d \in WelEvents : WelReporting(d, u)
WelInv == /\ WelTypeOK
          /\ \A d \in WelEvents : welPc[d] \in {"keep", "enter", "wait"} => welKey[d] \in WelEchoes
          /\ \A u \in WelUsers : WelOnce(u)

\* Initially no event was delivered.
LEMMA WelInvInit == WelInit => WelInv
<1>1. 0 \in 0 .. WelMessages
  BY WelAssumption
<1> QED BY <1>1 DEF WelInit, WelInv, WelTypeOK, WelOnce, WelReporting

\* Every step keeps the types.
LEMMA WelTypeStep == WelInv /\ [WelNext]_welVars => WelTypeOK'
<1> SUFFICES ASSUME WelInv, [WelNext]_welVars PROVE WelTypeOK'
  OBVIOUS
<1>0. WelTypeOK
      /\ \A d \in WelEvents : welPc[d] \in {"keep", "enter", "wait"} => welKey[d] \in WelEchoes
  BY DEF WelInv
<1>1. ASSUME NEW d \in WelEvents, WelCheck(d) PROVE WelTypeOK'
  BY <1>0, <1>1 DEF WelCheck, WelTypeOK, WelGoto
<1>2. ASSUME NEW d \in WelEvents, WelReport(d) PROVE WelTypeOK'
  <2>1. <<"echo", welSeq>> \in WelEchoes
    BY <1>0 DEF WelTypeOK, WelEchoes
  <2> QED BY <1>0, <1>2, <2>1 DEF WelReport, WelTypeOK, WelGoto
<1>3. ASSUME NEW d \in WelEvents, WelKeep(d) \/ WelEnter(d) \/ WelTimeout(d) PROVE WelTypeOK'
  <2>1. welKey[d] \in WelEchoes
    BY <1>0, <1>3 DEF WelKeep, WelEnter, WelTimeout
  <2>2. CASE WelKeep(d)
    BY <1>0, <2>1, <2>2 DEF WelKeep, WelTypeOK, WelGoto, welHistory
  <2>3. CASE WelEnter(d) \/ WelTimeout(d)
    BY <1>0, <2>1, <2>3 DEF WelEnter, WelTimeout, WelTypeOK, WelGoto, welHistory
  <2> QED BY <1>3, <2>2, <2>3
<1>4. ASSUME NEW u \in WelUsers, WelReply(u) PROVE WelTypeOK'
  BY <1>0, <1>4 DEF WelReply, WelTypeOK, welLocal
<1>5. ASSUME NEW u \in WelUsers, WelTextWaits(u) \/ WelTextEnds(u) PROVE WelTypeOK'
  BY <1>0, <1>5, WelAssumption DEF WelTextWaits, WelTextEnds, WelTypeOK, welLocal, welHistory
<1>6. CASE UNCHANGED welVars
  BY <1>0, <1>6 DEF welVars, welLocal, welHistory, WelTypeOK
<1> QED BY <1>1, <1>2, <1>3, <1>4, <1>5, <1>6 DEF WelNext

\* Every step keeps the invariant.
LEMMA WelInvStep == WelInv /\ [WelNext]_welVars => WelInv'
<1> SUFFICES ASSUME WelInv, [WelNext]_welVars PROVE WelInv'
  OBVIOUS
<1>0. /\ WelTypeOK
      /\ \A d \in WelEvents : welPc[d] \in {"keep", "enter", "wait"} => welKey[d] \in WelEchoes
      /\ \A u \in WelUsers : WelOnce(u)
  BY DEF WelInv
<1>t. WelTypeOK'
  BY WelTypeStep
<1>1. ASSUME NEW d \in WelEvents, WelCheck(d) PROVE WelInv'
  <2> DEFINE v == welUser[d]
  <2>1. /\ welPc[d] = "none" /\ v \in WelUsers
        /\ welPc'[d] = IF welEcho[v] = WelNone THEN "report" ELSE "enter"
        /\ welKey'[d] = welEcho[v]
        /\ \A o \in WelEvents : o # d => welPc'[o] = welPc[o] /\ welKey'[o] = welKey[o]
        /\ welUser' = welUser /\ welEcho' = welEcho /\ welReports' = welReports
        /\ welMet' = IF \E o \in WelEvents : WelReporting(o, v) THEN welMet \cup {d} ELSE welMet
    BY <1>0, <1>1 DEF WelCheck, WelTypeOK, WelGoto
  <2> HIDE DEF v
  <2>2. welEcho[v] # WelNone => welEcho[v] \in WelEchoes
    BY <1>0, <2>1 DEF WelTypeOK
  <2>3. \A o \in WelEvents : welPc'[o] \in {"keep", "enter", "wait"} => welKey'[o] \in WelEchoes
    BY <1>0, <2>1, <2>2
  <2>4. ASSUME NEW u \in WelUsers PROVE WelOnce(u)'
    <3>0. /\ \A o \in WelEvents : o # d => (WelReporting(o, u)' <=> WelReporting(o, u))
          /\ \A o \in WelEvents : o # d => (o \in welMet' <=> o \in welMet)
          /\ ~WelReporting(d, u) /\ (WelReporting(d, u)' => u = v /\ welPc'[d] = "report")
      BY <2>1 DEF WelReporting, v
    <3>1. CASE WelReporting(d, u)' /\ d \notin welMet'
      <4>1. welEcho[u] = WelNone /\ \A o \in WelEvents : ~WelReporting(o, u)
        BY <2>1, <3>0, <3>1
      <4>2. welReports[u] = 0
        BY <1>0, <4>1 DEF WelOnce
      <4>3. \A o \in WelEvents : WelReporting(o, u)' => o = d
        BY <3>0, <4>1
      <4> QED BY <2>1, <3>0, <3>1, <4>2, <4>3 DEF WelOnce
    <3>2. CASE ~(WelReporting(d, u)' /\ d \notin welMet')
      <4>1. \A o \in WelEvents \ welMet' :
                WelReporting(o, u)' => o \in WelEvents \ welMet /\ WelReporting(o, u) /\ o # d
        BY <3>0, <3>2
      <4>2. \A o \in WelEvents : WelReporting(o, u) => WelReporting(o, u)'
        BY <3>0
      <4> QED BY <1>0, <2>1, <4>1, <4>2 DEF WelOnce
    <3> QED BY <3>1, <3>2
  <2> QED BY <1>t, <2>3, <2>4 DEF WelInv
<1>2. ASSUME NEW d \in WelEvents, WelReport(d) PROVE WelInv'
  <2> DEFINE v == welUser[d]
  <2>1. /\ welPc[d] = "report" /\ v \in WelUsers
        /\ welPc'[d] = "keep" /\ welKey'[d] = <<"echo", welSeq>>
        /\ \A o \in WelEvents : o # d => welPc'[o] = welPc[o] /\ welKey'[o] = welKey[o]
        /\ welUser' = welUser /\ welEcho' = welEcho /\ welMet' = welMet
        /\ \A u \in WelUsers : /\ welReports[u] \in Nat
                               /\ welReports'[u] = IF u = v /\ d \notin welMet THEN welReports[u] + 1
                                                                       ELSE welReports[u]
    BY <1>0, <1>2 DEF WelReport, WelTypeOK, WelGoto
  <2>2. <<"echo", welSeq>> \in WelEchoes
    BY <1>0 DEF WelTypeOK, WelEchoes
  <2>3. \A o \in WelEvents : welPc'[o] \in {"keep", "enter", "wait"} => welKey'[o] \in WelEchoes
    BY <1>0, <2>1, <2>2
  <2>4. ASSUME NEW u \in WelUsers PROVE WelOnce(u)'
    <3>1. \A o \in WelEvents : WelReporting(o, u)' <=> WelReporting(o, u)
      BY <2>1 DEF WelReporting
    <3>2. CASE u = v /\ d \notin welMet
      <4>1. WelReporting(d, u)
        BY <2>1, <3>2 DEF WelReporting
      <4>2. \A o \in WelEvents \ welMet : WelReporting(o, u) => o = d
        BY <1>0, <3>2, <4>1 DEF WelOnce
      <4>3. welReports[u] = 0
        BY <1>0, <2>1, <3>2, <4>1 DEF WelOnce
      <4> QED BY <2>1, <3>1, <3>2, <4>1, <4>2, <4>3 DEF WelOnce
    <3>3. CASE ~(u = v /\ d \notin welMet)
      <4>1. \A o \in WelEvents \ welMet : WelReporting(o, u) => welPc'[o] = welPc[o]
        BY <2>1, <3>3 DEF WelReporting, v
      <4>2. welReports'[u] = welReports[u]
        BY <2>1, <3>3
      <4> QED BY <1>0, <2>1, <3>1, <4>1, <4>2 DEF WelOnce
    <3> QED BY <3>2, <3>3
  <2> QED BY <1>t, <2>3, <2>4 DEF WelInv
<1>3. ASSUME NEW d \in WelEvents, WelKeep(d) PROVE WelInv'
  <2> DEFINE v == welUser[d]
  <2>1. /\ welPc[d] = "keep" /\ v \in WelUsers /\ welPc'[d] = "enter"
        /\ \A o \in WelEvents : o # d => welPc'[o] = welPc[o]
        /\ \A u \in WelUsers : welEcho'[u] = IF u = v THEN welKey[d] ELSE welEcho[u]
        /\ UNCHANGED <<welUser, welKey, welMet, welReports>>
    BY <1>0, <1>3 DEF WelKeep, WelTypeOK, WelGoto, welHistory
  <2>2. welKey[d] \in WelEchoes /\ welKey[d] # WelNone
    BY <1>0, <2>1, WelAssumption
  <2>3. \A o \in WelEvents : welPc'[o] \in {"keep", "enter", "wait"} => welKey'[o] \in WelEchoes
    BY <1>0, <2>1, <2>2
  <2>4. ASSUME NEW u \in WelUsers PROVE WelOnce(u)'
    <3>1. CASE u = v
      <4>1. \A o \in WelEvents : WelReporting(o, u)' => WelReporting(o, u) /\ welPc'[o] = welPc[o]
        BY <2>1 DEF WelReporting
      <4>2. welEcho'[u] # WelNone
        BY <2>1, <2>2, <3>1
      <4> QED BY <1>0, <2>1, <4>1, <4>2 DEF WelOnce
    <3>2. CASE u # v
      <4>1. \A o \in WelEvents : /\ WelReporting(o, u)' <=> WelReporting(o, u)
                                 /\ WelReporting(o, u) => welPc'[o] = welPc[o]
        BY <2>1, <3>2 DEF WelReporting, v
      <4> QED BY <1>0, <2>1, <3>2, <4>1 DEF WelOnce
    <3> QED BY <3>1, <3>2
  <2> QED BY <1>t, <2>3, <2>4 DEF WelInv
<1>4. ASSUME NEW d \in WelEvents, WelEnter(d) \/ WelTimeout(d) PROVE WelInv'
  <2>1. /\ welPc[d] \in {"enter", "wait"} /\ welPc'[d] \in {"wait", "default"}
        /\ \A o \in WelEvents : o # d => welPc'[o] = welPc[o]
        /\ UNCHANGED <<welUser, welKey, welEcho, welMet, welReports>>
    BY <1>0, <1>4 DEF WelEnter, WelTimeout, WelTypeOK, WelGoto, welHistory
  <2> QED BY <1>0, <1>t, <2>1 DEF WelInv, WelOnce, WelReporting
<1>5. ASSUME NEW u \in WelUsers, WelReply(u) \/ WelTextWaits(u) \/ WelTextEnds(u) PROVE WelInv'
  <2>1. UNCHANGED <<welPc, welUser, welKey, welEcho, welMet, welReports>>
    BY <1>5 DEF WelReply, WelTextWaits, WelTextEnds, welLocal, welHistory
  <2> QED BY <1>0, <1>t, <2>1 DEF WelInv, WelOnce, WelReporting
<1>6. CASE UNCHANGED welVars
  BY <1>0, <1>t, <1>6 DEF welVars, welLocal, welHistory, WelInv, WelOnce, WelReporting
<1> QED BY <1>1, <1>2, <1>3, <1>4, <1>5, <1>6 DEF WelNext

\* However often WeChat delivers the event, the deliveries that do not come while
\* another is reporting report the follower once.
THEOREM WelcomeIsReportedOnce == WelSpec => []WelcomedOnce
<1>1. WelInv => WelcomedOnce
  BY DEF WelInv, WelOnce, WelcomedOnce
<1> QED BY <1>1, WelInvInit, WelInvStep, PTL DEF WelSpec

-----------------------------------------------------------------------------
(* The callback server: rotating secrets.                                   *)

\* The server's current secret or the last one is the one WeChat uses, and a
\* request that is to drop a last secret was made with a later one than that.
CbRotationOk ==
    /\ \A k \in CbKinds : /\ cbLast[k] < cbCur[k] /\ 1 <= cbWx[k]
                          /\ cbWx[k] = cbCur[k] \/ cbWx[k] = cbLast[k]
    /\ \A r \in CbReqs, k \in CbKinds :
          /\ cbMade[r][k] <= cbWx[k]
          /\ cbPc[r] = CbDropOf(k) => cbSaw[r] < cbMade[r][k]

\* Behind each comparison the context has the secret the request was made with.
CbContextOk ==
    \A r \in CbReqs :
        /\ cbPc[r] \in {"dropToken", "key", "dropKey", "serve", "answered"}
              => cbCtx[r]["token"] = cbMade[r]["token"]
        /\ cbPc[r] = "dropKey" => cbCtx[r]["key"] = cbMade[r]["key"]
        /\ cbPc[r] \in {"serve", "answered"} /\ cbKind[r] = "aes"
              => cbCtx[r]["key"] = cbMade[r]["key"]
        /\ cbPc[r] = "answered" => cbKind[r] = "aes"
CbInv == CbTypeOK /\ CbRotationOk /\ CbContextOk

\* Initially the secrets are the ones configured.
LEMMA CbInvInit == CbInit => CbInv
<1> SUFFICES ASSUME CbInit PROVE CbInv
  OBVIOUS
<1>1. 0 \in CbSecrets /\ 1 \in CbSecrets
  BY CbAssumption DEF CbSecrets
<1>2. CbTypeOK
  BY <1>1 DEF CbInit, CbTypeOK, CbNone, CbModes
<1>3. CbRotationOk
  BY DEF CbInit, CbRotationOk, CbNone, CbDropOf, CbKinds
<1>4. CbContextOk
  BY DEF CbInit, CbContextOk
<1> QED BY <1>2, <1>3, <1>4 DEF CbInv

\* A new secret moves the current one to the last.
LEMMA CbSetKeeps ==
    ASSUME NEW k \in CbKinds, CbInv, CbSet(k)
    PROVE  CbInv'
<1>0. CbTypeOK /\ CbRotationOk /\ CbContextOk
  BY DEF CbInv
<1>1. /\ cbCur'[k] = cbCur[k] + 1 /\ cbLast'[k] = cbCur[k] /\ cbWx[k] = cbCur[k] /\ cbCur[k] <= CbRotations
      /\ \A j \in CbKinds \ {k} : cbCur'[j] = cbCur[j] /\ cbLast'[j] = cbLast[j]
      /\ UNCHANGED <<cbWx, cbPc, cbMade, cbKind, cbFit, cbSaw, cbCtx>>
  BY <1>0 DEF CbTypeOK, CbSet, cbReq
<1>2. cbCur[k] \in CbSecrets /\ cbCur[k] + 1 \in CbSecrets
  BY <1>0, <1>1, CbAssumption DEF CbTypeOK, CbSecrets
<1>3. CbTypeOK'
  BY <1>0, <1>2 DEF CbTypeOK, CbSet, cbReq
<1>4. CbRotationOk'
  <2>1. \A j \in CbKinds : /\ cbLast'[j] < cbCur'[j] /\ 1 <= cbWx'[j]
                           /\ cbWx'[j] = cbCur'[j] \/ cbWx'[j] = cbLast'[j]
    <3>1. cbCur[k] \in Nat
      BY <1>2, CbAssumption DEF CbSecrets
    <3> QED BY <1>0, <1>1, <3>1 DEF CbRotationOk
  <2> QED BY <1>0, <1>1, <2>1 DEF CbRotationOk
<1>5. CbContextOk'
  BY <1>0, <1>1 DEF CbContextOk
<1> QED BY <1>3, <1>4, <1>5 DEF CbInv

\* WeChat changes to the secret that was set.
LEMMA CbSwitchKeeps ==
    ASSUME NEW k \in CbKinds, CbInv, CbSwitch(k)
    PROVE  CbInv'
<1>0. CbTypeOK /\ CbRotationOk /\ CbContextOk
  BY DEF CbInv
<1>1. /\ cbWx'[k] = cbCur[k] /\ cbWx[k] # cbCur[k]
      /\ \A j \in CbKinds \ {k} : cbWx'[j] = cbWx[j]
      /\ UNCHANGED <<cbCur, cbLast, cbPc, cbMade, cbKind, cbFit, cbSaw, cbCtx>>
  BY <1>0 DEF CbTypeOK, CbSwitch, cbReq
<1>2. CbTypeOK'
  BY <1>0 DEF CbTypeOK, CbSwitch, cbReq
<1>3. cbWx[k] <= cbWx'[k]
  <2>1. cbCur[k] \in Nat /\ cbLast[k] \in Nat /\ cbWx[k] \in Nat
    BY <1>0, CbAssumption DEF CbTypeOK, CbSecrets
  <2> QED BY <1>0, <1>1, <2>1 DEF CbRotationOk
<1>4. CbRotationOk'
  <2>1. \A j \in CbKinds : cbWx[j] <= cbWx'[j] /\ cbWx[j] \in Nat /\ cbWx'[j] \in Nat
    <3>1. \A j \in CbKinds : cbWx[j] \in Nat /\ cbWx'[j] \in Nat
      BY <1>0, <1>2, CbAssumption DEF CbTypeOK, CbSecrets
    <3> QED BY <1>1, <1>3, <3>1
  <2>2. \A r \in CbReqs, j \in CbKinds : cbMade[r][j] \in Nat
    BY <1>0, CbAssumption DEF CbTypeOK, CbSecrets
  <2>3. \A r \in CbReqs, j \in CbKinds : cbMade[r][j] <= cbWx'[j]
    BY <1>0, <2>1, <2>2 DEF CbRotationOk
  <2>4. \A j \in CbKinds : 1 <= cbWx'[j] /\ (cbWx'[j] = cbCur[j] \/ cbWx'[j] = cbLast[j])
    BY <1>0, <1>1, <2>1 DEF CbRotationOk
  <2> QED BY <1>0, <1>1, <2>3, <2>4 DEF CbRotationOk
<1>5. CbContextOk'
  BY <1>0, <1>1 DEF CbContextOk
<1> QED BY <1>2, <1>4, <1>5 DEF CbInv

\* A request is made with the secret of that moment.
LEMMA CbSendKeeps ==
    ASSUME NEW r \in CbReqs, CbInv, CbSend(r)
    PROVE  CbInv'
<1>0. CbTypeOK /\ CbRotationOk /\ CbContextOk
  BY DEF CbInv
<1>1. /\ cbPc'[r] = "token" /\ cbMade'[r] = cbWx
      /\ \A o \in CbReqs \ {r} : cbPc'[o] = cbPc[o] /\ cbMade'[o] = cbMade[o] /\ cbKind'[o] = cbKind[o]
      /\ UNCHANGED <<cbCur, cbLast, cbWx, cbSaw, cbCtx>>
  BY <1>0 DEF CbTypeOK, CbSend
<1>2. CbTypeOK'
  BY <1>0 DEF CbTypeOK, CbSend
<1>3. \A k \in CbKinds : cbWx[k] \in Nat
  BY <1>0, CbAssumption DEF CbTypeOK, CbSecrets
<1>4. CbRotationOk'
  BY <1>0, <1>1, <1>3 DEF CbRotationOk, CbDropOf
<1>5. CbContextOk'
  BY <1>0, <1>1 DEF CbContextOk
<1> QED BY <1>2, <1>4, <1>5 DEF CbInv

\* A comparison that succeeds has found the secret the request was made with.
LEMMA CbCompareKeeps ==
    ASSUME NEW r \in CbReqs, NEW k \in CbKinds, CbInv, CbCompare(r, k)
    PROVE  CbInv'
<1>0. CbTypeOK /\ CbRotationOk /\ CbContextOk
  BY DEF CbInv
<1> DEFINE current == cbMade[r][k] = cbCur[k]
           drop == current /\ cbLast[k] # 0
<1>1. /\ cbPc[r] = k
      /\ cbSaw' = [cbSaw EXCEPT ![r] = IF drop THEN cbLast[k] ELSE 0]
      /\ cbPc' = [cbPc EXCEPT ![r] = IF drop THEN CbDropOf(k)
                                     ELSE IF current \/ cbMade[r][k] = cbLast[k]
                                     THEN CbAfter(r, k) ELSE "rejected"]
      /\ cbCtx' = [cbCtx EXCEPT ![r][k] = IF current THEN cbCur[k] ELSE cbLast[k]]
      /\ UNCHANGED <<cbCur, cbLast, cbWx, cbMade, cbKind, cbFit>>
  BY DEF CbCompare, CbGo, cbReq
<1>2. cbLast[k] \in CbSecrets /\ cbCur[k] \in CbSecrets /\ 0 \in CbSecrets
  BY <1>0, CbAssumption DEF CbTypeOK, CbSecrets
<1>3. CbTypeOK'
  BY <1>0, <1>1, <1>2 DEF CbTypeOK, CbDropOf, CbAfter, CbEnds
<1>4. /\ \A o \in CbReqs \ {r} : cbPc'[o] = cbPc[o] /\ cbSaw'[o] = cbSaw[o] /\ cbCtx'[o] = cbCtx[o]
      /\ \A j \in CbKinds \ {k} : cbCtx'[r][j] = cbCtx[r][j]
      /\ cbPc'[r] # "rejected" => cbCtx'[r][k] = cbMade[r][k]
      /\ cbPc'[r] \in {"rejected", CbDropOf(k), CbAfter(r, k)}
      /\ cbPc'[r] = CbDropOf(k) => cbSaw'[r] = cbLast[k] /\ cbMade[r][k] = cbCur[k]
  BY <1>0, <1>1 DEF CbTypeOK, CbDropOf, CbAfter, CbKinds
<1>5. CbRotationOk'
  <2>1. \A j \in CbKinds : cbPc'[r] = CbDropOf(j) => cbSaw'[r] < cbMade[r][j]
    BY <1>0, <1>4 DEF CbRotationOk, CbDropOf, CbAfter, CbKinds
  <2> QED BY <1>0, <1>1, <1>4, <2>1 DEF CbRotationOk
<1>6. CbContextOk'
  BY <1>0, <1>1, <1>4 DEF CbContextOk, CbKinds, CbDropOf, CbAfter
<1> QED BY <1>3, <1>5, <1>6 DEF CbInv

\* The last secret is dropped by a request made with the current one.
LEMMA CbDropKeeps ==
    ASSUME NEW r \in CbReqs, NEW k \in CbKinds, CbInv, CbDrop(r, k)
    PROVE  CbInv'
<1>0. CbTypeOK /\ CbRotationOk /\ CbContextOk
  BY DEF CbInv
<1>1. /\ cbPc[r] = CbDropOf(k) /\ cbPc'[r] = CbAfter(r, k)
      /\ \A o \in CbReqs \ {r} : cbPc'[o] = cbPc[o] /\ cbSaw'[o] = cbSaw[o]
      /\ \A j \in CbKinds \ {k} : cbLast'[j] = cbLast[j]
      /\ cbLast'[k] = cbLast[k] \/ (cbLast'[k] = 0 /\ cbLast[k] = cbSaw[r])
      /\ UNCHANGED <<cbCur, cbWx, cbMade, cbKind, cbFit, cbCtx>>
  <2>1. /\ cbPc[r] = CbDropOf(k) /\ cbPc' = [cbPc EXCEPT ![r] = CbAfter(r, k)]
        /\ cbSaw' = [cbSaw EXCEPT ![r] = 0]
        /\ UNCHANGED <<cbCur, cbWx, cbMade, cbKind, cbFit, cbCtx>>
    BY DEF CbDrop, cbReq
  <2>2. \/ cbLast[k] = cbSaw[r] /\ cbLast' = [cbLast EXCEPT ![k] = 0]
        \/ cbLast' = cbLast
    BY DEF CbDrop
  <2>3. /\ \A j \in CbKinds \ {k} : cbLast'[j] = cbLast[j]
        /\ cbLast'[k] = cbLast[k] \/ (cbLast'[k] = 0 /\ cbLast[k] = cbSaw[r])
    BY <1>0, <2>2 DEF CbTypeOK
  <2>4. /\ cbPc'[r] = CbAfter(r, k)
        /\ \A o \in CbReqs \ {r} : cbPc'[o] = cbPc[o] /\ cbSaw'[o] = cbSaw[o]
    BY <1>0, <2>1 DEF CbTypeOK
  <2> QED BY <2>1, <2>3, <2>4
<1>2. 0 \in CbSecrets
  BY CbAssumption DEF CbSecrets
<1>3. CbTypeOK'
  BY <1>0, <1>2 DEF CbTypeOK, CbDrop, CbAfter, CbEnds, cbReq
<1>4. cbLast'[k] # cbLast[k] => cbWx[k] = cbCur[k]
  <2>1. cbLast[k] \in Nat /\ cbWx[k] \in Nat /\ cbMade[r][k] \in Nat /\ cbSaw[r] \in Nat
    BY <1>0, CbAssumption DEF CbTypeOK, CbSecrets
  <2> QED BY <1>0, <1>1, <2>1 DEF CbRotationOk
<1>5. CbRotationOk'
  <2>1. \A j \in CbKinds : cbLast'[j] < cbCur[j] /\ (cbWx[j] = cbCur[j] \/ cbWx[j] = cbLast'[j])
    <3>1. cbCur[k] \in Nat /\ cbWx[k] \in Nat /\ cbLast[k] \in Nat
      BY <1>0, CbAssumption DEF CbTypeOK, CbSecrets
    <3> QED BY <1>0, <1>1, <1>4, <3>1 DEF CbRotationOk
  <2>2. \A j \in CbKinds : cbPc'[r] # CbDropOf(j)
    BY <1>1 DEF CbDropOf, CbAfter
  <2> QED BY <1>0, <1>1, <2>1, <2>2 DEF CbRotationOk
<1>6. CbContextOk'
  BY <1>0, <1>1 DEF CbContextOk, CbKinds, CbDropOf, CbAfter
<1> QED BY <1>3, <1>5, <1>6 DEF CbInv

\* Requests that end.
LEMMA CbEndsKeep ==
    ASSUME NEW r \in CbReqs, CbInv, CbAnswer(r) \/ CbEnd(r)
    PROVE  CbInv'
<1>0. CbTypeOK /\ CbRotationOk /\ CbContextOk
  BY DEF CbInv
<1>1. CASE CbAnswer(r)
  <2>1. /\ cbPc[r] = "serve" /\ cbPc'[r] \in {"over", "answered"}
        /\ cbPc'[r] = "answered" => cbKind[r] = "aes"
        /\ \A o \in CbReqs \ {r} : cbPc'[o] = cbPc[o]
        /\ UNCHANGED <<cbCur, cbLast, cbWx, cbMade, cbKind, cbFit, cbSaw, cbCtx>>
    BY <1>0, <1>1 DEF CbTypeOK, CbAnswer, cbReq
  <2>2. CbTypeOK'
    BY <1>0, <1>1 DEF CbTypeOK, CbAnswer, CbEnds, cbReq
  <2>3. CbRotationOk'
    BY <1>0, <2>1 DEF CbRotationOk, CbDropOf
  <2>4. CbContextOk'
    BY <1>0, <2>1 DEF CbContextOk
  <2> QED BY <2>2, <2>3, <2>4 DEF CbInv
<1>2. CASE CbEnd(r)
  <2>1. /\ cbPc'[r] = "idle" /\ cbMade'[r] = CbNone
        /\ \A o \in CbReqs \ {r} : /\ cbPc'[o] = cbPc[o] /\ cbMade'[o] = cbMade[o]
                                   /\ cbKind'[o] = cbKind[o] /\ cbSaw'[o] = cbSaw[o]
                                   /\ cbCtx'[o] = cbCtx[o]
        /\ UNCHANGED <<cbCur, cbLast, cbWx>>
    BY <1>0, <1>2 DEF CbTypeOK, CbEnd
  <2>2. CbTypeOK'
    <3>1. 0 \in CbSecrets /\ CbNone \in [CbKinds -> CbSecrets]
      BY CbAssumption DEF CbSecrets, CbNone
    <3> QED BY <1>0, <1>2, <3>1 DEF CbTypeOK, CbEnd, CbModes
  <2>3. CbRotationOk'
    <3>1. \A k \in CbKinds : CbNone[k] = 0 /\ cbWx[k] \in Nat
      BY <1>0, CbAssumption DEF CbTypeOK, CbSecrets, CbNone
    <3> QED BY <1>0, <2>1, <3>1 DEF CbRotationOk, CbDropOf
  <2>4. CbContextOk'
    BY <1>0, <2>1 DEF CbContextOk
  <2> QED BY <2>2, <2>3, <2>4 DEF CbInv
<1> QED BY <1>1, <1>2

\* Every step keeps the invariant.
LEMMA CbInvNext == CbInv /\ [CbNext]_cbVars => CbInv'
<1> SUFFICES ASSUME CbInv, [CbNext]_cbVars PROVE CbInv'
  OBVIOUS
<1>1. CASE CbSetToken \/ CbSetAESKey
  BY <1>1, CbSetKeeps DEF CbSetToken, CbSetAESKey, CbKinds
<1>2. ASSUME NEW k \in CbKinds, CbSwitch(k) PROVE CbInv'
  BY <1>2, CbSwitchKeeps
<1>3. ASSUME NEW r \in CbReqs, CbSend(r) PROVE CbInv'
  BY <1>3, CbSendKeeps
<1>4. ASSUME NEW r \in CbReqs, CbAnswer(r) \/ CbEnd(r) PROVE CbInv'
  BY <1>4, CbEndsKeep
<1>5. ASSUME NEW r \in CbReqs, NEW k \in CbKinds, CbCompare(r, k) PROVE CbInv'
  BY <1>5, CbCompareKeeps
<1>6. ASSUME NEW r \in CbReqs, NEW k \in CbKinds, CbDrop(r, k) PROVE CbInv'
  BY <1>6, CbDropKeeps
<1>7. CASE UNCHANGED cbVars
  BY <1>7 DEF CbInv, CbTypeOK, CbRotationOk, CbContextOk, cbVars, cbReq
<1> QED BY <1>1, <1>2, <1>3, <1>4, <1>5, <1>6, <1>7 DEF CbNext

\* An answer is sealed with the secret its request was sealed with, whatever was
\* rotated in between.
THEOREM AnswersAreReadable == CbSpec => []AnsweredReadably
<1>1. CbInv => AnsweredReadably
  <2> SUFFICES ASSUME CbInv, NEW r \in CbReqs, cbPc[r] = "answered" PROVE cbCtx[r] = cbMade[r]
    BY DEF AnsweredReadably
  <2>1. cbCtx[r] \in [CbKinds -> CbSecrets] /\ cbMade[r] \in [CbKinds -> CbSecrets]
    BY DEF CbInv, CbTypeOK
  <2>2. \A k \in CbKinds : cbCtx[r][k] = cbMade[r][k]
    BY DEF CbInv, CbContextOk, CbKinds
  <2> QED BY <2>1, <2>2
<1> QED BY <1>1, CbInvInit, CbInvNext, PTL DEF CbSpec

\* A request is rejected only when its secret is neither the current one nor the
\* last one, or was dropped meanwhile.
THEOREM OnlyOutdatedAreRejected == CbSpec => RejectedOnlyOutdated
<1>1. CbInv /\ [CbNext]_cbVars =>
        [\A r \in CbReqs, k \in CbKinds :
            (cbPc[r] = k /\ cbPc'[r] = "rejected") => cbMade[r][k] # cbWx[k]]_cbVars
  <2> SUFFICES ASSUME CbInv, CbNext, NEW r \in CbReqs, NEW k \in CbKinds,
                      cbPc[r] = k, cbPc'[r] = "rejected"
               PROVE  cbMade[r][k] # cbWx[k]
    BY Zenon
  <2>0. CbTypeOK /\ CbRotationOk
    BY DEF CbInv
  <2>1. CASE CbSetToken \/ CbSetAESKey
    BY <2>1 DEF CbSetToken, CbSetAESKey, CbSet, CbKinds
  <2>2. ASSUME NEW j \in CbKinds, CbSwitch(j) PROVE FALSE
    BY <2>2 DEF CbSwitch, CbKinds
  <2>3. ASSUME NEW o \in CbReqs, CbSend(o) \/ CbAnswer(o) \/ CbEnd(o) PROVE FALSE
    BY <2>0, <2>3 DEF CbTypeOK, CbSend, CbAnswer, CbEnd, CbKinds
  <2>4. ASSUME NEW o \in CbReqs, NEW j \in CbKinds, CbDrop(o, j) PROVE FALSE
    BY <2>0, <2>4 DEF CbTypeOK, CbDrop, CbAfter, CbKinds, CbDropOf
  <2>5. ASSUME NEW o \in CbReqs, NEW j \in CbKinds, CbCompare(o, j)
        PROVE  cbMade[r][k] # cbCur[k] /\ cbMade[r][k] # cbLast[k]
    BY <2>0, <2>5 DEF CbTypeOK, CbCompare, CbGo, CbAfter, CbKinds, CbDropOf
  <2>6. cbWx[k] = cbCur[k] \/ cbWx[k] = cbLast[k]
    BY <2>0 DEF CbRotationOk
  <2> QED BY <2>1, <2>2, <2>3, <2>4, <2>5, <2>6 DEF CbNext
<1> QED BY <1>1, CbInvInit, CbInvNext, PTL DEF CbSpec, RejectedOnlyOutdated

-----------------------------------------------------------------------------
(* The bodies of callbacks: sealing, opening, and buffers that are used     *)
(* again.                                                                   *)

\* Sixteen bytes of noise, four of length, the text and the appid: the parts of
\* what is sealed are where the layout says.
BodLaidOut(content, text, appId, size) ==
    /\ content \in Seq(Nat) /\ Len(content) = 20 + Len(text) + Len(appId)
    /\ SubSeq(content, 17, 20) = size
    /\ SubSeq(content, 21, 20 + Len(text)) = text
    /\ SubSeq(content, 21 + Len(text), Len(content)) = appId
\* The parts of a joined body are where they are read from.
LEMMA BodLayout ==
    \A text, appId, noise, size \in Seq(Nat) : \A content :
        Len(noise) = 16 /\ Len(size) = 4 /\ content = noise \o size \o text \o appId =>
            BodLaidOut(content, text, appId, size)
<1>a. SUFFICES ASSUME NEW text \in Seq(Nat), NEW appId \in Seq(Nat),
                    NEW noise \in Seq(Nat), NEW size \in Seq(Nat), NEW content,
                    Len(noise) = 16 /\ Len(size) = 4 /\ content = noise \o size \o text \o appId
             PROVE  BodLaidOut(content, text, appId, size)
  BY Zenon
<1> DEFINE head == noise \o size
           sealed == head \o text
           n == Len(text)
           k == Len(appId)
<1>0. n \in Nat /\ k \in Nat
  BY <1>a
<1>1. head \in Seq(Nat) /\ Len(head) = 20 /\ \A i \in 1 .. 4 : head[16 + i] = size[i]
  <2>1. /\ head \in Seq(Nat) /\ Len(head) = Len(noise) + Len(size)
        /\ \A i \in 1 .. Len(size) : head[Len(noise) + i] = size[i]
    BY <1>a, JoinsNat
  <2> HIDE DEF head
  <2> QED BY <1>a, <2>1
<1> HIDE DEF head
<1>2. /\ sealed \in Seq(Nat) /\ Len(sealed) = 20 + n
      /\ \A i \in 1 .. 20 : sealed[i] = head[i]
      /\ \A i \in 1 .. n : sealed[20 + i] = text[i]
  <2>1. /\ sealed \in Seq(Nat) /\ Len(sealed) = Len(head) + Len(text)
        /\ \A i \in 1 .. Len(head) : sealed[i] = head[i]
        /\ \A i \in 1 .. Len(text) : sealed[Len(head) + i] = text[i]
    BY <1>a, <1>1, JoinsNat
  <2> HIDE DEF sealed
  <2> QED BY <1>1, <2>1
<1> HIDE DEF sealed
<1>3. /\ content \in Seq(Nat) /\ Len(content) = 20 + n + k
      /\ \A i \in 1 .. 20 + n : content[i] = sealed[i]
      /\ \A i \in 1 .. k : content[20 + n + i] = appId[i]
  <2>1. content = sealed \o appId
    BY <1>a DEF sealed, head
  <2>2. /\ content \in Seq(Nat) /\ Len(content) = Len(sealed) + Len(appId)
        /\ \A i \in 1 .. Len(sealed) : content[i] = sealed[i]
        /\ \A i \in 1 .. Len(appId) : content[Len(sealed) + i] = appId[i]
    <3>1. appId \in Seq(Nat) /\ sealed \in Seq(Nat)
      BY <1>a, <1>2
    <3> QED BY <2>1, <3>1, JoinsNat
  <2> QED BY <1>2, <2>2
<1>4. SubSeq(content, 17, 20) = size
  <2>1. 16 \in Nat /\ 4 \in Nat /\ 16 + 4 <= Len(content) /\ 17 = 16 + 1 /\ 20 = 16 + 4
    BY <1>0, <1>3
  <2>2. /\ SubSeq(content, 17, 20) \in Seq(Nat) /\ Len(SubSeq(content, 17, 20)) = 4
        /\ \A i \in 1 .. 4 : SubSeq(content, 17, 20)[i] = content[16 + i]
    <3>1. content \in Seq(Nat)
      BY <1>3
    <3>2. IsCut(SubSeq(content, 17, 20), content, 16, 4)
      BY <2>1, <3>1, CutsAre
    <3> QED BY <3>2 DEF IsCut
  <2>3. \A i \in 1 .. 4 : 16 + i \in 1 .. 20 /\ 16 + i \in 1 .. 20 + n
    BY <1>0
  <2>4. \A i \in 1 .. 4 : content[16 + i] = size[i]
    <3> SUFFICES ASSUME NEW i \in 1 .. 4 PROVE content[16 + i] = size[i]
      OBVIOUS
    <3>1. content[16 + i] = sealed[16 + i] /\ sealed[16 + i] = head[16 + i] /\ head[16 + i] = size[i]
      BY <1>1, <1>2, <1>3, <2>3
    <3> QED BY <3>1
  <2> DEFINE q == SubSeq(content, 17, 20)
  <2>5. q \in Seq(Nat) /\ Len(q) = Len(size) /\ \A i \in 1 .. Len(q) : q[i] = size[i]
    BY <1>a, <2>2, <2>4, Zenon
  <2> HIDE DEF q
  <2>6. q = size
    BY <2>5, Agree
  <2> QED BY <2>6 DEF q
<1>5. SubSeq(content, 21, 20 + n) = text
  <2> DEFINE q == SubSeq(content, 21, 20 + n)
  <2>1. 20 \in Nat /\ n \in Nat /\ 20 + n <= Len(content) /\ 21 = 20 + 1
    <3> HIDE DEF n, k
    <3> QED BY <1>0, <1>3
  <2>2. q \in Seq(Nat) /\ Len(q) = n /\ \A i \in 1 .. n : q[i] = content[20 + i]
    BY <1>3, <2>1, CutsNat
  <2>3. \A i \in 1 .. n : 20 + i \in 1 .. 20 + n
    BY <1>0
  <2> HIDE DEF q
  <2>4. \A i \in 1 .. n : q[i] = text[i]
    <3> SUFFICES ASSUME NEW i \in 1 .. n PROVE q[i] = text[i]
      OBVIOUS
    <3>1. q[i] = content[20 + i] /\ content[20 + i] = sealed[20 + i] /\ sealed[20 + i] = text[i]
      BY <1>2, <1>3, <2>2, <2>3
    <3> QED BY <3>1
  <2>5. q = text
    BY <2>2, <2>4, Agree DEF n
  <2> QED BY <2>5 DEF q
<1>6. SubSeq(content, 21 + n, Len(content)) = appId
  <2> DEFINE q == SubSeq(content, 21 + n, Len(content))
             h == 20 + n
  <2>1. /\ h \in Nat /\ k \in Nat /\ h + k <= Len(content)
        /\ 21 + n = h + 1 /\ Len(content) = h + k
    <3> HIDE DEF n, k
    <3> QED BY <1>0, <1>3
  <2>2. q \in Seq(Nat) /\ Len(q) = k /\ \A i \in 1 .. k : q[i] = content[h + i]
    <3>1. content \in Seq(Nat)
      BY <1>3
    <3> HIDE DEF h, k
    <3>2. IsCut(q, content, h, k)
      <4> HIDE DEF n
      <4>1. \A from, to : from = h + 1 /\ to = h + k => IsCut(SubSeq(content, from, to), content, h, k)
        BY <2>1, <3>1, CutsAre
      <4> QED BY <2>1, <4>1
    <3> QED BY <3>2 DEF IsCut
  <2> HIDE DEF q
  <2>3. \A i \in 1 .. k : q[i] = appId[i]
    BY <1>3, <2>2
  <2>4. q = appId
    BY <2>2, <2>3, Agree DEF k
  <2> QED BY <2>4 DEF q
<1> QED BY <1>3, <1>4, <1>5, <1>6 DEF BodLaidOut

\* The four bytes of the length give it back.
LEMMA BodLength ==
    ASSUME NEW n \in Nat
    PROVE  BodEncode(n) \in Seq(Nat) /\ Len(BodEncode(n)) = 4 /\ BodDecode(BodEncode(n)) = n
<1> DEFINE a == n \div 256
           b == n \div 65536
           c == n \div 16777216
<1>1. a \in Nat /\ b \in Nat /\ c \in Nat /\ a % 256 \in Nat /\ b % 256 \in Nat /\ n % 256 \in Nat
  BY SMT
<1>2. n = 256 * a + (n % 256) /\ a = 256 * b + (a % 256) /\ b = 256 * c + (b % 256)
  BY SMT
<1>3. BodEncode(n) = <<c, b % 256, a % 256, n % 256>>
  BY SMT DEF BodEncode, a, b, c
<1> DEFINE x == n % 256
           y == a % 256
           z == b % 256
<1>4. x \in Nat /\ y \in Nat /\ z \in Nat
  BY <1>1
<1>5. n = 256 * a + x /\ a = 256 * b + y /\ b = 256 * c + z /\ BodEncode(n) = <<c, z, y, x>>
  BY <1>2, <1>3
<1> HIDE DEF a, b, c, x, y, z
<1>6. n = c * 16777216 + z * 65536 + y * 256 + x
  BY <1>1, <1>4, <1>5, SMT
<1>7. BodDecode(BodEncode(n)) = c * 16777216 + z * 65536 + y * 256 + x
  BY <1>1, <1>4, <1>5, SMT DEF BodDecode
<1>8. <<c, z, y, x>> \in Seq(Nat) /\ Len(<<c, z, y, x>>) = 4
  BY <1>1, <1>4, SMT
<1>9. BodEncode(n) \in Seq(Nat) /\ Len(BodEncode(n)) = 4
  BY <1>5, <1>8, Zenon
<1>10. BodDecode(BodEncode(n)) = n
  BY <1>6, <1>7, SMT
<1> QED BY <1>9, <1>10

\* Whatever is sealed is opened again: the text and the appid come back, for
\* every length, and the padding is told from the content.
LEMMA BodSealOpens ==
    ASSUME NEW text \in Seq(Nat), NEW appId \in Seq(Nat), appId # <<>>
    PROVE  BodOpen(BodSeal(text, appId)) = [text |-> text, appId |-> appId]
<1> DEFINE noise == BodRepeat(7, 16)
           size == BodEncode(Len(text))
           content == noise \o size \o text \o appId
           pad == BodPad(Len(content))
           tail == BodRepeat(pad, pad)
           sealed == content \o tail
           n == Len(text)
           k == Len(appId)
           len == Len(content)
<1>0. n \in Nat /\ k \in Nat /\ k > 0
  OBVIOUS
<1>1. noise \in Seq(Nat) /\ Len(noise) = 16
  BY DEF BodRepeat
<1>2. size \in Seq(Nat) /\ Len(size) = 4 /\ BodDecode(size) = n
  BY BodLength
<1>3. /\ content \in Seq(Nat) /\ len = 20 + n + k
      /\ SubSeq(content, 17, 20) = size
      /\ SubSeq(content, 21, 20 + n) = text
      /\ SubSeq(content, 21 + n, len) = appId
  <2> HIDE DEF noise, size
  <2>1. content = noise \o size \o text \o appId
    OBVIOUS
  <2>2. size \in Seq(Nat) /\ Len(size) = 4
    BY <1>2
  <2> HIDE DEF content, noise, size
  <2>3. noise \in Seq(Nat) /\ text \in Seq(Nat) /\ appId \in Seq(Nat) /\ Len(noise) = 16
    BY <1>1
  <2>4. BodLaidOut(content, text, appId, size)
    BY <2>1, <2>2, <2>3, BodLayout, Zenon
  <2> QED BY <2>4, Zenon DEF BodLaidOut
<1>4. BodSeal(text, appId) = sealed
  BY DEF BodSeal
<1> HIDE DEF noise, size, content
<1>5. pad = 32 - (len % 32)
  BY DEF BodPad, BodBlock
<1> HIDE DEF pad, n, k
<1>5a. pad \in 1 .. 32 /\ (len + pad) % 32 = 0 /\ len \in Nat
  <2>1. len \in Nat
    BY <1>0, <1>3
  <2> HIDE DEF len
  <2> QED BY <1>5, <2>1
<1>6. tail \in Seq(Nat) /\ Len(tail) = pad /\ \A i \in 1 .. pad : tail[i] = pad
  BY <1>5a DEF BodRepeat
<1> HIDE DEF tail
<1>7. /\ sealed \in Seq(Nat) /\ Len(sealed) = len + pad
      /\ \A i \in 1 .. len : sealed[i] = content[i]
      /\ \A i \in 1 .. pad : sealed[len + i] = tail[i]
  <2>1. /\ sealed \in Seq(Nat) /\ Len(sealed) = Len(content) + Len(tail)
        /\ \A i \in 1 .. Len(content) : sealed[i] = content[i]
        /\ \A i \in 1 .. Len(tail) : sealed[Len(content) + i] = tail[i]
    BY <1>3, <1>6, JoinsNat
  <2> QED BY <1>6, <2>1
<1> HIDE DEF sealed
<1>8. Last(sealed) = pad
  <2>1. sealed[len + pad] = pad
    BY <1>5a, <1>6, <1>7
  <2> QED BY <1>7, <2>1 DEF Last
<1>9. SubSeq(sealed, 1, Len(sealed) - pad) = content
  <2> DEFINE q == SubSeq(sealed, 1, len)
  <2>1. /\ Len(sealed) - pad = len /\ 0 \in Nat /\ len \in Nat /\ 0 + len <= Len(sealed)
        /\ 1 = 0 + 1 /\ len = 0 + len
    <3> HIDE DEF len
    <3> QED BY <1>5a, <1>7
  <2>2. q \in Seq(Nat) /\ Len(q) = len /\ \A i \in 1 .. len : q[i] = sealed[0 + i]
    BY <1>7, <2>1, CutsNat
  <2>3. \A i \in 1 .. len : 0 + i = i
    OBVIOUS
  <2> HIDE DEF q
  <2>4. q = content
    BY <1>3, <1>7, <2>2, <2>3, Agree DEF len
  <2> QED BY <2>1, <2>4 DEF q
<1> HIDE DEF len
<1>10. Len(sealed) >= 32 /\ Len(sealed) % 32 = 0
  <2> DEFINE all == Len(sealed)
  <2>1. all \in Nat /\ all % 32 = 0 /\ all > 20
    BY <1>0, <1>3, <1>5a, <1>7
  <2> HIDE DEF all
  <2>2. all >= 32
    BY <2>1
  <2> QED BY <2>1, <2>2 DEF all
<1>11. ~(len <= 20) /\ ~(len <= 20 + n) /\ 20 + n + 1 = 21 + n
  BY <1>0, <1>3
<1>12. ~(Len(sealed) < 32) /\ ~(Len(sealed) % 32 # 0) /\ ~(pad \notin 1 .. 32)
  BY <1>5a, <1>7, <1>10
<1>13. BodOpen(sealed) = [text |-> SubSeq(content, 21, 20 + n),
                          appId |-> SubSeq(content, 20 + n + 1, len)]
  BY <1>2, <1>3, <1>8, <1>9, <1>11, <1>12, Zenon DEF BodOpen, BodBlock, len
<1> QED BY <1>3, <1>4, <1>11, <1>13

-----------------------------------------------------------------------------
\* A request has a message once it is posted, a buffer of its own with the text
\* of that message while it is served, and the message at its handler is its own.
BodHolds == {"read", "parsed", "checked", "serve", "served", "refused"}
BodOwns ==
    \A r \in BodReqs :
        /\ bodPc[r] # "none" => bodMsg[r] \in BodMessages
        /\ bodPc[r] \in BodHolds =>
              /\ bodHas[r] \in BodBuffers /\ bodHas[r] \notin bodPool
              /\ bodText[bodHas[r]] = bodMsg[r]
              /\ \A o \in BodReqs : bodPc[o] \in BodHolds /\ bodHas[o] = bodHas[r] => o = r
BodReads ==
    \A r \in BodReqs :
        /\ bodCopy[r] \in {BodNone, bodMsg[r]}
        /\ bodPc[r] \in {"none", "forward", "arrived"} => bodCopy[r] = BodNone
        /\ bodGot[r] \in {BodNone, bodMsg[r]}
        /\ bodPc[r] \in {"none", "forward", "arrived", "read", "parsed", "checked"} => bodGot[r] = BodNone
        /\ bodPc[r] = "serve" => bodGot[r] = bodMsg[r]
        /\ bodPc[r] = "refused" => bodMsg[r].to # BodAccount
BodAnswers ==
    \A r \in BodReqs :
        /\ bodPc[r] \notin {"served", "done"} => bodAns[r] = BodNone
        /\ bodAns[r] # BodNone =>
              \E m \in BodMessages, k \in {"text", "image", "voice", "news"}, n \in BodSizes :
                  m = bodMsg[r] /\ bodAns[r] = BodAnswerOf(m, k, n)
BodFuns == /\ bodHas \in [BodReqs -> BodBuffers \cup {BodNone}]
           /\ bodCopy \in [BodReqs -> BodMessages \cup {BodNone}]
           /\ DOMAIN bodAns = BodReqs /\ bodAns = [r \in BodReqs |-> bodAns[r]]
BodInv == BodTypeOK /\ BodFuns /\ BodOwns /\ BodReads /\ BodAnswers

\* Initially nothing was sent.
LEMMA BodInvInit == BodInit => BodInv
BY DEF BodInit, BodInv, BodTypeOK, BodFuns, BodOwns, BodReads, BodAnswers, BodHolds

\* The text a request works on is its message, in the buffer or copied.
LEMMA BodTextIsOwn ==
    ASSUME BodInv, NEW r \in BodReqs, bodPc[r] \in BodHolds
    PROVE  BodText(r) = bodMsg[r] /\ bodMsg[r] \in BodMessages
BY BodAssumption DEF BodInv, BodOwns, BodReads, BodText, BodHolds

\* So that what is decrypted is that message again.
LEMMA BodDecrypts ==
    ASSUME NEW m \in BodMessages
    PROVE  /\ BodOpen(BodSeal(BodBytes(m), BodAppId)) = [text |-> BodBytes(m), appId |-> BodAppId]
           /\ BodOpen(BodSeal(BodBytes(m), BodAppId)) # BodNone
<1>1. m.size \in Nat /\ m.mark \in Nat
  <2>1. m \in BodMixed
    BY BodAssumption
  <2> QED BY <2>1 DEF BodMixed
<1>2. BodBytes(m) \in Seq(Nat)
  BY <1>1 DEF BodBytes, BodRepeat
<1>3. BodAppId \in Seq(Nat) /\ BodAppId # <<>>
  <2>1. BodAppId \in Seq(0 .. 255) /\ BodAppId # <<>>
    BY BodAssumption, Zenon
  <2>2. 0 .. 255 \subseteq Nat
    OBVIOUS
  <2> QED BY <2>1, <2>2, SeqMonotonic, Zenon
<1> DEFINE open == [text |-> BodBytes(m), appId |-> BodAppId]
<1>4. BodOpen(BodSeal(BodBytes(m), BodAppId)) = open
  BY <1>2, <1>3, BodSealOpens, Zenon
<1>5. open \in [text : Seq(Nat), appId : Seq(Nat)]
  BY <1>2, <1>3, Zenon
<1>6. open # BodNone
  <2> HIDE DEF open
  <2> QED BY <1>5, BodAssumption, Zenon
<1> HIDE DEF open
<1> QED BY <1>4, <1>6 DEF open

\* A step of r touches r's own row alone.
BodOthers(r) ==
    \A o \in BodReqs \ {r} : /\ bodMsg'[o] = bodMsg[o] /\ bodPc'[o] = bodPc[o] /\ bodHas'[o] = bodHas[o]
                             /\ bodCopy'[o] = bodCopy[o] /\ bodGot'[o] = bodGot[o] /\ bodAns'[o] = bodAns[o]
BodRest == UNCHANGED <<bodMsg, bodVia, bodPool, bodText, bodHas>>

\* A step in which r keeps its message and what it holds: the buffers stay owned.
LEMMA BodOwnsKept ==
    ASSUME NEW r \in BodReqs, BodOwns, BodOthers(r), BodRest,
           bodPc[r] # "none", bodPc'[r] \in BodHolds => bodPc[r] \in BodHolds
    PROVE  BodOwns'
<1>1. \A o \in BodReqs : /\ bodPc'[o] \in BodHolds => bodPc[o] \in BodHolds
                         /\ bodPc'[o] # "none" => bodPc[o] # "none"
  BY DEF BodOthers
<1>2. bodMsg' = bodMsg /\ bodHas' = bodHas /\ bodPool' = bodPool /\ bodText' = bodText
  BY DEF BodRest
<1> QED BY <1>1, <1>2 DEF BodOwns

\* What the other requests have read and answered is as it was.
LEMMA BodRowsKept ==
    ASSUME NEW r \in BodReqs, BodReads, BodAnswers, BodOthers(r),
           /\ bodCopy'[r] \in {BodNone, bodMsg'[r]}
           /\ bodPc'[r] \in {"none", "forward", "arrived"} => bodCopy'[r] = BodNone
           /\ bodGot'[r] \in {BodNone, bodMsg'[r]}
           /\ bodPc'[r] \in {"none", "forward", "arrived", "read", "parsed", "checked"} => bodGot'[r] = BodNone
           /\ bodPc'[r] = "serve" => bodGot'[r] = bodMsg'[r]
           /\ bodPc'[r] = "refused" => bodMsg'[r].to # BodAccount,
           /\ bodPc'[r] \notin {"served", "done"} => bodAns'[r] = BodNone
           /\ bodAns'[r] # BodNone =>
                 \E m \in BodMessages, k \in {"text", "image", "voice", "news"}, n \in BodSizes :
                     m = bodMsg'[r] /\ bodAns'[r] = BodAnswerOf(m, k, n)
    PROVE  BodReads' /\ BodAnswers'
<1>1. BodReads'
  BY DEF BodReads, BodOthers
<1>2. BodAnswers'
  BY DEF BodAnswers, BodOthers
<1> QED BY <1>1, <1>2

\* WeChat seals a request.
LEMMA BodSendKeeps ==
    ASSUME NEW r \in BodReqs, NEW m \in BodMessages, NEW via \in BOOLEAN, BodInv, BodSend(r, m, via)
    PROVE  BodInv'
<1>0. BodTypeOK /\ BodFuns /\ BodOwns /\ BodReads /\ BodAnswers
  BY DEF BodInv
<1>1. /\ bodPc[r] = "none" /\ bodMsg'[r] = m /\ bodPc'[r] \in {"forward", "arrived"}
      /\ \A o \in BodReqs \ {r} : bodMsg'[o] = bodMsg[o] /\ bodPc'[o] = bodPc[o]
      /\ UNCHANGED <<bodPool, bodText, bodHas, bodCopy, bodGot, bodAns>>
  BY <1>0 DEF BodTypeOK, BodSend, bodBuf, bodRead
<1>2. BodTypeOK' /\ BodFuns'
  BY <1>0 DEF BodTypeOK, BodFuns, BodSend, bodBuf, bodRead
<1>3. BodOwns'
  <2>1. \A o \in BodReqs : bodPc'[o] \in BodHolds => o # r /\ bodPc[o] \in BodHolds
    BY <1>1 DEF BodHolds
  <2> QED BY <1>0, <1>1, <2>1 DEF BodOwns
<1>4. bodCopy[r] = BodNone /\ bodGot[r] = BodNone /\ bodAns[r] = BodNone
  BY <1>0, <1>1 DEF BodReads, BodAnswers
<1>5. BodOthers(r)
  BY <1>1 DEF BodOthers
<1>6. BodReads' /\ BodAnswers'
  BY <1>0, <1>1, <1>4, <1>5, BodRowsKept
<1> QED BY <1>2, <1>3, <1>6 DEF BodInv

\* A buffer is taken from the pool, or made.
LEMMA BodTakeKeeps ==
    ASSUME NEW r \in BodReqs, BodInv, BodTake(r)
    PROVE  BodInv'
<1>0. BodTypeOK /\ BodFuns /\ BodOwns /\ BodReads /\ BodAnswers
  BY DEF BodInv
<1>1. PICK b \in bodPool :
          \/ /\ bodPool' = bodPool \ {b}
             /\ bodText' = [bodText EXCEPT ![b] = bodMsg[r]]
             /\ bodHas' = [bodHas EXCEPT ![r] = b]
             /\ bodPc' = [bodPc EXCEPT ![r] = "read"]
          \/ /\ bodText' = [bodText EXCEPT ![b] = BodNone]
             /\ bodPc' = [bodPc EXCEPT ![r] = "failed"]
             /\ bodPool' = bodPool /\ bodHas' = bodHas
  BY DEF BodTake
<1>2. bodPc[r] = "arrived" /\ UNCHANGED <<bodMsg, bodVia, bodCopy, bodGot, bodAns>>
  BY DEF BodTake, bodRead
<1>3. b \in BodBuffers /\ bodMsg[r] \in BodMessages
  BY <1>0, <1>2 DEF BodTypeOK, BodOwns
<1>4. BodTypeOK' /\ BodFuns'
  BY <1>0, <1>1, <1>2, <1>3 DEF BodTypeOK, BodFuns
<1>5. /\ bodPc'[r] \in {"read", "failed"}
      /\ \A o \in BodReqs \ {r} : bodPc'[o] = bodPc[o] /\ bodHas'[o] = bodHas[o]
  BY <1>0, <1>1 DEF BodTypeOK, BodFuns
<1>6. BodOthers(r)
  BY <1>2, <1>5 DEF BodOthers
<1>7. \A o \in BodReqs \ {r} : bodPc[o] \in BodHolds =>
          /\ bodHas[o] # b /\ bodText'[bodHas[o]] = bodText[bodHas[o]] /\ bodHas[o] \notin bodPool'
  BY <1>0, <1>1 DEF BodTypeOK, BodOwns
<1>8. bodPc'[r] \in BodHolds => /\ bodHas'[r] = b /\ b \notin bodPool' /\ bodText'[b] = bodMsg[r]
  BY <1>0, <1>1, <1>3, <1>5 DEF BodTypeOK, BodFuns, BodHolds
<1>9. BodOwns'
  BY <1>0, <1>2, <1>3, <1>5, <1>7, <1>8 DEF BodOwns
<1>10. bodCopy[r] = BodNone /\ bodGot[r] = BodNone /\ bodAns[r] = BodNone
  BY <1>0, <1>2 DEF BodReads, BodAnswers
<1>11. BodReads' /\ BodAnswers'
  BY <1>0, <1>2, <1>5, <1>6, <1>10, BodRowsKept
<1> QED BY <1>4, <1>9, <1>11 DEF BodInv

\* A buffer goes back to the pool.
LEMMA BodReturnKeeps ==
    ASSUME NEW r \in BodReqs, BodInv, BodReturn(r)
    PROVE  BodInv'
<1>0. BodTypeOK /\ BodFuns /\ BodOwns /\ BodReads /\ BodAnswers
  BY DEF BodInv
<1>1. /\ bodPc[r] \in {"served", "refused"}
      /\ bodPc'[r] = IF bodPc[r] = "served" THEN "done" ELSE "failed"
      /\ \A o \in BodReqs \ {r} : bodPc'[o] = bodPc[o]
      /\ bodPool' = bodPool \cup {bodHas[r]}
      /\ UNCHANGED <<bodMsg, bodVia, bodText, bodHas, bodCopy, bodGot, bodAns>>
  BY <1>0 DEF BodTypeOK, BodReturn, bodRead
<1>2. bodPc[r] \in BodHolds /\ bodHas[r] \in BodBuffers
  BY <1>0, <1>1 DEF BodHolds, BodOwns
<1>3. BodTypeOK' /\ BodFuns'
  BY <1>0, <1>2 DEF BodTypeOK, BodFuns, BodReturn, bodRead
<1>4. BodOthers(r)
  BY <1>1 DEF BodOthers
<1>5. BodOwns'
  <2>1. bodPc'[r] \notin BodHolds
    BY <1>1 DEF BodHolds
  <2>2. \A o \in BodReqs : bodPc'[o] \in BodHolds => o # r /\ bodPc[o] \in BodHolds /\ bodHas[o] # bodHas[r]
    BY <1>0, <1>1, <1>2, <2>1 DEF BodOwns
  <2>3. bodPc'[r] # "none" /\ bodPc[r] # "none"
    BY <1>1
  <2> QED BY <1>0, <1>1, <2>2, <2>3 DEF BodOwns
<1>6. BodReads' /\ BodAnswers'
  <2>1. bodPc[r] = "refused" => bodAns[r] = BodNone
    BY <1>0 DEF BodAnswers
  <2> QED BY <1>0, <1>1, <1>4, <2>1, BodRowsKept DEF BodReads, BodAnswers
<1> QED BY <1>3, <1>5, <1>6 DEF BodInv

\* The handler answers what it has opened.
LEMMA BodServeKeeps ==
    ASSUME NEW r \in BodReqs, BodInv, BodServe(r)
    PROVE  BodInv'
<1>0. BodTypeOK /\ BodFuns /\ BodOwns /\ BodReads /\ BodAnswers
  BY DEF BodInv
<1>1. /\ bodPc[r] = "serve" /\ bodPc'[r] = "served"
      /\ \A o \in BodReqs \ {r} : bodPc'[o] = bodPc[o]
      /\ UNCHANGED <<bodMsg, bodVia, bodPool, bodText, bodHas, bodCopy, bodGot>>
  BY <1>0 DEF BodTypeOK, BodServe, bodBuf
<1>2. bodGot[r] = bodMsg[r] /\ bodMsg[r] \in BodMessages /\ bodAns[r] = BodNone
  BY <1>0, <1>1 DEF BodReads, BodOwns, BodAnswers, BodHolds
<1>3. \/ \E k \in BodKinds(bodGot[r]), n \in BodSizes :
            bodAns' = [bodAns EXCEPT ![r] = BodAnswerOf(bodGot[r], k, n)]
      \/ bodAns' = bodAns
  BY DEF BodServe
<1>4. /\ \A o \in BodReqs \ {r} : bodAns'[o] = bodAns[o]
      /\ bodAns'[r] # BodNone =>
            \E k \in BodKinds(bodGot[r]), n \in BodSizes : bodAns'[r] = BodAnswerOf(bodGot[r], k, n)
      /\ DOMAIN bodAns' = BodReqs /\ bodAns' = [o \in BodReqs |-> bodAns'[o]]
  BY <1>0, <1>2, <1>3 DEF BodFuns
<1>5. BodKinds(bodGot[r]) \subseteq {"text", "image", "voice", "news"}
  BY DEF BodKinds
<1>6. BodTypeOK' /\ BodFuns'
  BY <1>0, <1>1, <1>4 DEF BodTypeOK, BodFuns, BodServe, bodBuf
<1>7. BodOthers(r)
  BY <1>1, <1>4 DEF BodOthers
<1>8. BodOwns'
  BY <1>0, <1>1, <1>7, BodOwnsKept DEF BodRest, BodHolds
<1>9. BodReads' /\ BodAnswers'
  <2>1. bodAns'[r] # BodNone =>
            \E m \in BodMessages, k \in {"text", "image", "voice", "news"}, n \in BodSizes :
                m = bodMsg'[r] /\ bodAns'[r] = BodAnswerOf(m, k, n)
    BY <1>1, <1>2, <1>4, <1>5
  <2> QED BY <1>0, <1>1, <1>2, <1>7, <2>1, BodRowsKept DEF BodReads
<1> QED BY <1>6, <1>8, <1>9 DEF BodInv

\* Parsing, checking and decrypting: the text is the request's message, so that
\* only a message to another account is refused.
LEMMA BodReadKeeps ==
    ASSUME NEW r \in BodReqs, BodInv, BodForward(r) \/ BodParse(r) \/ BodCheck(r) \/ BodDecrypt(r)
    PROVE  BodInv'
<1>0. BodTypeOK /\ BodFuns /\ BodOwns /\ BodReads /\ BodAnswers
  BY DEF BodInv
<1>1. CASE BodForward(r)
  <2>1. /\ bodPc[r] = "forward" /\ bodPc'[r] \in {"arrived", "failed"}
        /\ \A o \in BodReqs \ {r} : bodPc'[o] = bodPc[o]
        /\ UNCHANGED <<bodMsg, bodVia, bodPool, bodText, bodHas, bodCopy, bodGot, bodAns>>
    BY <1>0, <1>1 DEF BodTypeOK, BodForward, bodBuf, bodRead
  <2>2. BodTypeOK' /\ BodFuns'
    BY <1>0, <1>1 DEF BodTypeOK, BodFuns, BodForward, bodBuf, bodRead
  <2>3. BodOthers(r) /\ BodRest
    BY <2>1 DEF BodOthers, BodRest
  <2>4. BodOwns'
    BY <1>0, <2>1, <2>3, BodOwnsKept DEF BodHolds
  <2>5. bodCopy[r] = BodNone /\ bodGot[r] = BodNone /\ bodAns[r] = BodNone
    BY <1>0, <2>1 DEF BodReads, BodAnswers
  <2>6. BodReads' /\ BodAnswers'
    BY <1>0, <2>1, <2>3, <2>5, BodRowsKept
  <2> QED BY <2>2, <2>4, <2>6 DEF BodInv
<1>2. CASE BodParse(r)
  <2>1. /\ bodPc[r] = "read" /\ bodPc'[r] = "parsed"
        /\ \A o \in BodReqs \ {r} : bodPc'[o] = bodPc[o] /\ bodCopy'[o] = bodCopy[o]
        /\ bodCopy'[r] \in {BodNone, BodText(r)}
        /\ UNCHANGED <<bodMsg, bodVia, bodPool, bodText, bodHas, bodGot, bodAns>>
    BY <1>0, <1>2 DEF BodTypeOK, BodFuns, BodParse, bodBuf
  <2>2. BodText(r) = bodMsg[r] /\ bodMsg[r] \in BodMessages
    BY <2>1, BodTextIsOwn DEF BodHolds
  <2>3. BodTypeOK' /\ BodFuns'
    BY <1>0, <1>2, <2>2 DEF BodTypeOK, BodFuns, BodParse, bodBuf
  <2>4. BodOthers(r) /\ BodRest
    BY <2>1 DEF BodOthers, BodRest
  <2>5. BodOwns'
    BY <1>0, <2>1, <2>4, BodOwnsKept DEF BodHolds
  <2>6. bodGot[r] = BodNone /\ bodAns[r] = BodNone
    BY <1>0, <2>1 DEF BodReads, BodAnswers
  <2>7. BodReads' /\ BodAnswers'
    BY <1>0, <2>1, <2>2, <2>4, <2>6, BodRowsKept
  <2> QED BY <2>3, <2>5, <2>7 DEF BodInv
<1>3. CASE BodCheck(r)
  <2>1. /\ bodPc[r] = "parsed"
        /\ bodPc'[r] = IF bodMsg[r].to = BodAccount /\ BodText(r) = bodMsg[r] THEN "checked" ELSE "refused"
        /\ \A o \in BodReqs \ {r} : bodPc'[o] = bodPc[o]
        /\ UNCHANGED <<bodMsg, bodVia, bodPool, bodText, bodHas, bodCopy, bodGot, bodAns>>
    BY <1>0, <1>3 DEF BodTypeOK, BodCheck, bodBuf, bodRead
  <2>2. BodText(r) = bodMsg[r] /\ bodMsg[r] \in BodMessages
    BY <2>1, BodTextIsOwn DEF BodHolds
  <2>3. BodTypeOK' /\ BodFuns'
    BY <1>0, <1>3 DEF BodTypeOK, BodFuns, BodCheck, bodBuf, bodRead
  <2>4. BodOthers(r) /\ BodRest
    BY <2>1 DEF BodOthers, BodRest
  <2>5. BodOwns'
    BY <1>0, <2>1, <2>4, BodOwnsKept DEF BodHolds
  <2>6. bodGot[r] = BodNone /\ bodAns[r] = BodNone /\ bodCopy[r] \in {BodNone, bodMsg[r]}
    BY <1>0, <2>1 DEF BodReads, BodAnswers
  <2>7. BodReads' /\ BodAnswers'
    BY <1>0, <2>1, <2>2, <2>4, <2>6, BodRowsKept
  <2> QED BY <2>3, <2>5, <2>7 DEF BodInv
<1>4. CASE BodDecrypt(r)
  <2>1. bodPc[r] = "checked" /\ UNCHANGED <<bodMsg, bodVia, bodPool, bodText, bodHas, bodCopy, bodAns>>
    BY <1>4 DEF BodDecrypt, bodBuf
  <2>2. BodText(r) = bodMsg[r] /\ bodMsg[r] \in BodMessages
    BY <2>1, BodTextIsOwn DEF BodHolds
  <2>3. /\ BodOpen(BodSeal(BodBytes(bodMsg[r]), BodAppId)) = [text |-> BodBytes(bodMsg[r]), appId |-> BodAppId]
        /\ BodOpen(BodSeal(BodBytes(bodMsg[r]), BodAppId)) # BodNone
    BY <2>2, BodDecrypts
  <2>4. bodGot' = [bodGot EXCEPT ![r] = bodMsg[r]] /\ bodPc' = [bodPc EXCEPT ![r] = "serve"]
    <3> DEFINE open == BodOpen(BodSeal(BodBytes(BodText(r)), BodAppId))
    <3>1. open # BodNone /\ open.text = BodBytes(BodText(r)) /\ open.appId = BodAppId /\ BodText(r).to = bodMsg[r].to
      BY <2>2, <2>3
    <3>2. IF open # BodNone /\ open.text = BodBytes(BodText(r)) /\ open.appId = BodAppId /\ BodText(r).to = bodMsg[r].to
          THEN bodGot' = [bodGot EXCEPT ![r] = BodText(r)] /\ bodPc' = [bodPc EXCEPT ![r] = "serve"]
          ELSE TRUE
      BY <1>4, Zenon DEF BodDecrypt
    <3> HIDE DEF open
    <3> QED BY <2>2, <3>1, <3>2, Zenon
  <2>5. /\ bodPc'[r] = "serve" /\ bodGot'[r] = bodMsg[r]
        /\ \A o \in BodReqs \ {r} : bodPc'[o] = bodPc[o] /\ bodGot'[o] = bodGot[o]
    BY <1>0, <2>4 DEF BodTypeOK
  <2>6. BodTypeOK' /\ BodFuns'
    BY <1>0, <2>1, <2>2, <2>4 DEF BodTypeOK, BodFuns
  <2>7. BodOthers(r) /\ BodRest
    BY <2>1, <2>5 DEF BodOthers, BodRest
  <2>8. BodOwns'
    BY <1>0, <2>1, <2>5, <2>7, BodOwnsKept DEF BodHolds
  <2>9. bodAns[r] = BodNone /\ bodCopy[r] \in {BodNone, bodMsg[r]}
    BY <1>0, <2>1 DEF BodReads, BodAnswers
  <2>10. BodReads' /\ BodAnswers'
    BY <1>0, <2>1, <2>5, <2>7, <2>9, BodRowsKept
  <2> QED BY <2>6, <2>8, <2>10 DEF BodInv
<1> QED BY <1>1, <1>2, <1>3, <1>4

\* Every step keeps the invariant.
LEMMA BodInvNext == BodInv /\ [BodNext]_bodVars => BodInv'
<1> SUFFICES ASSUME BodInv, [BodNext]_bodVars PROVE BodInv'
  OBVIOUS
<1>1. ASSUME NEW r \in BodReqs, NEW m \in BodMessages, NEW via \in BOOLEAN, BodSend(r, m, via) PROVE BodInv'
  BY <1>1, BodSendKeeps
<1>2. ASSUME NEW r \in BodReqs, BodForward(r) \/ BodParse(r) \/ BodCheck(r) \/ BodDecrypt(r) PROVE BodInv'
  BY <1>2, BodReadKeeps
<1>3. ASSUME NEW r \in BodReqs, BodTake(r) PROVE BodInv'
  BY <1>3, BodTakeKeeps
<1>4. ASSUME NEW r \in BodReqs, BodServe(r) PROVE BodInv'
  BY <1>4, BodServeKeeps
<1>5. ASSUME NEW r \in BodReqs, BodReturn(r) PROVE BodInv'
  BY <1>5, BodReturnKeeps
<1>6. CASE UNCHANGED bodVars
  BY <1>6 DEF BodInv, BodTypeOK, BodFuns, BodOwns, BodReads, BodAnswers, bodVars, bodBuf, bodRead
<1> QED BY <1>1, <1>2, <1>3, <1>4, <1>5, <1>6 DEF BodNext

\* An answer is opened like a message.
LEMMA BodAnswerOpens ==
    ASSUME NEW n \in BodSizes
    PROVE  BodOpen(BodSeal(BodRepeat(1, n), BodAppId)) = [text |-> BodRepeat(1, n), appId |-> BodAppId]
<1>1. n \in Nat
  BY BodAssumption
<1>2. BodRepeat(1, n) \in Seq(Nat)
  BY <1>1 DEF BodRepeat
<1>3. BodAppId \in Seq(0 .. 255) /\ BodAppId # <<>>
  BY BodAssumption, Zenon
<1>4. 0 .. 255 \subseteq Nat
  OBVIOUS
<1>5. BodAppId \in Seq(Nat)
  BY <1>3, <1>4, SeqMonotonic, Zenon
<1> QED BY <1>2, <1>3, <1>5, BodSealOpens, Zenon

\* A handler gets the text WeChat sealed for it and WeChat opens the answer made
\* for it, whichever requests use the same buffers and for texts of any length.
THEOREM RequestsAreServedTheirOwn == BodSpec => []ServedItsOwn
<1>1. BodInv => ServedItsOwn
  <2> SUFFICES ASSUME BodInv, NEW r \in BodReqs
               PROVE  /\ bodGot[r] # BodNone => bodGot[r] = bodMsg[r]
                      /\ bodPc[r] = "refused" => bodMsg[r].to # BodAccount
                      /\ bodAns[r] # BodNone =>
                            /\ bodAns[r].to = bodMsg[r].from
                            /\ \E n \in BodSizes :
                                  BodOpen(bodAns[r].sealed) = [text |-> BodRepeat(1, n), appId |-> BodAppId]
    BY Zenon DEF ServedItsOwn
  <2>1. (bodGot[r] # BodNone => bodGot[r] = bodMsg[r]) /\ (bodPc[r] = "refused" => bodMsg[r].to # BodAccount)
    BY DEF BodInv, BodReads
  <2>2. ASSUME bodAns[r] # BodNone
        PROVE  /\ bodAns[r].to = bodMsg[r].from
               /\ \E n \in BodSizes :
                     BodOpen(bodAns[r].sealed) = [text |-> BodRepeat(1, n), appId |-> BodAppId]
    <3>1. PICK m \in BodMessages, k \in {"text", "image", "voice", "news"}, n \in BodSizes :
              m = bodMsg[r] /\ bodAns[r] = BodAnswerOf(m, k, n)
      BY <2>2, Zenon DEF BodInv, BodAnswers
    <3>2. bodAns[r].to = m.from /\ bodAns[r].sealed = BodSeal(BodRepeat(1, n), BodAppId)
      BY <3>1 DEF BodAnswerOf
    <3> QED BY <3>1, <3>2, BodAnswerOpens, Zenon
  <2> QED BY <2>1, <2>2
<1> QED BY <1>1, BodInvInit, BodInvNext, PTL DEF BodSpec

-----------------------------------------------------------------------------
(* Chains of handlers: slices, and what an append to one does to the        *)
(* others.                                                                  *)

\* Slices of a heap, and what an append to one does to the heap.

\* Slice s is nil, or a first part of an array of the heap.
MuxSlice(heap, s) ==
    /\ s \in [arr : Nat, len : Nat]
    /\ s.arr = 0 => s.len = 0
    /\ s.arr # 0 => s.arr \in 1 .. Len(heap) /\ s.len <= Len(heap[s.arr])

\* Element i of slice s.
MuxAt(heap, s, i) == heap[s.arr][i]

\* What a slice holds.
LEMMA MuxContentIs ==
    ASSUME NEW heap \in Seq(Seq(Nat)), NEW s, MuxSlice(heap, s)
    PROVE  /\ MuxContent(heap, s) \in Seq(Nat) /\ Len(MuxContent(heap, s)) = s.len
           /\ \A i \in 1 .. s.len : MuxContent(heap, s)[i] = MuxAt(heap, s, i)
<1>1. CASE s.arr = 0
  BY <1>1 DEF MuxContent, MuxSlice
<1>2. CASE s.arr # 0
  <2>1. heap[s.arr] \in Seq(Nat) /\ s.len \in Nat /\ s.len <= Len(heap[s.arr])
    BY <1>2 DEF MuxSlice
  <2> DEFINE a == heap[s.arr]
  <2> HIDE DEF a
  <2>2. a \in Seq(Nat) /\ 0 \in Nat /\ 0 + s.len <= Len(a) /\ 1 = 0 + 1 /\ s.len = 0 + s.len
    BY <2>1 DEF a
  <2>3. /\ SubSeq(a, 1, s.len) \in Seq(Nat) /\ Len(SubSeq(a, 1, s.len)) = s.len
        /\ \A i \in 1 .. s.len : SubSeq(a, 1, s.len)[i] = a[0 + i]
    <3> DEFINE n == s.len
    <3>1. a \in Seq(Nat) /\ n \in Nat /\ 0 \in Nat /\ 0 + n <= Len(a) /\ 1 = 0 + 1 /\ n = 0 + n
      BY <2>1, <2>2
    <3> HIDE DEF n
    <3>2. /\ SubSeq(a, 1, n) \in Seq(Nat) /\ Len(SubSeq(a, 1, n)) = n
          /\ \A i \in 1 .. n : SubSeq(a, 1, n)[i] = a[0 + i]
      BY <3>1, CutsNat
    <3> QED BY <3>2 DEF n
  <2>4. \A i \in 1 .. s.len : 0 + i = i
    OBVIOUS
  <2>5. MuxContent(heap, s) = SubSeq(a, 1, s.len)
    BY <1>2 DEF MuxContent, a
  <2> QED BY <2>3, <2>4, <2>5 DEF MuxAt, a
<1> QED BY <1>1, <1>2

\* The array an append has written: the old part, the new elements, and behind
\* them what was there, or zeros.
MuxWritten(heap, s, hs, to) ==
    /\ to \in Seq(Nat) /\ s.len + Len(hs) <= Len(to)
    /\ \A i \in 1 .. s.len : to[i] = MuxAt(heap, s, i)
    /\ \A i \in 1 .. Len(hs) : to[s.len + i] = hs[i]

\* In place ...
MuxInPlace(heap, s, hs, made) ==
    /\ s.arr # 0 /\ s.len + Len(hs) <= Len(heap[s.arr])
    /\ made.slice = [arr |-> s.arr, len |-> s.len + Len(hs)]
    /\ made.heap \in Seq(Seq(Nat)) /\ Len(made.heap) = Len(heap)
    /\ \A a \in 1 .. Len(heap) : a # s.arr => made.heap[a] = heap[a]
    /\ MuxWritten(heap, s, hs, made.heap[s.arr])
    /\ Len(made.heap[s.arr]) = Len(heap[s.arr])
    /\ \A i \in s.len + Len(hs) + 1 .. Len(heap[s.arr]) : made.heap[s.arr][i] = heap[s.arr][i]

\* ... or to a new array, when the old one has no room.
MuxInNew(heap, s, hs, made) ==
    /\ s.arr = 0 \/ Len(heap[s.arr]) < s.len + Len(hs)
    /\ made.slice = [arr |-> Len(heap) + 1, len |-> s.len + Len(hs)]
    /\ made.heap \in Seq(Seq(Nat)) /\ Len(made.heap) = Len(heap) + 1
    /\ \A a \in 1 .. Len(heap) : made.heap[a] = heap[a]
    /\ MuxWritten(heap, s, hs, made.heap[Len(heap) + 1])
    /\ \A i \in s.len + Len(hs) + 1 .. Len(made.heap[Len(heap) + 1]) : made.heap[Len(heap) + 1][i] = 0

\* The three parts of a written array.
LEMMA MuxParts ==
    ASSUME NEW held \in Seq(Nat), NEW hs \in Seq(Nat), NEW rest \in Seq(Nat)
    PROVE  /\ held \o hs \o rest \in Seq(Nat)
           /\ Len(held \o hs \o rest) = Len(held) + Len(hs) + Len(rest)
           /\ \A i \in 1 .. Len(held) : (held \o hs \o rest)[i] = held[i]
           /\ \A i \in 1 .. Len(hs) : (held \o hs \o rest)[Len(held) + i] = hs[i]
           /\ \A i \in 1 .. Len(rest) : (held \o hs \o rest)[Len(held) + Len(hs) + i] = rest[i]
<1> DEFINE front == held \o hs
           all == front \o rest
<1>1. /\ front \in Seq(Nat) /\ Len(front) = Len(held) + Len(hs)
      /\ \A i \in 1 .. Len(held) : front[i] = held[i]
      /\ \A i \in 1 .. Len(hs) : front[Len(held) + i] = hs[i]
  BY JoinsNat
<1> HIDE DEF front
<1>2. /\ all \in Seq(Nat) /\ Len(all) = Len(front) + Len(rest)
      /\ \A i \in 1 .. Len(front) : all[i] = front[i]
      /\ \A i \in 1 .. Len(rest) : all[Len(front) + i] = rest[i]
  BY <1>1, JoinsNat
<1> HIDE DEF all
<1>3. Len(held) \in Nat /\ Len(hs) \in Nat /\ Len(rest) \in Nat
  OBVIOUS
<1>4. \A i \in 1 .. Len(held) : all[i] = held[i]
  <2>1. \A i \in 1 .. Len(held) : i \in 1 .. Len(front)
    BY <1>1, <1>3
  <2> QED BY <1>1, <1>2, <2>1
<1>5. \A i \in 1 .. Len(hs) : all[Len(held) + i] = hs[i]
  <2>1. \A i \in 1 .. Len(hs) : Len(held) + i \in 1 .. Len(front)
    BY <1>1, <1>3
  <2> QED BY <1>1, <1>2, <2>1
<1>6. \A i \in 1 .. Len(rest) : all[Len(held) + Len(hs) + i] = rest[i]
  BY <1>1, <1>2, <1>3
<1>7. Len(all) = Len(held) + Len(hs) + Len(rest)
  BY <1>1, <1>2, <1>3
<1> QED BY <1>2, <1>4, <1>5, <1>6, <1>7 DEF all, front

\* An append is one of the two.
LEMMA MuxAppends ==
    ASSUME NEW heap \in Seq(Seq(Nat)), NEW s, MuxSlice(heap, s), NEW hs \in Seq(Nat)
    PROVE  MuxInPlace(heap, s, hs, MuxAppend(heap, s, hs)) \/ MuxInNew(heap, s, hs, MuxAppend(heap, s, hs))
<1> DEFINE held == MuxContent(heap, s)
           old == IF s.arr = 0 THEN 0 ELSE Len(heap[s.arr])
           need == s.len + Len(hs)
           room == IF need > 2 * old THEN need ELSE 2 * old
           made == MuxAppend(heap, s, hs)
<1>1. /\ held \in Seq(Nat) /\ Len(held) = s.len
      /\ \A i \in 1 .. s.len : held[i] = MuxAt(heap, s, i)
  BY MuxContentIs
<1> HIDE DEF held
<1>2. s.len \in Nat /\ Len(hs) \in Nat /\ s.arr \in Nat /\ Len(heap) \in Nat
  BY DEF MuxSlice
<1>3. CASE s.arr # 0 /\ need <= old
  <2> DEFINE a == heap[s.arr]
             rest == SubSeq(a, need + 1, old)
             to == held \o hs \o rest
  <2>1. s.arr \in 1 .. Len(heap) /\ a \in Seq(Nat) /\ old = Len(a) /\ old \in Nat /\ need \in Nat
    BY <1>2, <1>3 DEF MuxSlice
  <2>2. made = [heap |-> [heap EXCEPT ![s.arr] = to], slice |-> [s EXCEPT !.len = need]]
    BY <1>3 DEF MuxAppend, held
  <2> HIDE DEF a, made
  <2>3. /\ rest \in Seq(Nat) /\ Len(rest) = old - need
        /\ \A i \in 1 .. old - need : rest[i] = a[need + i]
    <3> HIDE DEF need, old
    <3>1. old - need \in Nat /\ need + (old - need) <= Len(a) /\ old = need + (old - need)
      BY <1>3, <2>1
    <3>2. \A from, to1 : from = need + 1 /\ to1 = need + (old - need) =>
              /\ SubSeq(a, from, to1) \in Seq(Nat) /\ Len(SubSeq(a, from, to1)) = old - need
              /\ \A i \in 1 .. old - need : SubSeq(a, from, to1)[i] = a[need + i]
      BY <2>1, <3>1, CutsNat
    <3> QED BY <3>1, <3>2
  <2> HIDE DEF rest
  <2>4. /\ to \in Seq(Nat) /\ Len(to) = Len(held) + Len(hs) + Len(rest)
        /\ \A i \in 1 .. Len(held) : to[i] = held[i]
        /\ \A i \in 1 .. Len(hs) : to[Len(held) + i] = hs[i]
        /\ \A i \in 1 .. Len(rest) : to[Len(held) + Len(hs) + i] = rest[i]
    BY <1>1, <2>3, MuxParts
  <2> HIDE DEF to, old
  <2>5. Len(to) = old
    BY <1>1, <1>2, <2>1, <2>3, <2>4
  <2>6. MuxWritten(heap, s, hs, to)
    BY <1>1, <1>2, <1>3, <2>1, <2>4, <2>5 DEF MuxWritten
  <2>7. \A i \in need + 1 .. old : to[i] = a[i]
    <3> SUFFICES ASSUME NEW i \in need + 1 .. old PROVE to[i] = a[i]
      OBVIOUS
    <3>1. i - need \in 1 .. Len(rest) /\ Len(held) + Len(hs) + (i - need) = i /\ need + (i - need) = i
          /\ i - need \in 1 .. old - need
      <4>1. Len(held) + Len(hs) = need /\ Len(rest) = old - need
        BY <1>1, <2>3
      <4>2. \A x, y \in Nat : \A j \in x + 1 .. y : /\ j - x \in 1 .. y - x /\ x + (j - x) = j
        OBVIOUS
      <4> HIDE DEF need
      <4> QED BY <2>1, <4>1, <4>2
    <3>2. to[Len(held) + Len(hs) + (i - need)] = rest[i - need] /\ rest[i - need] = a[need + (i - need)]
      BY <2>3, <2>4, <3>1
    <3> QED BY <3>1, <3>2
  <2>8. /\ made.heap = [heap EXCEPT ![s.arr] = to] /\ made.slice = [arr |-> s.arr, len |-> need]
    BY <2>2 DEF MuxSlice
  <2>9. /\ made.heap \in Seq(Seq(Nat)) /\ Len(made.heap) = Len(heap) /\ made.heap[s.arr] = to
        /\ \A b \in 1 .. Len(heap) : b # s.arr => made.heap[b] = heap[b]
    BY <2>1, <2>4, <2>8
  <2>10. MuxInPlace(heap, s, hs, made)
    BY <1>3, <2>1, <2>5, <2>6, <2>7, <2>8, <2>9 DEF MuxInPlace, a
  <2> QED BY <2>10 DEF made
<1>4. CASE ~(s.arr # 0 /\ need <= old)
  <2> DEFINE rest == [i \in 1 .. room - need |-> 0]
             to == held \o hs \o rest
  <2>1. old \in Nat /\ need \in Nat /\ room \in Nat /\ room - need \in Nat
    BY <1>2 DEF MuxSlice
  <2>2. made = [heap |-> Append(heap, to), slice |-> [arr |-> Len(heap) + 1, len |-> need]]
    BY <1>4 DEF MuxAppend, held
  <2> HIDE DEF made
  <2>3. rest \in Seq(Nat) /\ Len(rest) = room - need /\ \A i \in 1 .. Len(rest) : rest[i] = 0
    <3> HIDE DEF room, need
    <3> QED BY <2>1
  <2> HIDE DEF rest
  <2>4. /\ to \in Seq(Nat) /\ Len(to) = Len(held) + Len(hs) + Len(rest)
        /\ \A i \in 1 .. Len(held) : to[i] = held[i]
        /\ \A i \in 1 .. Len(hs) : to[Len(held) + i] = hs[i]
        /\ \A i \in 1 .. Len(rest) : to[Len(held) + Len(hs) + i] = rest[i]
    BY <1>1, <2>3, MuxParts
  <2> HIDE DEF to, room
  <2>5. Len(to) = room /\ need <= Len(to)
    <3>1. Len(held) + Len(hs) = need /\ Len(rest) = room - need
      BY <1>1, <2>3
    <3>2. \A x, y, z : x \in Nat /\ y \in Nat /\ z = y - x /\ z \in Nat => x + z = y /\ x <= y
      OBVIOUS
    <3> HIDE DEF need
    <3>3. Len(to) = need + Len(rest)
      BY <2>4, <3>1
    <3>4. need + Len(rest) = room /\ need <= room
      BY <2>1, <3>1, <3>2
    <3> QED BY <3>3, <3>4
  <2>6. MuxWritten(heap, s, hs, to)
    BY <1>1, <2>4, <2>5 DEF MuxWritten
  <2>7. \A i \in need + 1 .. Len(to) : to[i] = 0
    <3> SUFFICES ASSUME NEW i \in need + 1 .. Len(to) PROVE to[i] = 0
      OBVIOUS
    <3>1. i - need \in 1 .. Len(rest) /\ Len(held) + Len(hs) + (i - need) = i
      <4>1. Len(held) + Len(hs) = need /\ Len(rest) = room - need /\ Len(to) = room
        BY <1>1, <2>3, <2>5
      <4>2. \A x, y \in Nat : \A j \in x + 1 .. y : /\ j - x \in 1 .. y - x /\ x + (j - x) = j
        OBVIOUS
      <4> HIDE DEF need
      <4> QED BY <2>1, <4>1, <4>2
    <3> QED BY <2>3, <2>4, <3>1
  <2>8. /\ made.heap = Append(heap, to) /\ made.slice = [arr |-> Len(heap) + 1, len |-> need]
    BY <2>2
  <2>9. /\ made.heap \in Seq(Seq(Nat)) /\ Len(made.heap) = Len(heap) + 1 /\ made.heap[Len(heap) + 1] = to
        /\ \A b \in 1 .. Len(heap) : made.heap[b] = heap[b]
    BY <2>4, <2>8
  <2>10. s.arr = 0 \/ Len(heap[s.arr]) < need
    BY <1>2, <1>4, <2>1
  <2>11. MuxInNew(heap, s, hs, made)
    BY <2>6, <2>7, <2>8, <2>9, <2>10 DEF MuxInNew
  <2> QED BY <2>11 DEF made
<1> QED BY <1>3, <1>4

-----------------------------------------------------------------------------
\* What an append does to the slices there are.

\* Slice s holds handlers there are, each once.
MuxHeld(heap, s, handlers) ==
    /\ MuxSlice(heap, s)
    /\ \A i \in 1 .. s.len : MuxAt(heap, s, i) \in 1 .. handlers
    /\ \A i, j \in 1 .. s.len : MuxAt(heap, s, i) = MuxAt(heap, s, j) => i = j

\* Slice s has the elements in one heap it has in the other.
MuxSame(heap, other, s, len) == \A i \in 1 .. len : MuxAt(other, s, i) = MuxAt(heap, s, i)

\* The new handlers come after those there are.
MuxNewer(hs, handlers, later) ==
    /\ handlers \in Nat /\ later = handlers + Len(hs)
    /\ \A i \in 1 .. Len(hs) : hs[i] = handlers + i

\* The slice an append returns holds what the old one held and the new handlers.
MuxLonger(heap, s, hs, made, later) ==
    /\ MuxHeld(made.heap, made.slice, later) /\ made.slice.len = s.len + Len(hs)
    /\ \A i \in 1 .. s.len : MuxAt(made.heap, made.slice, i) = MuxAt(heap, s, i)
    /\ \A i \in 1 .. Len(hs) : MuxAt(made.heap, made.slice, s.len + i) = hs[i]

\* Slice c has in the new heap what it had in the old one, and its array is the same.
MuxUntouched(heap, made, later, c) ==
    /\ MuxHeld(made.heap, c, later) /\ MuxSame(heap, made.heap, c, c.len)
    /\ c.arr # 0 => made.heap[c.arr] = heap[c.arr]

\* The slice it returns.
LEMMA MuxMade ==
    ASSUME NEW heap \in Seq(Seq(Nat)), NEW s, NEW hs \in Seq(Nat), NEW made, NEW handlers, NEW later,
           MuxHeld(heap, s, handlers), MuxNewer(hs, handlers, later),
           MuxInPlace(heap, s, hs, made) \/ MuxInNew(heap, s, hs, made)
    PROVE  MuxLonger(heap, s, hs, made, later)
<1> DEFINE to == made.heap[made.slice.arr]
           n == s.len
           l == Len(hs)
<1>1. n \in Nat /\ l \in Nat /\ handlers \in Nat /\ later = handlers + l
  BY DEF MuxHeld, MuxSlice, MuxNewer
<1>2. /\ made.slice.arr \in Nat \ {0} /\ made.slice.arr \in 1 .. Len(made.heap) /\ made.slice.len = n + l
      /\ made.slice \in [arr : Nat, len : Nat] /\ MuxWritten(heap, s, hs, to)
  <2>1. CASE MuxInPlace(heap, s, hs, made)
    <3>1. /\ s.arr \in Nat \ {0} /\ s.arr \in 1 .. Len(heap) /\ Len(made.heap) = Len(heap)
          /\ made.slice = [arr |-> s.arr, len |-> s.len + Len(hs)]
      BY <2>1 DEF MuxHeld, MuxSlice, MuxInPlace
    <3>2. MuxWritten(heap, s, hs, made.heap[s.arr])
      BY <2>1 DEF MuxInPlace
    <3> QED BY <1>1, <3>1, <3>2
  <2>2. CASE MuxInNew(heap, s, hs, made)
    <3>1. /\ Len(made.heap) = Len(heap) + 1 /\ Len(heap) \in Nat
          /\ made.slice = [arr |-> Len(heap) + 1, len |-> s.len + Len(hs)]
      BY <2>2 DEF MuxInNew
    <3>2. MuxWritten(heap, s, hs, made.heap[Len(heap) + 1])
      BY <2>2 DEF MuxInNew
    <3> QED BY <1>1, <3>1, <3>2
  <2> QED BY <2>1, <2>2
<1>3. /\ to \in Seq(Nat) /\ n + l <= Len(to)
      /\ \A i \in 1 .. n : to[i] = MuxAt(heap, s, i)
      /\ \A i \in 1 .. l : to[n + i] = hs[i]
  BY <1>2 DEF MuxWritten
<1>4. MuxSlice(made.heap, made.slice)
  BY <1>1, <1>2, <1>3 DEF MuxSlice
<1>5. /\ \A i \in 1 .. n : to[i] \in 1 .. handlers
      /\ \A i, j \in 1 .. n : to[i] = to[j] => i = j
      /\ \A i \in 1 .. l : to[n + i] = handlers + i
  <2>1. /\ \A i \in 1 .. n : MuxAt(heap, s, i) \in 1 .. handlers
        /\ \A i, j \in 1 .. n : MuxAt(heap, s, i) = MuxAt(heap, s, j) => i = j
    BY DEF MuxHeld
  <2>2. \A i \in 1 .. l : hs[i] = handlers + i
    BY DEF MuxNewer
  <2> HIDE DEF n, l, to
  <2> QED BY <1>3, <2>1, <2>2
<1> HIDE DEF to, n, l
<1>6. \A i \in 1 .. n + l : to[i] \in 1 .. later /\ (i > n => to[i] = handlers + (i - n))
  <2> SUFFICES ASSUME NEW i \in 1 .. n + l PROVE to[i] \in 1 .. later /\ (i > n => to[i] = handlers + (i - n))
    OBVIOUS
  <2>1. CASE i <= n
    BY <1>1, <1>5, <2>1
  <2>2. CASE i > n
    <3>1. i - n \in 1 .. l /\ n + (i - n) = i
      BY <1>1, <2>2
    <3>2. to[n + (i - n)] = handlers + (i - n)
      BY <1>5, <3>1
    <3> QED BY <1>1, <2>2, <3>1, <3>2
  <2> QED BY <1>1, <2>1, <2>2
<1>7. \A i, j \in 1 .. n + l : to[i] = to[j] => i = j
  <2> SUFFICES ASSUME NEW i \in 1 .. n + l, NEW j \in 1 .. n + l, to[i] = to[j] PROVE i = j
    OBVIOUS
  <2>1. CASE i <= n /\ j <= n
    BY <1>1, <1>5, <2>1
  <2>2. CASE i > n /\ j > n
    BY <1>1, <1>6, <2>2
  <2>3. CASE i <= n /\ j > n
    <3>1. to[i] <= handlers /\ to[j] > handlers
      BY <1>1, <1>5, <1>6, <2>3
    <3> QED BY <1>1, <1>5, <2>3, <3>1
  <2>4. CASE i > n /\ j <= n
    <3>1. to[j] <= handlers /\ to[i] > handlers
      BY <1>1, <1>5, <1>6, <2>4
    <3> QED BY <1>1, <1>5, <2>4, <3>1
  <2> QED BY <1>1, <2>1, <2>2, <2>3, <2>4
<1>8. MuxHeld(made.heap, made.slice, later)
  BY <1>2, <1>4, <1>6, <1>7 DEF MuxHeld, MuxAt, to
<1> QED BY <1>2, <1>3, <1>8 DEF MuxLonger, MuxAt, to, n, l

\* A slice in an array that is not written to is what it was.
LEMMA MuxApart ==
    ASSUME NEW heap \in Seq(Seq(Nat)), NEW s, NEW hs \in Seq(Nat), NEW made, NEW handlers, NEW later, NEW c,
           MuxHeld(heap, c, handlers), MuxNewer(hs, handlers, later),
           \/ MuxInPlace(heap, s, hs, made) /\ (c.arr # s.arr \/ c.arr = 0)
           \/ MuxInNew(heap, s, hs, made)
    PROVE  MuxUntouched(heap, made, later, c)
<1>1. handlers \in Nat /\ later \in Nat /\ handlers <= later
  BY DEF MuxNewer
<1>2. c \in [arr : Nat, len : Nat]
  BY DEF MuxHeld, MuxSlice
<1>3. CASE c.arr = 0
  <2>1. c.len = 0
    BY <1>3 DEF MuxHeld, MuxSlice
  <2> QED BY <1>2, <1>3, <2>1 DEF MuxUntouched, MuxHeld, MuxSlice, MuxSame
<1>4. CASE c.arr # 0
  <2>1. c.arr \in 1 .. Len(heap) /\ c.len <= Len(heap[c.arr])
    BY <1>4 DEF MuxHeld, MuxSlice
  <2>2. made.heap[c.arr] = heap[c.arr] /\ (Len(made.heap) = Len(heap) \/ Len(made.heap) = Len(heap) + 1)
    BY <1>4, <2>1 DEF MuxInPlace, MuxInNew
  <2>3. c.arr \in 1 .. Len(made.heap)
    <3>1. Len(heap) \in Nat
      OBVIOUS
    <3> QED BY <2>1, <2>2, <3>1
  <2>4. \A i \in 1 .. c.len : MuxAt(made.heap, c, i) = MuxAt(heap, c, i)
    BY <2>2 DEF MuxAt
  <2>5. MuxSlice(made.heap, c)
    BY <1>2, <1>4, <2>1, <2>2, <2>3 DEF MuxSlice
  <2>6. \A i \in 1 .. c.len : MuxAt(heap, c, i) \in 1 .. handlers
    BY DEF MuxHeld
  <2>7. \A i \in 1 .. c.len : MuxAt(made.heap, c, i) \in 1 .. later
    BY <1>1, <2>4, <2>6
  <2>8. \A i, j \in 1 .. c.len : MuxAt(made.heap, c, i) = MuxAt(made.heap, c, j) => i = j
    BY <2>4 DEF MuxHeld
  <2> QED BY <2>2, <2>4, <2>5, <2>7, <2>8 DEF MuxUntouched, MuxHeld, MuxSame
<1> QED BY <1>3, <1>4

\* One in the array that is written to, behind the slice that is appended to,
\* may get other handlers, but none twice, and keeps the elements of that slice.
LEMMA MuxOverwritten ==
    ASSUME NEW heap \in Seq(Seq(Nat)), NEW s, NEW hs \in Seq(Nat), NEW made, NEW handlers, NEW later, NEW c,
           MuxHeld(heap, c, handlers), MuxHeld(heap, s, handlers), MuxNewer(hs, handlers, later),
           MuxInPlace(heap, s, hs, made), c.arr = s.arr, s.len <= c.len
    PROVE  /\ MuxHeld(made.heap, c, later) /\ MuxSame(heap, made.heap, c, s.len)
           /\ Len(made.heap[s.arr]) = Len(heap[s.arr])
<1> DEFINE old == heap[s.arr]
           to == made.heap[s.arr]
           n == s.len
           m == c.len
           l == Len(hs)
<1>1. /\ n \in Nat /\ m \in Nat /\ n <= m /\ l \in Nat /\ handlers \in Nat /\ later = handlers + l
      /\ old \in Seq(Nat) /\ m <= Len(old) /\ Len(to) = Len(old) /\ s.arr # 0
  BY DEF MuxHeld, MuxSlice, MuxNewer, MuxInPlace
<1>2. /\ \A i \in 1 .. n : to[i] = old[i]
      /\ \A i \in 1 .. l : to[n + i] = handlers + i
      /\ \A i \in n + l + 1 .. Len(old) : to[i] = old[i]
  BY DEF MuxInPlace, MuxWritten, MuxAt, MuxNewer
<1>3. /\ \A i \in 1 .. m : old[i] \in 1 .. handlers
      /\ \A i, j \in 1 .. m : old[i] = old[j] => i = j
  BY DEF MuxHeld, MuxAt
<1>4. MuxSlice(made.heap, c)
  BY <1>1 DEF MuxHeld, MuxSlice, MuxInPlace
<1>5. Len(old) \in Nat
  BY <1>1
<1> DEFINE w == Len(old)
<1> HIDE DEF to, old, n, m, l, w
<1>6. \A i \in 1 .. m : \/ ~(n < i /\ i <= n + l) /\ to[i] = old[i]
                        \/ n < i /\ i <= n + l /\ to[i] = handlers + (i - n)
  <2> SUFFICES ASSUME NEW i \in 1 .. m
               PROVE  \/ ~(n < i /\ i <= n + l) /\ to[i] = old[i]
                      \/ n < i /\ i <= n + l /\ to[i] = handlers + (i - n)
    OBVIOUS
  <2>1. CASE i <= n
    BY <1>1, <1>2, <2>1
  <2>2. CASE n < i /\ i <= n + l
    <3>1. i - n \in 1 .. l /\ n + (i - n) = i
      BY <1>1, <2>2
    <3>2. to[n + (i - n)] = handlers + (i - n)
      BY <1>2, <3>1
    <3> QED BY <2>2, <3>1, <3>2
  <2>3. CASE n + l < i
    <3>1. i \in n + l + 1 .. Len(old)
      BY <1>1, <1>5, <2>3
    <3> QED BY <1>1, <1>2, <2>3, <3>1
  <2> QED BY <1>1, <2>1, <2>2, <2>3
<1>7. \A i \in 1 .. m : to[i] \in 1 .. later
  <2> SUFFICES ASSUME NEW i \in 1 .. m PROVE to[i] \in 1 .. later
    OBVIOUS
  <2>1. old[i] \in 1 .. handlers
    BY <1>3
  <2>2. \/ to[i] = old[i]
        \/ n < i /\ i <= n + l /\ to[i] = handlers + (i - n)
    BY <1>6
  <2> QED BY <1>1, <2>1, <2>2
<1>8. \A i, j \in 1 .. m : to[i] = to[j] => i = j
  <2> SUFFICES ASSUME NEW i \in 1 .. m, NEW j \in 1 .. m, to[i] = to[j] PROVE i = j
    OBVIOUS
  <2>1. old[i] \in 1 .. handlers /\ old[j] \in 1 .. handlers /\ (old[i] = old[j] => i = j)
    BY <1>3
  <2>2. /\ \/ to[i] = old[i]
           \/ n < i /\ to[i] = handlers + (i - n)
        /\ \/ to[j] = old[j]
           \/ n < j /\ to[j] = handlers + (j - n)
    BY <1>6
  <2> QED BY <1>1, <2>1, <2>2
<1>9. MuxHeld(made.heap, c, later)
  BY <1>4, <1>7, <1>8 DEF MuxHeld, MuxAt, to, m
<1> QED BY <1>1, <1>2, <1>9 DEF MuxSame, MuxAt, to, old, n
-----------------------------------------------------------------------------
\* The inductive invariant.

\* A kind's middlewares, within the limit.
MuxMidsHeld == \A k \in MuxKinds : MuxHeld(muxHeap, muxMids[k], muxHandlers) /\ muxMids[k].len <= MuxMax

\* The array of a kind's middlewares holds slices of that kind only.
MuxOwnArrays ==
    \A k, o \in MuxKinds : muxMids[k].arr # 0 /\ k # o =>
        /\ muxMids[o].arr # muxMids[k].arr
        /\ \A t \in MuxSlots : muxChain[o][t].arr # muxMids[k].arr

\* A chain that was registered starts with the middlewares, and holds what it
\* was made of unless it shares their array, which then has room.
MuxChainHolds(k, t) ==
    LET c == muxChain[k][t]
        mids == muxMids[k]
        want == muxWant[k][t]
    IN /\ MuxHeld(muxHeap, c, muxHandlers) /\ Len(want) = c.len /\ (c.len = 0 => c.arr = 0)
       /\ c.len > 0 => /\ mids.len <= c.len /\ c.len <= MuxMax
                       /\ \A i \in 1 .. mids.len : MuxAt(muxHeap, c, i) = MuxAt(muxHeap, mids, i)
                       /\ c.arr = mids.arr => MuxRoom(k)
                       /\ c.arr # mids.arr => \A i \in 1 .. c.len : MuxAt(muxHeap, c, i) = want[i]

MuxChainsHold == \A k \in MuxKinds, t \in MuxSlots : MuxChainHolds(k, t)

\* The handlers run are the first of the serving chain, up to the place where
\* Next is, unless somebody aborted: then that is behind the chain.
MuxCtxHolds ==
    muxCtx.depth > 0 \/ muxCtx.ran # <<>> =>
        /\ muxStarted /\ MuxServing.len > 0
        /\ Len(muxCtx.ran) <= MuxServing.len /\ Len(muxCtx.ran) <= muxCtx.at
        /\ \A i \in 1 .. Len(muxCtx.ran) : muxCtx.ran[i] = MuxAt(muxHeap, MuxServing, i)
        /\ ~muxCtx.aborted => muxCtx.at = Len(muxCtx.ran)
        /\ muxCtx.depth = 0 \/ muxCtx.aborted => muxCtx.at >= MuxServing.len

MuxInv == MuxTypeOK /\ MuxMidsHeld /\ MuxOwnArrays /\ MuxChainsHold /\ MuxCtxHolds

\* Initially there is nothing.
LEMMA MuxInvInit == MuxInit => MuxInv
<1> SUFFICES ASSUME MuxInit PROVE MuxInv
  OBVIOUS
<1> USE MuxAssumption
<1>1. MuxTypeOK
  <2>1. muxHeap \in Seq(Seq(Nat)) /\ muxHandlers \in Nat
    BY DEF MuxInit
  <2>2. muxCalls \in 0 .. MuxCalls
    BY DEF MuxInit
  <2>3. /\ muxMids \in [MuxKinds -> [arr : Nat, len : Nat]]
        /\ muxChain \in [MuxKinds -> [MuxSlots -> [arr : Nat, len : Nat]]]
    BY DEF MuxInit, MuxNil
  <2>4. muxWant \in [MuxKinds -> [MuxSlots -> Seq(Nat)]]
    <3>1. <<>> \in Seq(Nat)
      OBVIOUS
    <3> QED BY <3>1 DEF MuxInit
  <2>5. muxCtx \in [kind : MuxKinds, slot : MuxSlots, at : Nat, depth : Nat,
                   ran : Seq(Nat), aborted : BOOLEAN]
    BY DEF MuxInit, MuxNoCtx, MuxKinds, MuxSlots
  <2>6. muxStarted \in BOOLEAN /\ muxPanicked \in BOOLEAN
    BY DEF MuxInit
  <2> QED BY <2>1, <2>2, <2>3, <2>4, <2>5, <2>6 DEF MuxTypeOK
<1>2. \A heap, handlers : MuxHeld(heap, MuxNil, handlers)
  BY DEF MuxHeld, MuxSlice, MuxNil
<1>3. MuxMidsHeld
  BY <1>2 DEF MuxMidsHeld, MuxInit, MuxNil
<1>4. MuxOwnArrays
  BY DEF MuxOwnArrays, MuxInit, MuxNil
<1>5. MuxChainsHold
  BY <1>2 DEF MuxChainsHold, MuxChainHolds, MuxInit, MuxNil
<1>6. MuxCtxHolds
  BY DEF MuxCtxHolds, MuxInit, MuxNoCtx
<1> QED BY <1>1, <1>3, <1>4, <1>5, <1>6 DEF MuxInv

\* What a registering call starts from and appends.
LEMMA MuxCombines ==
    ASSUME MuxInv, NEW k \in MuxKinds, NEW n \in MuxSizes, MuxCall(n)
    PROVE  LET hs == MuxFresh(n)
               made == MuxCombine(k, hs)
           IN /\ hs \in Seq(Nat) /\ Len(hs) = n /\ n \in Nat \ {0}
              /\ MuxNewer(hs, muxHandlers, muxHandlers') /\ muxHandlers' \in Nat
              /\ muxHeap \in Seq(Seq(Nat)) /\ MuxHeld(muxHeap, muxMids[k], muxHandlers)
              /\ MuxInPlace(muxHeap, muxMids[k], hs, made) \/ MuxInNew(muxHeap, muxMids[k], hs, made)
              /\ made.heap \in Seq(Seq(Nat)) /\ made.slice \in [arr : Nat, len : Nat]
<1> DEFINE hs == MuxFresh(n)
           made == MuxCombine(k, hs)
<1>1. n \in Nat \ {0} /\ muxHandlers \in Nat /\ muxHeap \in Seq(Seq(Nat)) /\ muxHandlers' = muxHandlers + n
  BY MuxAssumption DEF MuxInv, MuxTypeOK, MuxCall
<1>2. hs \in Seq(Nat) /\ Len(hs) = n /\ \A i \in 1 .. Len(hs) : hs[i] = muxHandlers + i
  BY <1>1 DEF MuxFresh
<1>3. MuxHeld(muxHeap, muxMids[k], muxHandlers)
  BY DEF MuxInv, MuxMidsHeld
<1> HIDE DEF hs
<1>4. MuxNewer(hs, muxHandlers, muxHandlers') /\ muxHandlers' \in Nat
  BY <1>1, <1>2 DEF MuxNewer
<1>5. made = MuxAppend(muxHeap, muxMids[k], hs)
  BY DEF MuxCombine
<1>6. MuxInPlace(muxHeap, muxMids[k], hs, made) \/ MuxInNew(muxHeap, muxMids[k], hs, made)
  BY <1>1, <1>2, <1>3, <1>5, MuxAppends DEF MuxHeld
<1> HIDE DEF made
<1>7. made.heap \in Seq(Seq(Nat)) /\ made.slice \in [arr : Nat, len : Nat]
  <2>1. muxMids[k].arr \in Nat /\ muxMids[k].len \in Nat /\ Len(muxHeap) \in Nat
    BY <1>1, <1>3 DEF MuxHeld, MuxSlice
  <2>2. made.heap \in Seq(Seq(Nat))
    BY <1>6 DEF MuxInPlace, MuxInNew
  <2>3. \/ made.slice = [arr |-> muxMids[k].arr, len |-> muxMids[k].len + Len(hs)]
        \/ made.slice = [arr |-> Len(muxHeap) + 1, len |-> muxMids[k].len + Len(hs)]
    BY <1>6 DEF MuxInPlace, MuxInNew
  <2> DEFINE l == Len(hs)
             w == Len(muxHeap)
             m == muxMids[k].len
  <2>4. l \in Nat
    BY <1>1, <1>2
  <2> HIDE DEF l, w, m
  <2>5. made.slice = [arr |-> muxMids[k].arr, len |-> m + l] \/ made.slice = [arr |-> w + 1, len |-> m + l]
    BY <2>3 DEF l, w, m
  <2>6. w + 1 \in Nat /\ m + l \in Nat
    BY <2>1, <2>4 DEF w, m
  <2> QED BY <2>1, <2>2, <2>5, <2>6
<1> QED BY <1>1, <1>2, <1>3, <1>4, <1>6, <1>7 DEF hs, made

\* The calls stay within their bound.
LEMMA MuxCounts ==
    ASSUME MuxTypeOK, NEW n, MuxCall(n)
    PROVE  muxCalls' \in 0 .. MuxCalls
<1>1. MuxCalls \in Nat /\ muxCalls \in 0 .. MuxCalls /\ muxCalls < MuxCalls /\ muxCalls' = muxCalls + 1
  BY MuxAssumption DEF MuxTypeOK, MuxCall
<1> QED BY <1>1

\* A registering call comes before any message is served.
LEMMA MuxIdle ==
    ASSUME MuxInv, ~muxStarted, muxCtx' = muxCtx
    PROVE  MuxCtxHolds'
BY DEF MuxInv, MuxCtxHolds

\* A middleware of a kind without handlers: no chain shares the array.
LEMMA MuxUseKeeps ==
    ASSUME MuxInv, NEW k \in MuxKinds, NEW n \in MuxSizes, MuxUse(k, n)
    PROVE  MuxInv'
<1> DEFINE hs == MuxFresh(n)
           made == MuxCombine(k, hs)
           mids == muxMids[k]
<1>0. MuxTypeOK /\ MuxMidsHeld /\ MuxOwnArrays /\ MuxChainsHold
  BY DEF MuxInv
<1>1. /\ MuxCall(n) /\ ~muxStarted /\ ~MuxRegistered(k) /\ mids.len + n <= MuxMax
      /\ muxHeap' = made.heap /\ muxMids' = [muxMids EXCEPT ![k] = made.slice]
      /\ UNCHANGED <<muxChain, muxWant, muxStarted, muxPanicked, muxCtx>>
  BY DEF MuxUse
<1>2. /\ hs \in Seq(Nat) /\ Len(hs) = n /\ n \in Nat \ {0}
      /\ MuxNewer(hs, muxHandlers, muxHandlers') /\ muxHandlers' \in Nat
      /\ muxHeap \in Seq(Seq(Nat)) /\ MuxHeld(muxHeap, mids, muxHandlers)
      /\ MuxInPlace(muxHeap, mids, hs, made) \/ MuxInNew(muxHeap, mids, hs, made)
      /\ made.heap \in Seq(Seq(Nat)) /\ made.slice \in [arr : Nat, len : Nat]
  BY <1>1, MuxCombines
<1> HIDE DEF hs, made
<1>3. /\ MuxHeld(made.heap, made.slice, muxHandlers') /\ made.slice.len = mids.len + n
  <2>1. /\ muxHeap \in Seq(Seq(Nat)) /\ hs \in Seq(Nat)
        /\ MuxHeld(muxHeap, mids, muxHandlers) /\ MuxNewer(hs, muxHandlers, muxHandlers')
        /\ MuxInPlace(muxHeap, mids, hs, made) \/ MuxInNew(muxHeap, mids, hs, made)
    BY <1>2
  <2> HIDE DEF mids
  <2>2. MuxHeld(made.heap, made.slice, muxHandlers') /\ made.slice.len = mids.len + Len(hs)
    <3>1. MuxLonger(muxHeap, mids, hs, made, muxHandlers')
      BY <2>1, MuxMade
    <3> QED BY <3>1 DEF MuxLonger
  <2> QED BY <1>2, <2>2
<1>4. muxMids \in [MuxKinds -> [arr : Nat, len : Nat]]
  BY <1>0 DEF MuxTypeOK
<1>5. muxMids'[k] = made.slice /\ \A o \in MuxKinds : o # k => muxMids'[o] = muxMids[o]
  BY <1>1, <1>4
<1>6. MuxTypeOK'
  <2>1. muxCalls' \in 0 .. MuxCalls
    BY <1>0, <1>1, MuxCounts
  <2> QED BY <1>0, <1>1, <1>2, <2>1 DEF MuxTypeOK
<1>7. /\ made.slice.arr # 0
      /\ \/ made.slice.arr = mids.arr /\ MuxInPlace(muxHeap, mids, hs, made)
         \/ made.slice.arr > Len(muxHeap) /\ MuxInNew(muxHeap, mids, hs, made)
  <2>1. Len(muxHeap) \in Nat
    BY <1>2
  <2>2. \/ /\ MuxInPlace(muxHeap, mids, hs, made) /\ mids.arr # 0
           /\ made.slice = [arr |-> mids.arr, len |-> mids.len + Len(hs)]
        \/ /\ MuxInNew(muxHeap, mids, hs, made)
           /\ made.slice = [arr |-> Len(muxHeap) + 1, len |-> mids.len + Len(hs)]
    BY <1>2 DEF MuxInPlace, MuxInNew
  <2> DEFINE w == Len(muxHeap)
  <2>3. \/ MuxInPlace(muxHeap, mids, hs, made) /\ mids.arr # 0 /\ made.slice.arr = mids.arr
        \/ MuxInNew(muxHeap, mids, hs, made) /\ made.slice.arr = w + 1
    BY <2>2
  <2> HIDE DEF w
  <2>4. w \in Nat
    BY <2>1 DEF w
  <2>5. w + 1 > w /\ w + 1 # 0
    BY <2>4
  <2> QED BY <2>3, <2>5 DEF w
<1>8. \A o \in MuxKinds : o # k => muxMids[o].arr # mids.arr \/ muxMids[o].arr = 0
  BY <1>0 DEF MuxOwnArrays
<1>9. MuxMidsHeld'
  <2>1. \A o \in MuxKinds : o # k => MuxHeld(made.heap, muxMids[o], muxHandlers')
    <3> SUFFICES ASSUME NEW o \in MuxKinds, o # k PROVE MuxHeld(made.heap, muxMids[o], muxHandlers')
      OBVIOUS
    <3>1. MuxHeld(muxHeap, muxMids[o], muxHandlers)
      BY <1>0 DEF MuxMidsHeld
    <3>2. \/ MuxInPlace(muxHeap, mids, hs, made) /\ (muxMids[o].arr # mids.arr \/ muxMids[o].arr = 0)
          \/ MuxInNew(muxHeap, mids, hs, made)
      BY <1>2, <1>8
    <3>3. MuxUntouched(muxHeap, made, muxHandlers', muxMids[o])
      BY <1>2, <3>1, <3>2, MuxApart
    <3> QED BY <3>3 DEF MuxUntouched
  <2> QED BY <1>0, <1>1, <1>3, <1>5, <2>1 DEF MuxMidsHeld
\* Slices of other arrays.
<1>10. \A o \in MuxKinds, t \in MuxSlots : muxChain[o][t].arr # mids.arr \/ muxChain[o][t].arr = 0
  <2> SUFFICES ASSUME NEW o \in MuxKinds, NEW t \in MuxSlots, mids.arr # 0, muxChain[o][t].arr # 0
               PROVE  muxChain[o][t].arr # mids.arr
    OBVIOUS
  <2>1. CASE o = k
    <3>1. MuxChainHolds(k, t)
      BY <1>0 DEF MuxChainsHold
    <3>2. muxChain[k][t].len = 0
      <4>1. ~(muxChain[k][t].len > 0)
        BY <1>1 DEF MuxRegistered
      <4>2. muxChain[k][t].len \in Nat
        BY <3>1 DEF MuxChainHolds, MuxHeld, MuxSlice
      <4> QED BY <4>1, <4>2
    <3> QED BY <2>1, <3>1, <3>2 DEF MuxChainHolds
  <2>2. CASE o # k
    BY <1>0, <2>2 DEF MuxOwnArrays
  <2> QED BY <2>1, <2>2
<1>11. \A o \in MuxKinds, t \in MuxSlots :
           /\ MuxHeld(made.heap, muxChain[o][t], muxHandlers')
           /\ MuxSame(muxHeap, made.heap, muxChain[o][t], muxChain[o][t].len)
           /\ muxChain[o][t].arr <= Len(muxHeap)
  <2> SUFFICES ASSUME NEW o \in MuxKinds, NEW t \in MuxSlots
               PROVE  /\ MuxHeld(made.heap, muxChain[o][t], muxHandlers')
                      /\ MuxSame(muxHeap, made.heap, muxChain[o][t], muxChain[o][t].len)
                      /\ muxChain[o][t].arr <= Len(muxHeap)
    OBVIOUS
  <2>1. MuxHeld(muxHeap, muxChain[o][t], muxHandlers)
    BY <1>0 DEF MuxChainsHold, MuxChainHolds
  <2>2. \/ MuxInPlace(muxHeap, mids, hs, made) /\ (muxChain[o][t].arr # mids.arr \/ muxChain[o][t].arr = 0)
        \/ MuxInNew(muxHeap, mids, hs, made)
    BY <1>2, <1>10
  <2>3. MuxHeld(made.heap, muxChain[o][t], muxHandlers') /\ MuxSame(muxHeap, made.heap, muxChain[o][t], muxChain[o][t].len)
    <3>1. MuxUntouched(muxHeap, made, muxHandlers', muxChain[o][t])
      BY <1>2, <2>1, <2>2, MuxApart
    <3> QED BY <3>1 DEF MuxUntouched
  <2>4. muxChain[o][t].arr <= Len(muxHeap)
    <3>1. Len(muxHeap) \in Nat
      BY <1>2
    <3> QED BY <2>1, <3>1 DEF MuxHeld, MuxSlice
  <2> QED BY <2>3, <2>4
<1>12. \A o \in MuxKinds : muxMids[o].arr <= Len(muxHeap) /\ muxMids[o].arr \in Nat
  <2>1. Len(muxHeap) \in Nat
    BY <1>2
  <2> QED BY <1>0, <2>1 DEF MuxMidsHeld, MuxHeld, MuxSlice
<1>13. MuxOwnArrays'
  <2> SUFFICES ASSUME NEW p \in MuxKinds, NEW o \in MuxKinds, muxMids'[p].arr # 0, p # o
               PROVE  /\ muxMids'[o].arr # muxMids'[p].arr
                      /\ \A t \in MuxSlots : muxChain[o][t].arr # muxMids'[p].arr
    BY <1>1 DEF MuxOwnArrays
  <2>0. Len(muxHeap) \in Nat /\ made.slice.arr \in Nat
    BY <1>2
  <2>1. CASE p = k
    <3>1. muxMids'[p].arr = made.slice.arr /\ muxMids'[o] = muxMids[o]
      BY <1>5, <2>1
    <3>2. CASE made.slice.arr = mids.arr
      BY <1>0, <1>7, <2>1, <3>1, <3>2 DEF MuxOwnArrays
    <3>3. CASE made.slice.arr > Len(muxHeap)
      <4>1. \A a \in Nat : a <= Len(muxHeap) => a # made.slice.arr
        BY <2>0, <3>3
      <4>2. \A t \in MuxSlots : muxChain[o][t].arr \in Nat
        BY <1>11 DEF MuxHeld, MuxSlice
      <4> QED BY <1>11, <1>12, <3>1, <4>1, <4>2
    <3> QED BY <1>7, <3>2, <3>3
  <2>2. CASE p # k /\ o # k
    BY <1>0, <1>5, <2>2 DEF MuxOwnArrays
  <2>3. CASE p # k /\ o = k
    <3>1. muxMids'[p] = muxMids[p] /\ muxMids'[o].arr = made.slice.arr
      BY <1>5, <2>3
    <3>2. muxMids[p].arr # 0 /\ mids.arr # muxMids[p].arr /\ \A t \in MuxSlots : muxChain[o][t].arr # muxMids[p].arr
      BY <1>0, <2>3, <3>1 DEF MuxOwnArrays
    <3>3. made.slice.arr # muxMids[p].arr
      <4>1. muxMids[p].arr \in Nat /\ muxMids[p].arr <= Len(muxHeap)
        BY <1>12
      <4> QED BY <1>7, <2>0, <3>2, <4>1
    <3> QED BY <3>1, <3>2, <3>3
  <2> QED BY <2>1, <2>2, <2>3
<1>14. MuxChainsHold'
  <2> SUFFICES ASSUME NEW o \in MuxKinds, NEW t \in MuxSlots PROVE MuxChainHolds(o, t)'
    BY DEF MuxChainsHold
  <2> DEFINE c == muxChain[o][t]
  <2>1. MuxChainHolds(o, t)
    BY <1>0 DEF MuxChainsHold
  <2>2. /\ MuxHeld(made.heap, c, muxHandlers') /\ MuxSame(muxHeap, made.heap, c, c.len) /\ c.len \in Nat
    BY <1>11 DEF MuxHeld, MuxSlice
  <2>3. Len(muxWant[o][t]) = c.len /\ (c.len = 0 => c.arr = 0)
    BY <2>1 DEF MuxChainHolds
  <2>4. CASE o = k
    <3>1. ~(c.len > 0)
      BY <1>1, <2>4 DEF MuxRegistered
    <3> QED BY <1>1, <2>2, <2>3, <3>1 DEF MuxChainHolds
  <2>5. CASE o # k /\ c.len > 0
    <3>1. muxMids'[o] = muxMids[o]
      BY <1>5, <2>5
    <3>2. /\ muxMids[o].len <= c.len /\ c.len <= MuxMax
          /\ \A i \in 1 .. muxMids[o].len : MuxAt(muxHeap, c, i) = MuxAt(muxHeap, muxMids[o], i)
          /\ c.arr = muxMids[o].arr => MuxRoom(o)
          /\ c.arr # muxMids[o].arr => \A i \in 1 .. c.len : MuxAt(muxHeap, c, i) = muxWant[o][t][i]
      BY <2>1, <2>5 DEF MuxChainHolds
    <3>3. MuxHeld(muxHeap, muxMids[o], muxHandlers)
      BY <1>0 DEF MuxMidsHeld
    <3>4. /\ MuxHeld(made.heap, muxMids[o], muxHandlers')
          /\ MuxSame(muxHeap, made.heap, muxMids[o], muxMids[o].len)
          /\ muxMids[o].arr # 0 => made.heap[muxMids[o].arr] = muxHeap[muxMids[o].arr]
      <4>1. \/ MuxInPlace(muxHeap, mids, hs, made) /\ (muxMids[o].arr # mids.arr \/ muxMids[o].arr = 0)
            \/ MuxInNew(muxHeap, mids, hs, made)
        BY <1>2, <1>8, <2>5
      <4>2. MuxUntouched(muxHeap, made, muxHandlers', muxMids[o])
        BY <1>2, <3>3, <4>1, MuxApart
      <4> QED BY <4>2 DEF MuxUntouched
    <3>5. c.arr = muxMids[o].arr => MuxRoom(o)'
      BY <1>1, <3>1, <3>2, <3>4 DEF MuxRoom
    <3>6. \A i \in 1 .. muxMids[o].len : MuxAt(made.heap, c, i) = MuxAt(made.heap, muxMids[o], i)
      <4>1. \A i \in 1 .. muxMids[o].len : i \in 1 .. c.len
        BY <2>2, <3>2, <3>3 DEF MuxHeld, MuxSlice
      <4> QED BY <2>2, <3>2, <3>4, <4>1 DEF MuxSame
    <3>7. c.arr # muxMids[o].arr => \A i \in 1 .. c.len : MuxAt(made.heap, c, i) = muxWant[o][t][i]
      BY <2>2, <3>2 DEF MuxSame
    <3> QED BY <1>1, <2>2, <2>3, <3>1, <3>2, <3>5, <3>6, <3>7 DEF MuxChainHolds
  <2>6. CASE ~(c.len > 0)
    BY <1>1, <2>2, <2>3, <2>6 DEF MuxChainHolds
  <2> QED BY <2>4, <2>5, <2>6
<1>15. MuxCtxHolds'
  BY <1>1, MuxIdle
<1> QED BY <1>6, <1>9, <1>13, <1>14, <1>15 DEF MuxInv
\* A chain: those that share the array keep their middlewares.
LEMMA MuxHandleKeeps ==
    ASSUME MuxInv, NEW k \in MuxKinds, NEW t \in MuxSlots, NEW n \in MuxSizes, MuxHandle(k, t, n)
    PROVE  MuxInv'
<1> DEFINE hs == MuxFresh(n)
           made == MuxCombine(k, hs)
           mids == muxMids[k]
<1>0. MuxTypeOK /\ MuxMidsHeld /\ MuxOwnArrays /\ MuxChainsHold
  BY DEF MuxInv
<1>1. /\ MuxCall(n) /\ ~muxStarted /\ mids.len + n <= MuxMax
      /\ muxHeap' = made.heap /\ muxChain' = [muxChain EXCEPT ![k][t] = made.slice]
      /\ muxWant' = [muxWant EXCEPT ![k][t] = MuxContent(muxHeap, mids) \o hs]
      /\ UNCHANGED <<muxMids, muxStarted, muxPanicked, muxCtx>>
  BY DEF MuxHandle
<1>2. /\ hs \in Seq(Nat) /\ Len(hs) = n /\ n \in Nat \ {0}
      /\ MuxNewer(hs, muxHandlers, muxHandlers') /\ muxHandlers' \in Nat
      /\ muxHeap \in Seq(Seq(Nat)) /\ MuxHeld(muxHeap, mids, muxHandlers)
      /\ MuxInPlace(muxHeap, mids, hs, made) \/ MuxInNew(muxHeap, mids, hs, made)
      /\ made.heap \in Seq(Seq(Nat)) /\ made.slice \in [arr : Nat, len : Nat]
  BY <1>1, MuxCombines
<1> DEFINE want == MuxContent(muxHeap, mids) \o hs
<1> HIDE DEF hs, made
<1>3. MuxLonger(muxHeap, mids, hs, made, muxHandlers')
  BY <1>2, MuxMade
<1>4. mids.len \in Nat /\ mids.arr \in Nat /\ Len(muxHeap) \in Nat /\ mids.arr <= Len(muxHeap)
  <2>1. Len(muxHeap) \in Nat
    BY <1>2
  <2> QED BY <1>2, <2>1 DEF MuxHeld, MuxSlice
<1>5. /\ want \in Seq(Nat) /\ Len(want) = mids.len + n
      /\ \A i \in 1 .. mids.len : want[i] = MuxAt(muxHeap, mids, i)
      /\ \A i \in 1 .. n : want[mids.len + i] = hs[i]
  <2> DEFINE held == MuxContent(muxHeap, mids)
  <2>1. /\ held \in Seq(Nat) /\ Len(held) = mids.len
        /\ \A i \in 1 .. mids.len : held[i] = MuxAt(muxHeap, mids, i)
    BY <1>2, MuxContentIs DEF MuxHeld
  <2> HIDE DEF held
  <2>2. /\ held \o hs \in Seq(Nat) /\ Len(held \o hs) = Len(held) + Len(hs)
        /\ \A i \in 1 .. Len(held) : (held \o hs)[i] = held[i]
        /\ \A i \in 1 .. Len(hs) : (held \o hs)[Len(held) + i] = hs[i]
    BY <1>2, <2>1, JoinsNat
  <2>3. want = held \o hs
    BY DEF held
  <2> HIDE DEF want
  <2> QED BY <1>2, <2>1, <2>2, <2>3
<1>6. /\ muxChain'[k][t] = made.slice /\ muxWant'[k][t] = want
      /\ \A o \in MuxKinds, u \in MuxSlots :
             o # k \/ u # t => muxChain'[o][u] = muxChain[o][u] /\ muxWant'[o][u] = muxWant[o][u]
  BY <1>0, <1>1 DEF MuxTypeOK
<1> HIDE DEF want
<1>7. MuxTypeOK'
  <2>1. muxCalls' \in 0 .. MuxCalls
    BY <1>0, <1>1, MuxCounts
  <2>2. muxChain' \in [MuxKinds -> [MuxSlots -> [arr : Nat, len : Nat]]]
    BY <1>0, <1>1, <1>2 DEF MuxTypeOK
  <2>3. muxWant' \in [MuxKinds -> [MuxSlots -> Seq(Nat)]]
    BY <1>0, <1>1, <1>5 DEF MuxTypeOK, want
  <2> QED BY <1>0, <1>1, <1>2, <2>1, <2>2, <2>3 DEF MuxTypeOK
<1>8. \/ /\ MuxInPlace(muxHeap, mids, hs, made) /\ made.slice.arr = mids.arr /\ mids.arr # 0
         /\ mids.len < Len(muxHeap[mids.arr])
      \/ MuxInNew(muxHeap, mids, hs, made) /\ made.slice.arr > Len(muxHeap)
  <2>1. CASE MuxInPlace(muxHeap, mids, hs, made)
    <3>1. /\ made.slice = [arr |-> mids.arr, len |-> mids.len + Len(hs)] /\ mids.arr # 0
          /\ mids.len + Len(hs) <= Len(muxHeap[mids.arr])
      BY <2>1 DEF MuxInPlace
    <3>2. Len(muxHeap[mids.arr]) \in Nat
      BY <1>2, <1>4, <3>1
    <3>3. mids.len < Len(muxHeap[mids.arr])
      BY <1>2, <1>4, <3>1, <3>2
    <3> QED BY <2>1, <3>1, <3>3
  <2>2. CASE MuxInNew(muxHeap, mids, hs, made)
    <3>1. made.slice = [arr |-> Len(muxHeap) + 1, len |-> mids.len + Len(hs)]
      BY <2>2 DEF MuxInNew
    <3>2. made.slice.arr = Len(muxHeap) + 1
      BY <3>1
    <3>3. made.slice.arr > Len(muxHeap)
      BY <1>4, <3>2
    <3> QED BY <2>2, <3>3
  <2> QED BY <1>2, <2>1, <2>2
\* The middlewares stay what they are.
<1>9. \A o \in MuxKinds : /\ MuxHeld(made.heap, muxMids[o], muxHandlers')
                          /\ MuxSame(muxHeap, made.heap, muxMids[o], muxMids[o].len)
                          /\ muxMids[o].arr # 0 => Len(made.heap[muxMids[o].arr]) = Len(muxHeap[muxMids[o].arr])
  <2> SUFFICES ASSUME NEW o \in MuxKinds
               PROVE  /\ MuxHeld(made.heap, muxMids[o], muxHandlers')
                      /\ MuxSame(muxHeap, made.heap, muxMids[o], muxMids[o].len)
                      /\ muxMids[o].arr # 0 => Len(made.heap[muxMids[o].arr]) = Len(muxHeap[muxMids[o].arr])
    OBVIOUS
  <2>1. MuxHeld(muxHeap, muxMids[o], muxHandlers)
    BY <1>0 DEF MuxMidsHeld
  <2>2. CASE /\ MuxInPlace(muxHeap, mids, hs, made) /\ o = k
    <3>1. mids.len <= mids.len
      BY <1>4
    <3>2. MuxHeld(made.heap, mids, muxHandlers') /\ MuxSame(muxHeap, made.heap, mids, mids.len)
      BY <1>2, <2>2, <3>1, MuxOverwritten
    <3>3. Len(made.heap[mids.arr]) = Len(muxHeap[mids.arr])
      BY <2>2 DEF MuxInPlace
    <3> QED BY <2>2, <3>2, <3>3
  <2>3. CASE MuxInNew(muxHeap, mids, hs, made) \/ (MuxInPlace(muxHeap, mids, hs, made) /\ o # k)
    <3>1. \/ MuxInPlace(muxHeap, mids, hs, made) /\ (muxMids[o].arr # mids.arr \/ muxMids[o].arr = 0)
          \/ MuxInNew(muxHeap, mids, hs, made)
      BY <1>0, <2>3 DEF MuxOwnArrays
    <3>2. MuxUntouched(muxHeap, made, muxHandlers', muxMids[o])
      BY <1>2, <2>1, <3>1, MuxApart
    <3> QED BY <3>2 DEF MuxUntouched
  <2> QED BY <1>2, <2>2, <2>3
<1>10. MuxMidsHeld'
  <2>1. \A o \in MuxKinds : MuxHeld(made.heap, muxMids[o], muxHandlers')
    BY <1>9
  <2>2. muxHeap' = made.heap /\ muxMids' = muxMids
    BY <1>1
  <2>3. \A o \in MuxKinds : muxMids[o].len <= MuxMax
    BY <1>0 DEF MuxMidsHeld
  <2> QED BY <2>1, <2>2, <2>3 DEF MuxMidsHeld
<1>11. MuxOwnArrays'
  <2> SUFFICES ASSUME NEW p \in MuxKinds, NEW o \in MuxKinds, muxMids[p].arr # 0, p # o
               PROVE  /\ muxMids[o].arr # muxMids[p].arr
                      /\ \A u \in MuxSlots : muxChain'[o][u].arr # muxMids[p].arr
    BY <1>1 DEF MuxOwnArrays
  <2>1. muxMids[o].arr # muxMids[p].arr /\ \A u \in MuxSlots : muxChain[o][u].arr # muxMids[p].arr
    BY <1>0 DEF MuxOwnArrays
  <2>2. o = k => made.slice.arr # muxMids[p].arr
    <3>1. muxMids[p].arr \in Nat /\ muxMids[p].arr <= Len(muxHeap)
      BY <1>0, <1>4 DEF MuxMidsHeld, MuxHeld, MuxSlice
    <3>2. made.slice.arr \in Nat
      BY <1>2
    <3> QED BY <1>4, <1>8, <2>1, <3>1, <3>2
  <2> QED BY <1>6, <2>1, <2>2
<1>12. MuxChainsHold'
  <2> SUFFICES ASSUME NEW o \in MuxKinds, NEW u \in MuxSlots PROVE MuxChainHolds(o, u)'
    BY DEF MuxChainsHold
  <2>0. /\ MuxHeld(muxHeap, muxMids[o], muxHandlers) /\ muxMids[o].len \in Nat
        /\ MuxSame(muxHeap, made.heap, muxMids[o], muxMids[o].len)
        /\ muxMids[o].arr # 0 => Len(made.heap[muxMids[o].arr]) = Len(muxHeap[muxMids[o].arr])
    <3>1. MuxHeld(muxHeap, muxMids[o], muxHandlers) /\ muxMids[o].len \in Nat
      BY <1>0 DEF MuxMidsHeld, MuxHeld, MuxSlice
    <3> QED BY <1>9, <3>1
  <2>1. CASE o = k /\ u = t
    <3> DEFINE c == made.slice
    <3>1. /\ MuxHeld(made.heap, c, muxHandlers') /\ c.len = mids.len + n
          /\ \A i \in 1 .. mids.len : MuxAt(made.heap, c, i) = MuxAt(muxHeap, mids, i)
          /\ \A i \in 1 .. n : MuxAt(made.heap, c, mids.len + i) = hs[i]
      BY <1>2, <1>3 DEF MuxLonger
    <3>2. c.len > 0 /\ mids.len <= c.len /\ c.len <= MuxMax /\ c.len # 0
      BY <1>1, <1>2, <1>4, <3>1
    <3>3. \A i \in 1 .. mids.len : MuxAt(made.heap, c, i) = MuxAt(made.heap, mids, i)
      BY <2>0, <2>1, <3>1 DEF MuxSame
    <3>4. c.arr = mids.arr => MuxRoom(k)'
      <4>1. c.arr = mids.arr => mids.arr # 0 /\ mids.len < Len(muxHeap[mids.arr])
        BY <1>4, <1>8
      <4> QED BY <1>1, <2>0, <2>1, <4>1 DEF MuxRoom
    <3>5. \A i \in 1 .. c.len : MuxAt(made.heap, c, i) = want[i]
      <4> SUFFICES ASSUME NEW i \in 1 .. c.len PROVE MuxAt(made.heap, c, i) = want[i]
        OBVIOUS
      <4>1. CASE i <= mids.len
        BY <1>4, <1>5, <3>1, <4>1
      <4>2. CASE i > mids.len
        <5>1. i - mids.len \in 1 .. n /\ mids.len + (i - mids.len) = i
          <6>1. \A x, y, z \in Nat : \A j \in 1 .. z : (z = x + y /\ j > x) => (j - x \in 1 .. y /\ x + (j - x) = j)
            OBVIOUS
          <6>2. mids.len \in Nat /\ n \in Nat /\ c.len \in Nat /\ c.len = mids.len + n
            BY <1>2, <1>4, <3>1
          <6> HIDE DEF c, mids
          <6> QED BY <4>2, <6>1, <6>2
        <5>2. MuxAt(made.heap, c, mids.len + (i - mids.len)) = want[mids.len + (i - mids.len)]
          BY <1>5, <3>1, <5>1
        <5> QED BY <5>1, <5>2
      <4> QED BY <1>4, <4>1, <4>2
    <3>6. muxChain'[o][u] = c /\ muxWant'[o][u] = want /\ Len(want) = c.len
      BY <1>5, <1>6, <2>1, <3>1
    <3> HIDE DEF c
    <3> QED BY <1>1, <2>1, <3>1, <3>2, <3>3, <3>4, <3>5, <3>6 DEF MuxChainHolds
  <2>2. CASE o # k \/ u # t
    <3> DEFINE c == muxChain[o][u]
    <3>1. muxChain'[o][u] = c /\ muxWant'[o][u] = muxWant[o][u]
      BY <1>6, <2>2
    <3>2. MuxChainHolds(o, u)
      BY <1>0 DEF MuxChainsHold
    <3>3. MuxHeld(muxHeap, c, muxHandlers) /\ c.len \in Nat /\ Len(muxWant[o][u]) = c.len /\ (c.len = 0 => c.arr = 0)
      BY <3>2 DEF MuxChainHolds, MuxHeld, MuxSlice
    <3>4. c.len > 0 =>
          /\ muxMids[o].len <= c.len /\ c.len <= MuxMax
          /\ \A i \in 1 .. muxMids[o].len : MuxAt(muxHeap, c, i) = MuxAt(muxHeap, muxMids[o], i)
          /\ c.arr = muxMids[o].arr => MuxRoom(o)
          /\ c.arr # muxMids[o].arr => \A i \in 1 .. c.len : MuxAt(muxHeap, c, i) = muxWant[o][u][i]
      BY <3>2 DEF MuxChainHolds
    <3>5. MuxRoom(o) => MuxRoom(o)'
      BY <1>1, <2>0 DEF MuxRoom
    <3>6. CASE MuxInPlace(muxHeap, mids, hs, made) /\ c.arr = mids.arr /\ c.arr # 0
      <4>1. o = k
        BY <1>0, <3>6 DEF MuxOwnArrays
      <4>2. c.len > 0
        BY <3>3, <3>6
      <4>3. mids.len <= c.len
        BY <3>4, <4>1, <4>2
      <4>4. MuxHeld(made.heap, c, muxHandlers') /\ MuxSame(muxHeap, made.heap, c, mids.len)
        BY <1>2, <3>3, <3>6, <4>3, MuxOverwritten
      <4>5. \A i \in 1 .. mids.len : MuxAt(made.heap, c, i) = MuxAt(made.heap, mids, i)
        BY <2>0, <3>4, <4>1, <4>2, <4>4 DEF MuxSame
      <4> HIDE DEF c
      <4> QED BY <1>1, <3>1, <3>3, <3>4, <3>5, <3>6, <4>1, <4>2, <4>4, <4>5 DEF MuxChainHolds
    <3>7. CASE ~(MuxInPlace(muxHeap, mids, hs, made) /\ c.arr = mids.arr /\ c.arr # 0)
      <4>1. \/ MuxInPlace(muxHeap, mids, hs, made) /\ (c.arr # mids.arr \/ c.arr = 0)
            \/ MuxInNew(muxHeap, mids, hs, made)
        BY <1>2, <3>7
      <4>2. MuxUntouched(muxHeap, made, muxHandlers', c)
        BY <1>2, <3>3, <4>1, MuxApart
      <4>3. MuxHeld(made.heap, c, muxHandlers') /\ MuxSame(muxHeap, made.heap, c, c.len)
        BY <4>2 DEF MuxUntouched
      <4>4. c.len > 0 => \A i \in 1 .. muxMids[o].len : MuxAt(made.heap, c, i) = MuxAt(made.heap, muxMids[o], i)
        <5> SUFFICES ASSUME c.len > 0, NEW i \in 1 .. muxMids[o].len
                     PROVE  MuxAt(made.heap, c, i) = MuxAt(made.heap, muxMids[o], i)
          OBVIOUS
        <5>1. i \in 1 .. c.len
          BY <2>0, <3>3, <3>4
        <5> QED BY <2>0, <3>4, <4>3, <5>1 DEF MuxSame
      <4>5. c.len > 0 /\ c.arr # muxMids[o].arr => \A i \in 1 .. c.len : MuxAt(made.heap, c, i) = muxWant[o][u][i]
        BY <3>4, <4>3 DEF MuxSame
      <4> HIDE DEF c
      <4> QED BY <1>1, <3>1, <3>3, <3>4, <3>5, <4>3, <4>4, <4>5 DEF MuxChainHolds
    <3> QED BY <3>6, <3>7
  <2> QED BY <2>1, <2>2
<1>13. MuxCtxHolds'
  BY <1>1, MuxIdle
<1> QED BY <1>7, <1>10, <1>11, <1>12, <1>13 DEF MuxInv

\* What the tables say when they stay.
LEMMA MuxTablesStay ==
    ASSUME MuxInv, UNCHANGED muxTables
    PROVE  MuxMidsHeld' /\ MuxOwnArrays' /\ MuxChainsHold'
<1>1. /\ muxHeap' = muxHeap /\ muxMids' = muxMids /\ muxChain' = muxChain /\ muxWant' = muxWant
      /\ muxHandlers' = muxHandlers
  BY DEF muxTables
<1>2. MuxMidsHeld'
  BY <1>1 DEF MuxInv, MuxMidsHeld
<1>3. MuxOwnArrays'
  BY <1>1 DEF MuxInv, MuxOwnArrays
<1>4. MuxChainsHold'
  BY <1>1 DEF MuxInv, MuxChainsHold, MuxChainHolds, MuxRoom
<1> QED BY <1>2, <1>3, <1>4

\* A call that panics leaves the tables.
LEMMA MuxPanicKeeps ==
    ASSUME MuxInv, NEW k \in MuxKinds, NEW n \in MuxSizes \cup {0}, NEW m \in BOOLEAN, MuxPanic(k, n, m)
    PROVE  MuxInv'
<1>0. MuxTypeOK /\ MuxMidsHeld /\ MuxOwnArrays /\ MuxChainsHold /\ MuxCtxHolds
  BY DEF MuxInv
<1>1. /\ MuxCall(n) /\ muxPanicked' = TRUE
      /\ UNCHANGED <<muxHeap, muxMids, muxChain, muxWant, muxStarted, muxCtx>>
  BY DEF MuxPanic
<1>2. muxHandlers \in Nat /\ muxHandlers' \in Nat /\ muxHandlers <= muxHandlers' /\ muxCalls' \in 0 .. MuxCalls
  BY <1>0, <1>1, MuxAssumption DEF MuxTypeOK, MuxCall
<1>3. MuxTypeOK'
  BY <1>0, <1>1, <1>2 DEF MuxTypeOK
<1>4. \A s : MuxHeld(muxHeap, s, muxHandlers) => MuxHeld(muxHeap, s, muxHandlers')
  BY <1>2 DEF MuxHeld
<1>5. MuxMidsHeld'
  BY <1>0, <1>1, <1>4 DEF MuxMidsHeld
<1>6. MuxOwnArrays'
  BY <1>0, <1>1 DEF MuxOwnArrays
<1>7. MuxChainsHold'
  BY <1>0, <1>1, <1>4 DEF MuxChainsHold, MuxChainHolds, MuxRoom
<1>8. MuxCtxHolds'
  BY <1>0, <1>1 DEF MuxCtxHolds, MuxServing
<1> QED BY <1>3, <1>5, <1>6, <1>7, <1>8 DEF MuxInv

\* A message finds its chain.
LEMMA MuxServeKeeps ==
    ASSUME MuxInv, NEW k \in MuxKinds, NEW t \in MuxSlots, MuxServe(k, t)
    PROVE  MuxInv'
<1> DEFINE found == MuxFind(k, t)
<1>0. MuxTypeOK
  BY DEF MuxInv
<1>1. /\ muxStarted' = TRUE /\ UNCHANGED muxTables /\ muxPanicked' = muxPanicked
      /\ muxCtx' = [kind |-> k, slot |-> found, at |-> 0,
                    depth |-> IF muxChain[k][found].len = 0 THEN 0 ELSE 1,
                    ran |-> <<>>, aborted |-> FALSE]
  BY DEF MuxServe, MuxNoCtx
<1>2. found \in MuxSlots
  BY DEF MuxFind, MuxSlots
<1>3. MuxHeld(muxHeap, muxChain[k][found], muxHandlers)
  BY <1>2 DEF MuxInv, MuxChainsHold, MuxChainHolds
<1>4. muxChain[k][found].len \in Nat
  BY <1>3 DEF MuxHeld, MuxSlice
<1> HIDE DEF found
<1>5. MuxTypeOK'
  <2>1. muxCtx' \in [kind : MuxKinds, slot : MuxSlots, at : Nat, depth : Nat,
                     ran : Seq(Nat), aborted : BOOLEAN]
    BY <1>1, <1>2
  <2> QED BY <1>0, <1>1, <2>1 DEF MuxTypeOK, muxTables
<1>6. MuxCtxHolds'
  <2>1. MuxServing' = muxChain[k][found]
    BY <1>1 DEF MuxServing, muxTables
  <2> QED BY <1>1, <1>4, <2>1 DEF MuxCtxHolds
<1> QED BY <1>1, <1>5, <1>6, MuxTablesStay DEF MuxInv

\* The next handler of it runs.
LEMMA MuxRunKeeps ==
    ASSUME MuxInv, NEW does \in {"return", "next", "abort"}, MuxRun(does)
    PROVE  MuxInv'
<1> DEFINE s == MuxServing
           h == MuxContent(muxHeap, s)[muxCtx.at + 1]
           at == muxCtx.at
           ran == muxCtx.ran
<1>0. MuxTypeOK /\ MuxCtxHolds /\ MuxChainsHold
  BY DEF MuxInv
<1>1. /\ muxCtx.depth > 0 /\ at < s.len
      /\ muxCtx' = [muxCtx EXCEPT !.ran = Append(ran, h), !.at = MuxPlace(does, at),
                                  !.depth = IF does = "next" THEN muxCtx.depth + 1 ELSE muxCtx.depth,
                                  !.aborted = muxCtx.aborted \/ does = "abort"]
      /\ UNCHANGED muxTables /\ UNCHANGED <<muxStarted, muxPanicked>>
  BY DEF MuxRun
<1>2. muxCtx \in [kind : MuxKinds, slot : MuxSlots, at : Nat, depth : Nat, ran : Seq(Nat), aborted : BOOLEAN]
  BY <1>0 DEF MuxTypeOK
<1>3. /\ muxStarted /\ s.len > 0 /\ Len(ran) <= at
      /\ \A i \in 1 .. Len(ran) : ran[i] = MuxAt(muxHeap, s, i)
      /\ ~muxCtx.aborted => at = Len(ran)
      /\ muxCtx.aborted => at >= s.len
  BY <1>0, <1>1 DEF MuxCtxHolds
<1>4. MuxChainHolds(muxCtx.kind, muxCtx.slot)
  BY <1>0, <1>2 DEF MuxChainsHold
<1>5. MuxHeld(muxHeap, s, muxHandlers) /\ s.len \in Nat /\ s.len <= MuxMax
  BY <1>3, <1>4 DEF MuxChainHolds, MuxServing, MuxHeld, MuxSlice
<1>6. at \in Nat /\ ran \in Seq(Nat) /\ Len(ran) \in Nat /\ muxCtx.depth \in Nat /\ MuxMax \in Nat
  BY <1>2, MuxAssumption
<1>7. at = Len(ran) /\ ~muxCtx.aborted
  BY <1>1, <1>3, <1>5, <1>6
<1>8. /\ h = MuxAt(muxHeap, s, at + 1) /\ h \in Nat
  <2>1. at + 1 \in 1 .. s.len
    BY <1>1, <1>5, <1>6
  <2>2. muxHeap \in Seq(Seq(Nat)) /\ muxHandlers \in Nat
    BY <1>0 DEF MuxTypeOK
  <2>3. h = MuxAt(muxHeap, s, at + 1)
    BY <1>5, <2>1, <2>2, MuxContentIs DEF MuxHeld
  <2>4. MuxAt(muxHeap, s, at + 1) \in 1 .. muxHandlers
    BY <1>5, <2>1 DEF MuxHeld
  <2> QED BY <2>2, <2>3, <2>4
<1> DEFINE place == MuxPlace(does, at)
           more == Append(ran, h)
<1>9. place \in Nat /\ (does # "abort" => place = at + 1) /\ (does = "abort" => place = MuxMax)
  BY <1>6 DEF MuxPlace
<1> HIDE DEF s, h, place
<1>10. /\ more \in Seq(Nat) /\ Len(more) = at + 1 /\ more # <<>>
       /\ \A i \in 1 .. Len(more) : more[i] = MuxAt(muxHeap, s, i)
  <2> HIDE DEF ran, at
  <2>1. /\ more \in Seq(Nat) /\ Len(more) = Len(ran) + 1 /\ more[Len(ran) + 1] = h
        /\ \A i \in 1 .. Len(ran) : more[i] = ran[i]
    BY <1>6, <1>8
  <2> HIDE DEF more
  <2>2. \A i \in 1 .. Len(more) : i \in 1 .. Len(ran) \/ i = Len(ran) + 1
    BY <1>6, <2>1
  <2>3. more # <<>>
    BY <1>6, <2>1
  <2> QED BY <1>3, <1>7, <1>8, <2>1, <2>2, <2>3
<1> DEFINE depth == IF does = "next" THEN muxCtx.depth + 1 ELSE muxCtx.depth
<1>11. muxCtx' = [kind |-> muxCtx.kind, slot |-> muxCtx.slot, at |-> place, depth |-> depth,
                  ran |-> more, aborted |-> muxCtx.aborted \/ does = "abort"]
  BY <1>1, <1>2 DEF place
<1>12. depth \in Nat /\ depth > 0
  BY <1>1, <1>6
<1> HIDE DEF more, depth
<1>13. MuxTypeOK'
  <2>1. muxCtx' \in [kind : MuxKinds, slot : MuxSlots, at : Nat, depth : Nat,
                     ran : Seq(Nat), aborted : BOOLEAN]
    <3>1. muxCtx.kind \in MuxKinds /\ muxCtx.slot \in MuxSlots /\ (muxCtx.aborted \/ does = "abort") \in BOOLEAN
      BY <1>2
    <3> QED BY <1>9, <1>10, <1>11, <1>12, <3>1
  <2> QED BY <1>0, <1>1, <2>1 DEF MuxTypeOK, muxTables
<1>14. MuxCtxHolds'
  <2>1. muxCtx'.kind = muxCtx.kind /\ muxCtx'.slot = muxCtx.slot
    BY <1>11
  <2>2. MuxServing' = s /\ muxHeap' = muxHeap
    BY <1>1, <2>1 DEF MuxServing, muxTables, s
  <2>3. muxCtx'.ran = more /\ muxCtx'.at = place /\ muxCtx'.depth = depth
    BY <1>11
  <2>4. muxCtx'.aborted <=> does = "abort"
    BY <1>7, <1>11
  <2>5. Len(more) <= s.len /\ Len(more) <= place /\ (does # "abort" => place = Len(more)) /\ (does = "abort" => place >= s.len)
    BY <1>1, <1>5, <1>6, <1>9, <1>10
  <2>6. muxStarted' /\ s.len > 0 /\ depth # 0
    BY <1>1, <1>3, <1>12
  <2>7. \A i \in 1 .. Len(more) : more[i] = MuxAt(muxHeap, s, i)
    BY <1>10
  <2> QED BY <2>2, <2>3, <2>4, <2>5, <2>6, <2>7 DEF MuxCtxHolds
<1> QED BY <1>1, <1>13, <1>14, MuxTablesStay DEF MuxInv

\* A handler returns.
LEMMA MuxReturnKeeps ==
    ASSUME MuxInv, MuxReturn
    PROVE  MuxInv'
<1>0. MuxTypeOK /\ MuxCtxHolds
  BY DEF MuxInv
<1>1. /\ muxCtx.depth > 0 /\ muxCtx.at >= MuxServing.len
      /\ muxCtx' = [muxCtx EXCEPT !.depth = muxCtx.depth - 1]
      /\ UNCHANGED muxTables /\ UNCHANGED <<muxStarted, muxPanicked>>
  BY DEF MuxReturn
<1>2. muxCtx \in [kind : MuxKinds, slot : MuxSlots, at : Nat, depth : Nat, ran : Seq(Nat), aborted : BOOLEAN]
  BY <1>0 DEF MuxTypeOK
<1>3. MuxTypeOK'
  <2>1. muxCtx.depth - 1 \in Nat
    BY <1>1, <1>2
  <2>2. muxCtx' \in [kind : MuxKinds, slot : MuxSlots, at : Nat, depth : Nat,
                     ran : Seq(Nat), aborted : BOOLEAN]
    BY <1>1, <1>2, <2>1
  <2> QED BY <1>0, <1>1, <2>2 DEF MuxTypeOK, muxTables
<1>4. MuxCtxHolds'
  <2>1. MuxServing' = MuxServing /\ muxHeap' = muxHeap
    BY <1>1, <1>2 DEF MuxServing, muxTables
  <2>2. muxCtx'.ran = muxCtx.ran /\ muxCtx'.at = muxCtx.at /\ muxCtx'.aborted = muxCtx.aborted
    BY <1>1, <1>2
  <2> QED BY <1>0, <1>1, <2>1, <2>2 DEF MuxCtxHolds
<1> QED BY <1>1, <1>3, <1>4, MuxTablesStay DEF MuxInv

\* Every step keeps the invariant.
LEMMA MuxInvNext == MuxInv /\ [MuxNext]_muxVars => MuxInv'
<1> SUFFICES ASSUME MuxInv, [MuxNext]_muxVars PROVE MuxInv'
  OBVIOUS
<1>1. ASSUME NEW k \in MuxKinds, NEW n \in MuxSizes, MuxUse(k, n) PROVE MuxInv'
  BY <1>1, MuxUseKeeps
<1>2. ASSUME NEW k \in MuxKinds, NEW n \in MuxSizes, NEW t \in MuxSlots, MuxHandle(k, t, n) PROVE MuxInv'
  BY <1>2, MuxHandleKeeps
<1>3. ASSUME NEW k \in MuxKinds, NEW n \in MuxSizes \cup {0}, NEW m \in BOOLEAN, MuxPanic(k, n, m) PROVE MuxInv'
  BY <1>3, MuxPanicKeeps
<1>4. ASSUME NEW k \in MuxKinds, NEW t \in MuxSlots, MuxServe(k, t) PROVE MuxInv'
  BY <1>4, MuxServeKeeps
<1>5. ASSUME NEW does \in {"return", "next", "abort"}, MuxRun(does) PROVE MuxInv'
  BY <1>5, MuxRunKeeps
<1>6. CASE MuxReturn
  BY <1>6, MuxReturnKeeps
<1>7. CASE UNCHANGED muxVars
  <2>1. UNCHANGED muxTables /\ UNCHANGED <<muxStarted, muxPanicked, muxCtx>>
    BY <1>7 DEF muxVars
  <2>2. MuxTypeOK'
    BY <2>1 DEF MuxInv, MuxTypeOK, muxTables
  <2>3. MuxCtxHolds'
    BY <2>1 DEF MuxInv, MuxCtxHolds, MuxServing, muxTables
  <2> QED BY <2>1, <2>2, <2>3, MuxTablesStay DEF MuxInv
<1> QED BY <1>1, <1>2, <1>3, <1>4, <1>5, <1>6, <1>7 DEF MuxNext

\* What it says of a message that is served.
LEMMA MuxInvMeans == MuxInv => ServedInFull
<1> SUFFICES ASSUME MuxInv, muxCtx.depth > 0 \/ muxCtx.ran # <<>> PROVE ServedInFull
  BY DEF ServedInFull
<1> DEFINE k == muxCtx.kind
           t == muxCtx.slot
           s == MuxServing
           mids == MuxContent(muxHeap, muxMids[k])
           want == muxWant[k][t]
           ran == muxCtx.ran
<1>1. MuxTypeOK /\ k \in MuxKinds /\ t \in MuxSlots /\ ran \in Seq(Nat) /\ muxCtx.at \in Nat /\ muxHeap \in Seq(Seq(Nat))
      /\ muxCtx.depth \in Nat /\ s = muxChain[k][t]
  BY DEF MuxInv, MuxTypeOK, MuxServing
<1>2. /\ s.len > 0 /\ Len(ran) <= s.len /\ Len(ran) <= muxCtx.at
      /\ \A i \in 1 .. Len(ran) : ran[i] = MuxAt(muxHeap, s, i)
      /\ ~muxCtx.aborted => muxCtx.at = Len(ran)
      /\ muxCtx.depth = 0 => muxCtx.at >= s.len
  BY DEF MuxInv, MuxCtxHolds
<1>3. MuxChainHolds(k, t)
  BY <1>1 DEF MuxInv, MuxChainsHold
<1>4. MuxHeld(muxHeap, muxMids[k], muxHandlers)
  BY <1>1 DEF MuxInv, MuxMidsHeld
<1>5. /\ Len(mids) = muxMids[k].len
      /\ \A i \in 1 .. muxMids[k].len : mids[i] = MuxAt(muxHeap, muxMids[k], i)
  BY <1>1, <1>4, MuxContentIs DEF MuxHeld
<1>6. /\ MuxHeld(muxHeap, s, muxHandlers) /\ s.len \in Nat /\ Len(want) = s.len
      /\ muxMids[k].len <= s.len
      /\ \A i \in 1 .. muxMids[k].len : MuxAt(muxHeap, s, i) = MuxAt(muxHeap, muxMids[k], i)
      /\ s.arr = muxMids[k].arr => MuxRoom(k)
      /\ s.arr # muxMids[k].arr => \A i \in 1 .. s.len : MuxAt(muxHeap, s, i) = want[i]
  BY <1>1, <1>2, <1>3 DEF MuxChainHolds, MuxHeld, MuxSlice
<1>7. muxMids[k].len \in Nat /\ Len(ran) \in Nat
  BY <1>1, <1>4 DEF MuxHeld, MuxSlice
<1> HIDE DEF mids, want, s
<1>8. ASSUME NEW i \in 1 .. Len(ran)
      PROVE  /\ i <= Len(mids) => ran[i] = mids[i]
             /\ ~MuxRoom(k) => ran[i] = want[i]
             /\ \A j \in 1 .. i - 1 : ran[j] # ran[i]
  <2>1. i \in 1 .. s.len /\ ran[i] = MuxAt(muxHeap, s, i)
    BY <1>2, <1>6, <1>7
  <2>2. i <= Len(mids) => ran[i] = mids[i]
    <3>1. i <= Len(mids) => i \in 1 .. muxMids[k].len
      BY <1>5, <1>7
    <3> QED BY <1>5, <1>6, <2>1, <3>1
  <2>3. ~MuxRoom(k) => ran[i] = want[i]
    BY <1>6, <2>1
  <2>4. ASSUME NEW j \in 1 .. i - 1 PROVE ran[j] # ran[i]
    <3>1. j \in 1 .. Len(ran) /\ j \in 1 .. s.len /\ j # i
      BY <1>2, <1>6, <1>7
    <3>2. ran[j] = MuxAt(muxHeap, s, j)
      BY <1>2, <3>1
    <3> QED BY <1>6, <2>1, <3>1, <3>2 DEF MuxHeld
  <2> QED BY <2>2, <2>3, <2>4
<1>9. muxCtx.depth = 0 /\ ~muxCtx.aborted => Len(ran) >= Len(mids) /\ Len(ran) = Len(want)
  BY <1>1, <1>2, <1>5, <1>6, <1>7
<1> QED BY <1>8, <1>9 DEF ServedInFull, mids, want

\* Every message passes the middlewares and then the handlers of its chain, each
\* once and in order, for any numbers of types, of handlers and of limits.
THEOREM ChainsAreServedInFull == MuxSpec => []ServedInFull
BY MuxInvInit, MuxInvNext, MuxInvMeans, PTL DEF MuxSpec

-----------------------------------------------------------------------------
(* Forms of replies: where their texts go.                                  *)

FrmTypes ==
    /\ frmSaid \in Seq(FrmMessages \cup FrmDefaults) /\ frmPending \in Seq(Nat)
    /\ frmReceipts \subseteq DOMAIN frmSaid
    /\ frmStage # "idle" => FrmNow \in DOMAIN frmSaid

\* Uploads leave the texts of the reply alone.
FrmTextsKept ==
    frmStage # "idle" => FrmOnly(frmParts, {"text"}) = FrmOnly(FrmParse(FrmMessage, FALSE), {"text"})

FrmInv == FrmTypes /\ FrmTextsKept /\ TextSurvives

\* The history leaves out images only.
LEMMA FrmHistoryTexts ==
    \A n, m : FrmTexts(n, FrmParse(m, FALSE)) \subseteq FrmTexts(n, FrmParse(m, TRUE))
  BY DEF FrmTexts, FrmParse, FrmCardImages, FrmOnly, FrmWithout, FrmImages

\* Initially nothing was replied.
LEMMA FrmInvInit == FrmInit => FrmInv
<1> SUFFICES ASSUME FrmInit PROVE FrmInv
  OBVIOUS
<1>1. frmSaid = <<>> /\ frmPending = <<>> /\ frmReceipts = {} /\ frmStage = "idle"
  BY DEF FrmInit
<1>2. <<>> \in Seq(FrmMessages \cup FrmDefaults) /\ <<>> \in Seq(Nat)
  OBVIOUS
<1> QED BY <1>1, <1>2 DEF FrmInv, FrmTypes, FrmTextsKept, TextSurvives

\* An answer with a receipt: what the user or the store has got with it.
LEMMA FrmReceiptKeeps ==
    ASSUME FrmInv, frmStage = "classify", FrmReceipt, FrmOver, frmPending' \in Seq(Nat),
           frmShown \subseteq frmShown', frmVoiced \subseteq frmVoiced',
           \A n \in frmReceipts : \A i \in DOMAIN frmPending : frmPending[i] = n =>
               \/ \E j \in DOMAIN frmPending' : frmPending'[j] = n
               \/ FrmTexts(n, FrmParse(frmSaid[n], FALSE)) \subseteq frmShown',
           \/ FrmNow \in frmVoiced'
           \/ \E j \in DOMAIN frmPending' : frmPending'[j] = FrmNow
           \/ FrmTexts(FrmNow, FrmParse(FrmMessage, FALSE)) \subseteq frmShown'
    PROVE  FrmInv'
<1>0. FrmTypes /\ TextSurvives
  BY DEF FrmInv
<1>1. frmSaid' = frmSaid /\ frmStage' = "idle" /\ frmReceipts' = frmReceipts \cup {FrmNow}
  BY DEF FrmOver, FrmReceipt
<1>2. FrmTypes'
  BY <1>0, <1>1 DEF FrmTypes
<1>3. FrmTextsKept'
  BY <1>1 DEF FrmTextsKept
<1>4. TextSurvives'
  <2> SUFFICES ASSUME NEW n \in frmReceipts', n \notin frmVoiced'
               PROVE  \/ \E i \in DOMAIN frmPending' : frmPending'[i] = n
                      \/ FrmTexts(n, FrmParse(frmSaid[n], FALSE)) \subseteq frmShown'
    BY <1>1 DEF TextSurvives
  <2>1. CASE n = FrmNow
    BY <2>1 DEF FrmMessage
  <2>2. CASE n \in frmReceipts
    BY <1>0, <2>2 DEF TextSurvives
  <2> QED BY <1>1, <2>1, <2>2
<1> QED BY <1>2, <1>3, <1>4 DEF FrmInv

\* A callback that ends without an answer.
LEMMA FrmFailsKeeps ==
    ASSUME FrmInv, FrmOver, UNCHANGED <<frmPending, frmShown, frmVoiced, frmReceipts>>
    PROVE  FrmInv'
<1>1. frmSaid' = frmSaid /\ frmStage' = "idle" /\ frmPending' = frmPending /\ frmShown' = frmShown
      /\ frmVoiced' = frmVoiced /\ frmReceipts' = frmReceipts
  BY DEF FrmOver
<1> QED BY <1>1 DEF FrmInv, FrmTypes, FrmTextsKept, TextSurvives

\* The next reply, or a default text.
LEMMA FrmBeginKeeps ==
    ASSUME FrmInv, NEW m \in FrmMessages \cup FrmDefaults, FrmBegin(m)
    PROVE  FrmInv'
<1>0. FrmTypes /\ TextSurvives
  BY DEF FrmInv
<1>1. /\ frmStage = "idle" /\ frmSaid' = Append(frmSaid, m)
      /\ UNCHANGED <<frmPending, frmShown, frmVoiced, frmReceipts>>
      /\ \/ frmStage' = "idle"
         \/ frmStage' = "process" /\ frmParts' = FrmParse(m, FALSE)
  BY DEF FrmBegin
<1>2. frmSaid \in Seq(FrmMessages \cup FrmDefaults)
  BY <1>0 DEF FrmTypes
<1> DEFINE n == Len(frmSaid)
<1>3. /\ frmSaid' \in Seq(FrmMessages \cup FrmDefaults) /\ Len(frmSaid') = n + 1 /\ frmSaid'[n + 1] = m
      /\ n \in Nat /\ DOMAIN frmSaid = 1 .. n /\ DOMAIN frmSaid' = 1 .. n + 1
      /\ \A i \in 1 .. n : frmSaid'[i] = frmSaid[i]
  BY <1>1, <1>2
<1> HIDE DEF n
<1>4. FrmTypes'
  <2>1. frmReceipts' \subseteq DOMAIN frmSaid'
    BY <1>0, <1>1, <1>3 DEF FrmTypes
  <2>2. FrmNow' \in DOMAIN frmSaid'
    BY <1>3 DEF FrmNow
  <2> QED BY <1>0, <1>1, <1>3, <2>1, <2>2 DEF FrmTypes
<1>5. FrmTextsKept'
  <2>1. FrmMessage' = m
    BY <1>3 DEF FrmMessage, FrmNow
  <2> QED BY <1>1, <2>1 DEF FrmTextsKept
<1>6. TextSurvives'
  <2>1. \A r \in frmReceipts : frmSaid'[r] = frmSaid[r]
    BY <1>0, <1>3 DEF FrmTypes
  <2>2. frmReceipts' = frmReceipts /\ frmVoiced' = frmVoiced /\ frmPending' = frmPending /\ frmShown' = frmShown
    BY <1>1
  <2> QED BY <1>0, <2>1, <2>2 DEF TextSurvives
<1> QED BY <1>4, <1>5, <1>6 DEF FrmInv

\* Base64 media become files, or stay.
LEMMA FrmConvertKeeps == FrmInv /\ FrmConvert => FrmInv'
<1> SUFFICES ASSUME FrmInv, FrmConvert PROVE FrmInv'
  OBVIOUS
<1>1. PICK done \in SUBSET FrmOnly(frmParts, FrmBase64) :
          frmParts' = (frmParts \ done) \cup {<<FrmUploaded(p[1]), p[2]>> : p \in done}
  BY DEF FrmConvert
<1>2. frmStage = "process" /\ frmStage' = "classify" /\ UNCHANGED <<frmSaid, frmPending, frmHistory>>
  BY DEF FrmConvert
<1>3. FrmOnly(frmParts', {"text"}) = FrmOnly(frmParts, {"text"})
  <2>1. \A p \in done : p[1] \in FrmBase64 /\ p[1] # "text"
    BY DEF FrmOnly, FrmBase64
  <2>2. \A p \in done : FrmUploaded(p[1]) \in {"imageHttp", "recordHttp"}
    BY <2>1 DEF FrmUploaded, FrmBase64
  <2>3. \A p \in {<<FrmUploaded(q[1]), q[2]>> : q \in done} : p[1] # "text"
    BY <2>2
  <2>4. \A p : p \in frmParts' /\ p[1] = "text" <=> p \in frmParts /\ p[1] = "text"
    <3>1. \A p : p \in frmParts' <=> \/ (p \in frmParts /\ p \notin done)
                                    \/ p \in {<<FrmUploaded(q[1]), q[2]>> : q \in done}
      BY <1>1
    <3> QED BY <2>1, <2>3, <3>1
  <2> QED BY <2>4 DEF FrmOnly
<1>4. /\ frmSaid' = frmSaid /\ frmPending' = frmPending /\ frmShown' = frmShown /\ frmVoiced' = frmVoiced
      /\ frmReceipts' = frmReceipts
  BY <1>2 DEF frmHistory
<1>5. FrmMessage' = FrmMessage /\ FrmNow' = FrmNow
  BY <1>4 DEF FrmMessage, FrmNow
<1>6. FrmTypes'
  BY <1>2, <1>4, <1>5 DEF FrmInv, FrmTypes
<1>7. FrmTextsKept'
  BY <1>2, <1>3, <1>5 DEF FrmInv, FrmTextsKept
<1>8. TextSurvives'
  BY <1>4 DEF FrmInv, TextSurvives
<1> QED BY <1>6, <1>7, <1>8 DEF FrmInv

\* A text is the answer, under a part of the history.
LEMMA FrmAnswerTextKeeps == FrmInv /\ FrmAnswerText => FrmInv'
<1> SUFFICES ASSUME FrmInv, FrmAnswerText PROVE FrmInv'
  OBVIOUS
<1>1. PICK k \in 0 .. Len(frmPending) :
           /\ frmPending' = SubSeq(frmPending, k + 1, Len(frmPending))
           /\ frmShown' = frmShown \cup FrmTexts(FrmNow, FrmWithout(frmParts, {"at"}))
                  \cup UNION {FrmTexts(frmPending[i], FrmParse(frmSaid[frmPending[i]], TRUE))
                                 : i \in 1 .. k}
  BY DEF FrmAnswerText
<1>2. frmStage = "classify" /\ FrmReceipt /\ FrmOver /\ frmVoiced' = frmVoiced
  BY DEF FrmAnswerText
<1>3. frmPending \in Seq(Nat)
  BY DEF FrmInv, FrmTypes
<1> DEFINE all == Len(frmPending)
           left == all - k
<1>4. all \in Nat /\ k \in Nat /\ left \in Nat /\ k + left <= all /\ all = k + left /\ DOMAIN frmPending = 1 .. all
  BY <1>3
<1>5. /\ frmPending' \in Seq(Nat) /\ Len(frmPending') = left
      /\ \A i \in 1 .. left : frmPending'[i] = frmPending[k + i]
  <2> HIDE DEF left
  <2>1. \A from, to : from = k + 1 /\ to = k + left =>
            /\ SubSeq(frmPending, from, to) \in Seq(Nat) /\ Len(SubSeq(frmPending, from, to)) = left
            /\ \A i \in 1 .. left : SubSeq(frmPending, from, to)[i] = frmPending[k + i]
    BY <1>3, <1>4, CutsNat
  <2>2. frmPending' = SubSeq(frmPending, k + 1, all) /\ all = k + left
    BY <1>1, <1>4
  <2> QED BY <2>1, <2>2
<1> HIDE DEF all, left
<1>6. \A n \in frmReceipts : \A i \in DOMAIN frmPending : frmPending[i] = n =>
               \/ \E j \in DOMAIN frmPending' : frmPending'[j] = n
               \/ FrmTexts(n, FrmParse(frmSaid[n], FALSE)) \subseteq frmShown'
  <2> SUFFICES ASSUME NEW i \in DOMAIN frmPending
               PROVE  \/ \E j \in DOMAIN frmPending' : frmPending'[j] = frmPending[i]
                      \/ FrmTexts(frmPending[i], FrmParse(frmSaid[frmPending[i]], FALSE)) \subseteq frmShown'
    OBVIOUS
  <2>1. CASE i <= k
    <3>1. i \in 1 .. k
      BY <1>4, <2>1
    <3>2. FrmTexts(frmPending[i], FrmParse(frmSaid[frmPending[i]], TRUE)) \subseteq frmShown'
      BY <1>1, <3>1
    <3> QED BY <3>2, FrmHistoryTexts
  <2>2. CASE i > k
    <3>1. i - k \in 1 .. left /\ k + (i - k) = i
      BY <1>4, <2>2
    <3>2. i - k \in DOMAIN frmPending' /\ frmPending'[i - k] = frmPending[i]
      BY <1>5, <3>1
    <3> QED BY <3>2
  <2>3. i <= k \/ i > k
    <3>1. i \in 1 .. all
      BY <1>4
    <3> QED BY <1>4, <3>1
  <2> QED BY <2>1, <2>2, <2>3
<1>7. FrmTexts(FrmNow, FrmParse(FrmMessage, FALSE)) \subseteq frmShown'
  <2>1. FrmOnly(FrmWithout(frmParts, {"at"}), {"text"}) = FrmOnly(frmParts, {"text"})
    BY DEF FrmOnly, FrmWithout
  <2>2. FrmOnly(frmParts, {"text"}) = FrmOnly(FrmParse(FrmMessage, FALSE), {"text"})
    BY <1>2 DEF FrmInv, FrmTextsKept
  <2>3. FrmTexts(FrmNow, FrmWithout(frmParts, {"at"})) = FrmTexts(FrmNow, FrmParse(FrmMessage, FALSE))
    BY <2>1, <2>2 DEF FrmTexts
  <2> QED BY <1>1, <2>3
<1>8. frmShown \subseteq frmShown' /\ frmVoiced \subseteq frmVoiced'
  BY <1>1, <1>2
<1> QED BY <1>2, <1>5, <1>6, <1>7, <1>8, FrmReceiptKeeps

\* An image is the answer; what stands next to it is stored.
LEMMA FrmAnswerImageKeeps == FrmInv /\ FrmAnswerImage => FrmInv'
<1> SUFFICES ASSUME FrmInv, FrmAnswerImage PROVE FrmInv'
  OBVIOUS
<1>1. /\ frmStage = "classify" /\ FrmHas(frmParts, FrmImages) /\ FrmOver
      /\ frmShown' = frmShown /\ frmVoiced' = frmVoiced
  BY DEF FrmAnswerImage
<1>2. frmPending \in Seq(Nat) /\ FrmNow \in Nat
  BY DEF FrmInv, FrmTypes, FrmNow
<1>3. CASE FrmOneImage
  <2>1. FrmReceipt /\ frmPending' = frmPending
    BY <1>3 DEF FrmAnswerImage
  <2>2. FrmOnly(frmParts, {"text"}) = {}
    <3>1. PICK p \in frmParts : p[1] \in FrmImages
      BY <1>1 DEF FrmHas, FrmOnly
    <3>2. \A q \in frmParts : q[1] # "text"
      BY <1>3, <3>1 DEF FrmOneImage, FrmImages
    <3> QED BY <3>2 DEF FrmOnly
  <2>3. FrmTexts(FrmNow, FrmParse(FrmMessage, FALSE)) = {}
    BY <1>1, <2>2 DEF FrmInv, FrmTextsKept, FrmTexts
  <2> QED BY <1>1, <1>2, <2>1, <2>3, FrmReceiptKeeps
<1>4. CASE ~FrmOneImage /\ FrmMessage \in FrmDefaults
  <2>1. UNCHANGED <<frmPending, frmReceipts>>
    BY <1>4 DEF FrmAnswerImage
  <2> QED BY <1>1, <2>1, FrmFailsKeeps
<1>5. CASE ~FrmOneImage /\ FrmMessage \notin FrmDefaults
  <2>1. frmPending' = Append(frmPending, FrmNow) /\ FrmReceipt
    BY <1>5 DEF FrmAnswerImage
  <2> DEFINE all == Len(frmPending)
  <2>2. /\ frmPending' \in Seq(Nat) /\ all \in Nat /\ DOMAIN frmPending = 1 .. all
        /\ DOMAIN frmPending' = 1 .. all + 1 /\ frmPending'[all + 1] = FrmNow
        /\ \A i \in 1 .. all : frmPending'[i] = frmPending[i]
    BY <1>2, <2>1
  <2> HIDE DEF all
  <2>3. all + 1 \in DOMAIN frmPending' /\ \A i \in DOMAIN frmPending : i \in DOMAIN frmPending' /\ frmPending'[i] = frmPending[i]
    BY <2>2
  <2>4. \E j \in DOMAIN frmPending' : frmPending'[j] = FrmNow
    BY <2>2, <2>3
  <2>5. \A n \in frmReceipts : \A i \in DOMAIN frmPending : frmPending[i] = n => \E j \in DOMAIN frmPending' : frmPending'[j] = n
    BY <2>3
  <2> QED BY <1>1, <2>1, <2>2, <2>4, <2>5, FrmReceiptKeeps
<1> QED BY <1>3, <1>4, <1>5

\* A recording is the answer.
LEMMA FrmAnswerVoiceKeeps == FrmInv /\ FrmAnswerVoice => FrmInv'
<1> SUFFICES ASSUME FrmInv, FrmAnswerVoice PROVE FrmInv'
  OBVIOUS
<1>1. /\ frmStage = "classify" /\ FrmReceipt /\ FrmOver /\ frmPending' = frmPending /\ frmShown' = frmShown
      /\ frmVoiced' = frmVoiced \cup {FrmNow}
  BY DEF FrmAnswerVoice
<1>2. frmPending' \in Seq(Nat)
  BY <1>1 DEF FrmInv, FrmTypes
<1> QED BY <1>1, <1>2, FrmReceiptKeeps

\* Every step keeps the invariant.
LEMMA FrmInvNext == FrmInv /\ [FrmNext]_frmVars => FrmInv'
<1> SUFFICES ASSUME FrmInv, [FrmNext]_frmVars PROVE FrmInv'
  OBVIOUS
<1>1. ASSUME NEW m \in FrmMessages \cup FrmDefaults, FrmBegin(m) PROVE FrmInv'
  BY <1>1, FrmBeginKeeps
<1>2. CASE FrmConvert
  BY <1>2, FrmConvertKeeps
<1>3. CASE FrmAnswerText
  BY <1>3, FrmAnswerTextKeeps
<1>4. CASE FrmFetchFails
  BY <1>4, FrmFailsKeeps DEF FrmFetchFails
<1>5. CASE FrmAnswerImage
  BY <1>5, FrmAnswerImageKeeps
<1>6. CASE FrmAnswerVoice
  BY <1>6, FrmAnswerVoiceKeeps
<1>7. CASE UNCHANGED frmVars
  BY <1>7 DEF frmVars, frmHistory, FrmInv, FrmTypes, FrmTextsKept, TextSurvives, FrmNow, FrmMessage
<1> QED BY <1>1, <1>2, <1>3, <1>4, <1>5, <1>6, <1>7 DEF FrmNext

\* For replies of any form and number: the texts of a reply with a receipt are
\* seen by the user or stored, unless a voice was the answer.
THEOREM TextsSurvive == FrmSpec => []TextSurvives
<1>1. FrmInv => TextSurvives
  BY DEF FrmInv
<1> QED BY <1>1, FrmInvInit, FrmInvNext, PTL DEF FrmSpec

-----------------------------------------------------------------------------
(* The web console: logins and their cookies.                               *)

\* The cookies that are being made or held are told apart, and stored with the
\* time they were made at.
ConMaking(b) == conPc[b] \in {"store", "answer"}
ConFreshOk(b) ==
    /\ ConMaking(b) => conFresh[b] \in 1 .. conMade
    /\ conPc[b] = "answer" => conDb[conFresh[b]] = conAt[b] + ConLife
ConHeldOk(b) ==
    /\ conTold[b] # "notFound" /\ conHeld[b] <= conMade
    /\ conHeld[b] # 0 => conDb[conHeld[b]] = conSince[b] + ConLife
ConApart(b, o) ==
    /\ ConMaking(b) => conHeld[o] # conFresh[b]
    /\ b # o => /\ ConMaking(b) /\ ConMaking(o) => conFresh[b] # conFresh[o]
                /\ conHeld[b] # 0 => conHeld[o] # conHeld[b]
ConInv == /\ ConTypeOK
          /\ \A b \in ConBrowsers : ConFreshOk(b) /\ ConHeldOk(b)
          /\ \A b, o \in ConBrowsers : ConApart(b, o)

\* Initially nobody is logged in.
LEMMA ConInvInit == ConInit => ConInv
BY ConAssumption DEF ConInit, ConInv, ConTypeOK, ConFreshOk, ConHeldOk, ConApart, ConMaking, ConCookies

\* A cookie that a browser holds is known to the server.
LEMMA ConKnown ==
    ASSUME ConInv, NEW b \in ConBrowsers, conHeld[b] # 0
    PROVE  /\ ConVerdict(conHeld[b]) # "notFound"
           /\ conNow <= conSince[b] + ConLife => ConVerdict(conHeld[b]) = "in"
<1>1. conDb[conHeld[b]] = conSince[b] + ConLife /\ conSince[b] \in Nat /\ conNow \in Nat
  BY ConAssumption DEF ConInv, ConHeldOk, ConTypeOK
<1> QED BY <1>1, ConAssumption DEF ConVerdict

\* Logging in, expiring and asking keep the invariant.
LEMMA ConInvStep == ConInv /\ [ConNext]_conVars => ConInv'
<1> SUFFICES ASSUME ConInv, [ConNext]_conVars PROVE ConInv'
  OBVIOUS
<1>0. /\ ConTypeOK
      /\ \A b \in ConBrowsers : ConFreshOk(b) /\ ConHeldOk(b)
      /\ \A b, o \in ConBrowsers : ConApart(b, o)
  BY DEF ConInv
<1>1. CASE ConTick
  BY <1>0, <1>1, ConAssumption DEF ConTick, conServer, conLogin, conBrowser, ConInv, ConTypeOK,
     ConFreshOk, ConHeldOk, ConApart, ConMaking
<1>2. CASE ConRestart
  BY <1>0, <1>2, ConAssumption DEF ConRestart, conServer, conBrowser, ConInv, ConTypeOK,
     ConFreshOk, ConHeldOk, ConApart, ConMaking
<1>3. ASSUME NEW b \in ConBrowsers, ConAsk(b) PROVE ConInv'
  <2>1. CASE conTold' = [conTold EXCEPT ![b] = "refused"] /\ UNCHANGED <<conMade, conLogin>>
    <3>1. ConTypeOK' /\ \A o \in ConBrowsers : conTold'[o] # "notFound"
      BY <1>0, <1>3, <2>1 DEF ConAsk, ConTypeOK, ConHeldOk, conLogin
    <3> QED BY <1>0, <1>3, <2>1, <3>1 DEF ConAsk, ConInv, ConFreshOk, ConHeldOk, ConApart,
            ConMaking, conLogin
  <2>2. CASE /\ conMade < ConLogins /\ conMade' = conMade + 1
             /\ conFresh' = [conFresh EXCEPT ![b] = conMade + 1]
             /\ conAt' = [conAt EXCEPT ![b] = conNow]
             /\ conPc' = [conPc EXCEPT ![b] = "store"] /\ UNCHANGED conTold
    <3>1. UNCHANGED <<conNow, conDb, conHeld, conSince, conTold>>
      BY <1>3, <2>2 DEF ConAsk
    <3>2. conMade \in Nat /\ conMade' = conMade + 1 /\ conMade' \in 0 .. ConLogins
      BY <1>0, <2>2, ConAssumption DEF ConTypeOK
    <3>3. ConTypeOK'
      BY <1>0, <2>2, <3>1, <3>2, ConAssumption DEF ConTypeOK
    <3>4. /\ conPc'[b] = "store" /\ conFresh'[b] = conMade + 1
          /\ \A o \in ConBrowsers : o # b => /\ conPc'[o] = conPc[o] /\ conAt'[o] = conAt[o]
                                             /\ conFresh'[o] = conFresh[o]
      BY <1>0, <2>2 DEF ConTypeOK
    <3>5. \A o \in ConBrowsers : ConFreshOk(o)'
      BY <1>0, <3>1, <3>2, <3>4 DEF ConFreshOk, ConMaking
    <3>6. \A o \in ConBrowsers : ConHeldOk(o)' /\ conHeld[o] # conMade + 1
      BY <1>0, <3>1, <3>2 DEF ConHeldOk, ConTypeOK
    <3>7. \A o \in ConBrowsers : ConMaking(o) => conFresh[o] # conMade + 1
      BY <1>0, <3>2 DEF ConFreshOk
    <3>8. \A x, y \in ConBrowsers : ConApart(x, y)'
      BY <1>0, <3>1, <3>4, <3>6, <3>7 DEF ConApart, ConMaking
    <3> QED BY <3>3, <3>5, <3>6, <3>8 DEF ConInv
  <2> QED BY <1>3, <2>1, <2>2 DEF ConAsk
<1>4. ASSUME NEW b \in ConBrowsers, ConStore(b) PROVE ConInv'
  <2> DEFINE f == conFresh[b]
  <2>0. ConMaking(b) /\ f \in 1 .. conMade /\ f \in ConCookies
    BY <1>0, <1>4 DEF ConStore, ConFreshOk, ConMaking, ConTypeOK, ConCookies
  <2>1. /\ conDb' = [conDb EXCEPT ![f] = conAt[b] + ConLife]
        /\ conPc' = [conPc EXCEPT ![b] = "answer"]
        /\ UNCHANGED <<conNow, conMade, conFresh, conAt, conHeld, conSince, conTold>>
    BY <1>4 DEF ConStore, conBrowser
  <2>2. conAt[b] + ConLife \in 0 .. ConTime + ConLife
    BY <1>0, ConAssumption DEF ConTypeOK
  <2>3. ConTypeOK'
    BY <1>0, <2>1, <2>2 DEF ConTypeOK
  <2>4. /\ conDb'[f] = conAt[b] + ConLife /\ \A c \in ConCookies : c # f => conDb'[c] = conDb[c]
        /\ conPc'[b] = "answer" /\ \A o \in ConBrowsers : o # b => conPc'[o] = conPc[o]
    BY <1>0, <2>0, <2>1 DEF ConTypeOK
  <2>5. \A o \in ConBrowsers : ConMaking(o)' <=> ConMaking(o)
    BY <2>0, <2>4 DEF ConMaking
  <2>6. ASSUME NEW o \in ConBrowsers PROVE ConFreshOk(o)'
    <3>1. CASE o = b
      BY <1>0, <2>0, <2>1, <2>4, <3>1 DEF ConFreshOk
    <3>2. CASE o # b
      <4>1. ConMaking(o) => conFresh[o] # f /\ conFresh[o] \in ConCookies
        BY <1>0, <2>0, <3>2 DEF ConApart, ConFreshOk, ConTypeOK, ConCookies
      <4>2. conPc[o] = "answer" => ConMaking(o)
        BY DEF ConMaking
      <4> QED BY <1>0, <2>1, <2>4, <2>5, <3>2, <4>1, <4>2 DEF ConFreshOk
    <3> QED BY <3>1, <3>2
  <2>7. ASSUME NEW o \in ConBrowsers PROVE ConHeldOk(o)'
    <3>1. conHeld[o] # f /\ (conHeld[o] # 0 => conHeld[o] \in ConCookies)
      BY <1>0, <2>0 DEF ConApart, ConHeldOk, ConTypeOK, ConCookies
    <3> QED BY <1>0, <2>1, <2>4, <3>1 DEF ConHeldOk
  <2>8. \A x, y \in ConBrowsers : ConApart(x, y)'
    BY <1>0, <2>1, <2>5 DEF ConApart
  <2> QED BY <2>3, <2>6, <2>7, <2>8 DEF ConInv
<1>5. ASSUME NEW b \in ConBrowsers, ConAnswer(b) PROVE ConInv'
  <2>1. ConTypeOK'
    BY <1>0, <1>5, ConAssumption DEF ConAnswer, ConTypeOK, conServer
  <2>2. /\ conPc[b] = "answer" /\ conHeld'[b] = conFresh[b] /\ conSince'[b] = conAt[b]
        /\ conTold'[b] = "in" /\ conPc'[b] = "idle"
        /\ \A o \in ConBrowsers : o # b =>
              /\ conHeld'[o] = conHeld[o] /\ conSince'[o] = conSince[o] /\ conTold'[o] = conTold[o]
              /\ conPc'[o] = conPc[o] /\ conFresh'[o] = conFresh[o] /\ conAt'[o] = conAt[o]
        /\ UNCHANGED <<conNow, conMade, conDb>>
    BY <1>0, <1>5 DEF ConAnswer, ConTypeOK, conServer
  <2>3. ConMaking(b) /\ conFresh[b] \in 1 .. conMade /\ conDb[conFresh[b]] = conAt[b] + ConLife
    BY <1>0, <2>2 DEF ConFreshOk, ConMaking
  <2>4. \A o \in ConBrowsers : ConMaking(o)' <=> ConMaking(o) /\ o # b
    BY <2>2 DEF ConMaking
  <2>5. \A o \in ConBrowsers : ConFreshOk(o)'
    BY <1>0, <2>2, <2>4 DEF ConFreshOk
  <2>6. \A o \in ConBrowsers : ConHeldOk(o)'
    BY <1>0, <2>2, <2>3 DEF ConHeldOk
  <2>7. \A x, y \in ConBrowsers : ConApart(x, y)'
    BY <1>0, <2>2, <2>3, <2>4 DEF ConApart
  <2> QED BY <2>1, <2>5, <2>6, <2>7 DEF ConInv
<1>6. ASSUME NEW b \in ConBrowsers, ConForget(b) PROVE ConInv'
  <2>1. ConTypeOK'
    BY <1>0, <1>6, ConAssumption DEF ConForget, ConTypeOK, conServer, conLogin
  <2>2. /\ conHeld'[b] = 0 /\ conTold'[b] = "nothing"
        /\ \A o \in ConBrowsers : o # b =>
              /\ conHeld'[o] = conHeld[o] /\ conSince'[o] = conSince[o] /\ conTold'[o] = conTold[o]
        /\ UNCHANGED <<conNow, conMade, conDb, conPc, conFresh, conAt>>
    BY <1>0, <1>6 DEF ConForget, ConTypeOK, conServer, conLogin
  <2>3. conMade \in Nat /\ \A o \in ConBrowsers : ConMaking(o) => conFresh[o] # 0
    BY <1>0, ConAssumption DEF ConTypeOK, ConFreshOk
  <2> QED BY <1>0, <2>1, <2>2, <2>3 DEF ConInv, ConFreshOk, ConHeldOk, ConApart, ConMaking
<1>7. ASSUME NEW b \in ConBrowsers, ConCheck(b) PROVE ConInv'
  <2>1. ConVerdict(conHeld[b]) \in {"notProvided", "expired", "in"}
    BY ConKnown DEF ConVerdict
  <2>2. ConTypeOK' /\ \A o \in ConBrowsers : conTold'[o] # "notFound"
    BY <1>0, <1>7, <2>1 DEF ConCheck, ConTypeOK, ConHeldOk, conServer, conLogin
  <2> QED BY <1>0, <1>7, <2>2 DEF ConCheck, ConInv, ConFreshOk, ConHeldOk, ConApart, ConMaking,
          conServer, conLogin
<1>8. CASE UNCHANGED conVars
  BY <1>0, <1>8 DEF conVars, conServer, conLogin, conBrowser, ConInv, ConTypeOK,
     ConFreshOk, ConHeldOk, ConApart, ConMaking
<1> QED BY <1>1, <1>2, <1>3, <1>4, <1>5, <1>6, <1>7, <1>8 DEF ConNext

\* A browser that logged in gets in until its cookie has expired, not longer, and
\* every browser has a cookie of its own.
THEOREM LoginsHold == ConSpec => []LoginHolds
<1>1. ConInv => LoginHolds
  BY ConKnown DEF ConInv, ConHeldOk, ConApart, LoginHolds
<1> QED BY <1>1, ConInvInit, ConInvStep, PTL DEF ConSpec

-----------------------------------------------------------------------------
(* Actions and reports over the links.                                      *)

\* An action that was sent, with the report it answers, its link and its number.
ObSents == [q : ObRequests, to : ObCalls, at : ObLinks, nr : Nat]
ObAnswers == [action : {q.action : q \in ObRequests}, echo : Nat, self : {"appid", "0"}]

ObShapes ==
    /\ obSet \in ObSettings /\ obPc \in [ObCalls -> {"none", "counted", "reported"}]
    /\ DOMAIN obReport = ObCalls
    /\ obIn \in [ObLinks -> ObSents \cup {ObNobody}]
    /\ obSent \in Seq(ObSents) /\ obOut \in [ObLinks -> Seq(ObAnswers)]

\* A report that was made, with the id it gives its user and that of the account.
ObReportsHold ==
    \A c \in ObCalls : obPc[c] = "reported" =>
        /\ obReport[c].self = ObSelf
        /\ obReport[c].user = IF ~obSet.group THEN ObNumber(ObAccount)
                              ELSE IF obSet.strings THEN ObName(ObUser[c]) ELSE ObNumber(ObUser[c])

\* Action number n of those sent is the one with number n; the one a link is to
\* receive is the last sent over it.  A reply answers a report.
ObSentHolds ==
    /\ \A n \in DOMAIN obSent : obSent[n].nr = n
    /\ \A l \in ObLinks : obIn[l] # ObNobody =>
          /\ obIn[l].nr \in DOMAIN obSent /\ obSent[obIn[l].nr] = obIn[l] /\ obIn[l].at = l
          /\ \A n \in DOMAIN obSent : obSent[n].at = l => n <= obIn[l].nr
          /\ ObReply(obIn[l].q) => obPc[obIn[l].to] = "reported"

\* The answers over link l.
ObAnswersHold(l) ==
    /\ {obOut[l][i].echo : i \in DOMAIN obOut[l]} = ObDue(l)
    /\ \A i, j \in DOMAIN obOut[l] : i < j => obOut[l][i].echo < obOut[l][j].echo
    /\ \A i \in DOMAIN obOut[l] : /\ obOut[l][i].action = obSent[obOut[l][i].echo].q.action
                                  /\ obOut[l][i].self = ObSelf

ObInv ==
    /\ ObShapes /\ ObReportsHold /\ ObSentHolds
    /\ \A l \in ObLinks : ObAnswersHold(l)
    /\ RepliesFindTheUser

\* Initially nothing was sent.
LEMMA ObInvInit == ObInit => ObInv
<1> SUFFICES ASSUME ObInit PROVE ObInv
  OBVIOUS
<1>1. ObShapes
  <2>1. <<>> \in Seq(ObSents) /\ <<>> \in Seq(ObAnswers)
    OBVIOUS
  <2> QED BY <2>1 DEF ObInit, ObShapes
<1>2. ObReportsHold
  BY DEF ObInit, ObReportsHold
<1>3. ObSentHolds
  BY DEF ObInit, ObSentHolds
<1>4. \A l \in ObLinks : ObAnswersHold(l)
  <2> SUFFICES ASSUME NEW l \in ObLinks PROVE ObAnswersHold(l)
    OBVIOUS
  <2>1. obOut[l] = <<>> /\ obSent = <<>>
    BY DEF ObInit
  <2>2. DOMAIN obOut[l] = {} /\ ObDue(l) = {}
    BY <2>1 DEF ObDue
  <2> QED BY <2>2 DEF ObAnswersHold
<1>5. RepliesFindTheUser
  BY DEF ObInit, RepliesFindTheUser
<1> QED BY <1>1, <1>2, <1>3, <1>4, <1>5 DEF ObInv

\* A callback that is counted or reported: no report that was made changes.
LEMMA ObReportKeeps ==
    ASSUME ObInv, NEW c \in ObCalls, ObCount(c) \/ ObTell(c)
    PROVE  ObInv'
<1>0. ObShapes /\ ObReportsHold /\ ObSentHolds /\ RepliesFindTheUser
  BY DEF ObInv
<1>1. /\ obPc[c] # "reported" /\ obSet' = obSet /\ DOMAIN obReport' = ObCalls
      /\ obPc' \in [ObCalls -> {"none", "counted", "reported"}]
      /\ \A o \in ObCalls : o # c => obPc'[o] = obPc[o] /\ obReport'[o] = obReport[o]
  BY <1>0 DEF ObCount, ObTell, ObShapes
<1>2. obIn' = obIn /\ obSent' = obSent /\ obOut' = obOut /\ obFiled' = obFiled
  BY DEF ObCount, ObTell, obActions
<1>3. ObSelf' = ObSelf
  BY <1>1 DEF ObSelf
<1>4. ObShapes'
  BY <1>0, <1>1, <1>2 DEF ObShapes
<1>5. ObReportsHold'
  <2>1. CASE ObCount(c)
    <3>1. obPc'[c] = "counted"
      BY <1>0, <2>1 DEF ObCount, ObShapes
    <3> QED BY <1>0, <1>1, <1>3, <3>1 DEF ObReportsHold
  <2>2. CASE ObTell(c)
    <3>1. obReport'[c] = IF ~obSet.group THEN ObPrivateReport
                         ELSE IF obSet.strings THEN ObNamedReport(c) ELSE ObGroupReport(c)
      BY <1>0, <2>2 DEF ObTell, ObShapes
    <3>2. /\ obReport'[c].self = ObSelf
          /\ obReport'[c].user = IF ~obSet.group THEN ObNumber(ObAccount)
                                 ELSE IF obSet.strings THEN ObName(ObUser[c]) ELSE ObNumber(ObUser[c])
      BY <3>1 DEF ObPrivateReport, ObNamedReport, ObGroupReport, ObReportOf
    <3> QED BY <1>0, <1>1, <1>3, <3>2 DEF ObReportsHold
  <2> QED BY <2>1, <2>2
<1>6. ObSentHolds'
  <2>1. \A o \in ObCalls : obPc[o] = "reported" => obPc'[o] = "reported"
    BY <1>1
  <2>2. \A l \in ObLinks : obIn[l] # ObNobody => obIn[l].to \in ObCalls
    BY <1>0 DEF ObShapes, ObSents
  <2> QED BY <1>0, <1>2, <2>1, <2>2 DEF ObSentHolds
<1>7. \A l \in ObLinks : ObAnswersHold(l)'
  <2>1. \A l \in ObLinks : ObDue(l)' = ObDue(l)
    BY <1>1, <1>2 DEF ObDue, ObAnswered
  <2> QED BY <1>2, <1>3, <2>1 DEF ObInv, ObAnswersHold
<1>8. RepliesFindTheUser'
  BY <1>0, <1>1, <1>2 DEF RepliesFindTheUser
<1> QED BY <1>4, <1>5, <1>6, <1>7, <1>8 DEF ObInv

\* The application sends another action.
LEMMA ObAskKeeps ==
    ASSUME ObInv, NEW l \in ObLinks, NEW q \in ObRequests, NEW c \in ObCalls, ObAsk(l, q, c)
    PROVE  ObInv'
<1> DEFINE n == Len(obSent)
           sent == [q |-> q, to |-> c, at |-> l, nr |-> n + 1]
<1>0. ObShapes /\ ObReportsHold /\ ObSentHolds /\ RepliesFindTheUser
  BY DEF ObInv
<1>1. /\ obIn[l] = ObNobody /\ obIn' = [obIn EXCEPT ![l] = sent] /\ obSent' = Append(obSent, sent)
      /\ ObReply(q) => obPc[c] = "reported"
      /\ UNCHANGED <<obSet, obReports, obOut, obFiled, obDead>>
  BY DEF ObAsk
<1>2. obSent \in Seq(ObSents) /\ n \in Nat
  BY <1>0 DEF ObShapes
<1>3. sent \in ObSents /\ sent # ObNobody
  BY <1>2, ObAssumption DEF ObSents
<1>4. sent.q = q /\ sent.to = c /\ sent.at = l /\ sent.nr = n + 1
  OBVIOUS
<1> HIDE DEF sent
<1>5. /\ obSent' \in Seq(ObSents) /\ obSent'[n + 1] = sent
      /\ DOMAIN obSent = 1 .. n /\ DOMAIN obSent' = 1 .. n + 1
      /\ \A i \in 1 .. n : obSent'[i] = obSent[i]
  BY <1>1, <1>2, <1>3
<1> HIDE DEF n
<1>6. /\ obIn'[l] = sent /\ obIn' \in [ObLinks -> ObSents \cup {ObNobody}]
      /\ \A o \in ObLinks : o # l => obIn'[o] = obIn[o]
  BY <1>0, <1>1, <1>3 DEF ObShapes
<1>7. /\ obSet' = obSet /\ obPc' = obPc /\ obReport' = obReport /\ obOut' = obOut /\ obFiled' = obFiled
      /\ ObSelf' = ObSelf
  BY <1>1 DEF obReports, ObSelf
<1>8. ObShapes'
  BY <1>0, <1>5, <1>6, <1>7 DEF ObShapes
<1>9. ObReportsHold' /\ RepliesFindTheUser'
  BY <1>0, <1>7 DEF ObReportsHold, RepliesFindTheUser
<1>10. \A i \in DOMAIN obSent' : (i \in 1 .. n /\ obSent'[i] = obSent[i] /\ i <= n) \/ (i = n + 1 /\ obSent'[i] = sent)
  BY <1>2, <1>5
<1>11. ObSentHolds'
  <2>1. \A i \in DOMAIN obSent' : obSent'[i].nr = i
    BY <1>0, <1>4, <1>5, <1>10 DEF ObSentHolds
  <2>2. ASSUME NEW o \in ObLinks, obIn'[o] # ObNobody
        PROVE  /\ obIn'[o].nr \in DOMAIN obSent' /\ obSent'[obIn'[o].nr] = obIn'[o] /\ obIn'[o].at = o
               /\ \A i \in DOMAIN obSent' : obSent'[i].at = o => i <= obIn'[o].nr
               /\ ObReply(obIn'[o].q) => obPc'[obIn'[o].to] = "reported"
    <3>1. CASE o = l
      <4>1. n + 1 \in 1 .. n + 1 /\ \A i \in 1 .. n + 1 : i <= n + 1
        BY <1>2
      <4> QED BY <1>1, <1>4, <1>5, <1>6, <1>7, <3>1, <4>1
    <3>2. CASE o # l
      <4>1. /\ obIn[o].nr \in DOMAIN obSent /\ obSent[obIn[o].nr] = obIn[o] /\ obIn[o].at = o
            /\ \A i \in DOMAIN obSent : obSent[i].at = o => i <= obIn[o].nr
            /\ ObReply(obIn[o].q) => obPc[obIn[o].to] = "reported"
        BY <1>0, <1>6, <2>2, <3>2 DEF ObSentHolds
      <4>2. obIn'[o] = obIn[o]
        BY <1>6, <3>2
      <4>3. obIn[o].nr \in DOMAIN obSent' /\ obSent'[obIn[o].nr] = obIn[o]
        BY <1>2, <1>5, <4>1
      <4>4. \A i \in DOMAIN obSent' : obSent'[i].at = o => i <= obIn[o].nr
        BY <1>4, <1>5, <1>10, <3>2, <4>1
      <4> QED BY <1>7, <4>1, <4>2, <4>3, <4>4
    <3> QED BY <3>1, <3>2
  <2> QED BY <2>1, <2>2 DEF ObSentHolds
<1>12. ASSUME NEW o \in ObLinks PROVE ObAnswersHold(o)'
  <2>1. ObAnswersHold(o)
    BY DEF ObInv
  <2>2. ObDue(o)' = ObDue(o)
    <3>1. \A i \in 1 .. n : /\ obSent'[i] = obSent[i] /\ i \in DOMAIN obSent /\ i \in DOMAIN obSent'
                            /\ obSent[i] # sent /\ obSent[i] # ObNobody
      <4> SUFFICES ASSUME NEW i \in 1 .. n
                   PROVE /\ obSent'[i] = obSent[i] /\ i \in DOMAIN obSent /\ i \in DOMAIN obSent'
                         /\ obSent[i] # sent /\ obSent[i] # ObNobody
        OBVIOUS
      <4>1. obSent'[i] = obSent[i] /\ i \in DOMAIN obSent /\ i \in DOMAIN obSent' /\ i # n + 1
        BY <1>2, <1>5
      <4>2. obSent[i].nr = i
        BY <1>0, <4>1 DEF ObSentHolds
      <4>3. obSent[i] \in ObSents
        BY <1>2, <1>5
      <4> QED BY <1>4, <4>1, <4>2, <4>3, ObAssumption DEF ObSents
    <3>2. \A i \in 1 .. n : obSent[i].at = o => (obIn'[o] # obSent'[i] <=> obIn[o] # obSent[i])
      BY <1>1, <1>6, <3>1
    <3>3. ~(obSent'[n + 1].at = o /\ obIn'[o] # obSent'[n + 1])
      BY <1>4, <1>5, <1>6
    <3>4. \A i \in DOMAIN obSent' : i \in 1 .. n \/ i = n + 1
      BY <1>10
    <3>5. \A i : i \in ObDue(o)' <=> i \in ObDue(o)
      <4>1. \A a : ObAnswered(a)' <=> ObAnswered(a)
        BY <1>7 DEF ObAnswered
      <4>2. \A i : i \in ObDue(o)' <=> /\ i \in DOMAIN obSent' /\ obSent'[i].at = o /\ obIn'[o] # obSent'[i]
                                        /\ ObReadable(obSent'[i].q) /\ ObAnswered(obSent'[i].q)
        BY <4>1 DEF ObDue
      <4>3. \A i : i \in ObDue(o) <=> /\ i \in DOMAIN obSent /\ obSent[i].at = o /\ obIn[o] # obSent[i]
                                       /\ ObReadable(obSent[i].q) /\ ObAnswered(obSent[i].q)
        BY DEF ObDue
      <4> SUFFICES ASSUME NEW i PROVE i \in ObDue(o)' <=> i \in ObDue(o)
        OBVIOUS
      <4>4. CASE i \in 1 .. n
        BY <3>1, <3>2, <4>2, <4>3, <4>4
      <4>5. CASE i \notin 1 .. n
        <5>1. i \notin ObDue(o)
          BY <1>5, <4>3, <4>5
        <5>2. i \notin ObDue(o)'
          BY <3>3, <3>4, <4>2, <4>5
        <5> QED BY <5>1, <5>2
      <4> QED BY <4>4, <4>5
    <3> QED BY <3>5 DEF ObDue
  <2>3. \A i \in DOMAIN obOut[o] : obSent'[obOut[o][i].echo] = obSent[obOut[o][i].echo]
    <3>1. \A i \in DOMAIN obOut[o] : obOut[o][i].echo \in ObDue(o)
      BY <2>1 DEF ObAnswersHold
    <3> QED BY <1>5, <3>1 DEF ObDue
  <2> QED BY <1>7, <2>1, <2>2, <2>3 DEF ObAnswersHold
<1> QED BY <1>8, <1>9, <1>11, <1>12 DEF ObInv

\* Link l is done with the action it received, which was answered or is not to be.
LEMMA ObReceived ==
    ASSUME ObInv, NEW l \in ObLinks, obIn[l] # ObNobody, obIn' = [obIn EXCEPT ![l] = ObNobody],
           UNCHANGED <<obSet, obReports, obSent>>
    PROVE  /\ obIn' \in [ObLinks -> ObSents \cup {ObNobody}] /\ ObReportsHold' /\ ObSentHolds'
           /\ obIn[l] \in ObSents /\ obIn[l].nr \in DOMAIN obSent /\ obSent[obIn[l].nr] = obIn[l]
           /\ ObDue(l)' = ObDue(l) \cup (IF ObReadable(obIn[l].q) /\ ObAnswered(obIn[l].q) THEN {obIn[l].nr} ELSE {})
           /\ \A n \in ObDue(l) : n < obIn[l].nr
           /\ \A o \in ObLinks : o # l => ObDue(o)' = ObDue(o)
           /\ ObSelf' = ObSelf
<1>0. ObShapes /\ ObReportsHold /\ ObSentHolds
  BY DEF ObInv
<1>1. obSet' = obSet /\ obPc' = obPc /\ obReport' = obReport /\ obSent' = obSent /\ ObSelf' = ObSelf
  BY DEF obReports, ObSelf
<1>2. /\ obIn' \in [ObLinks -> ObSents \cup {ObNobody}] /\ obIn'[l] = ObNobody
      /\ \A o \in ObLinks : o # l => obIn'[o] = obIn[o]
  BY <1>0 DEF ObShapes
<1>3. /\ obIn[l] \in ObSents /\ obIn[l].nr \in DOMAIN obSent /\ obSent[obIn[l].nr] = obIn[l] /\ obIn[l].at = l
      /\ \A n \in DOMAIN obSent : obSent[n].at = l => n <= obIn[l].nr
  BY <1>0 DEF ObShapes, ObSentHolds
<1>4. ObReportsHold'
  BY <1>0, <1>1 DEF ObReportsHold
<1>5. ObSentHolds'
  <2>1. \A o \in ObLinks : obIn'[o] # ObNobody => o # l /\ obIn'[o] = obIn[o]
    BY <1>2
  <2> QED BY <1>0, <1>1, <2>1 DEF ObSentHolds
<1>6. \A n \in DOMAIN obSent : /\ obSent[n] # ObNobody /\ obSent[n].nr = n
                               /\ (obSent[n] = obIn[l] <=> n = obIn[l].nr)
  <2>1. \A n \in DOMAIN obSent : obSent[n] \in ObSents
    BY <1>0 DEF ObShapes
  <2>2. ObNobody \notin ObSents
    BY ObAssumption DEF ObSents
  <2> QED BY <1>0, <1>3, <2>1, <2>2 DEF ObSentHolds
<1>7. \A n : n \in ObDue(l)' <=> n \in ObDue(l) \/ (n = obIn[l].nr /\ ObReadable(obIn[l].q) /\ ObAnswered(obIn[l].q))
  <2>1. \A n : n \in ObDue(l)' <=> /\ n \in DOMAIN obSent /\ obSent[n].at = l /\ ObNobody # obSent[n]
                                   /\ ObReadable(obSent[n].q) /\ ObAnswered(obSent[n].q)'
    BY <1>1, <1>2 DEF ObDue
  <2>2. \A q : ObAnswered(q)' <=> ObAnswered(q)
    BY <1>1 DEF ObAnswered
  <2>3. \A n : n \in ObDue(l) <=> /\ n \in DOMAIN obSent /\ obSent[n].at = l /\ obIn[l] # obSent[n]
                                  /\ ObReadable(obSent[n].q) /\ ObAnswered(obSent[n].q)
    BY DEF ObDue
  <2> QED BY <1>3, <1>6, <2>1, <2>2, <2>3
<1>8. \A n \in ObDue(l) : n < obIn[l].nr
  <2>1. \A n \in ObDue(l) : n \in DOMAIN obSent /\ n <= obIn[l].nr /\ n # obIn[l].nr
    BY <1>3, <1>6 DEF ObDue
  <2>2. DOMAIN obSent \subseteq Nat
    BY <1>0 DEF ObShapes
  <2> QED BY <1>3, <2>1, <2>2
<1>9. \A o \in ObLinks : o # l => ObDue(o)' = ObDue(o)
  BY <1>1, <1>2 DEF ObDue, ObAnswered
<1>10. ObDue(l)' = ObDue(l) \cup (IF ObReadable(obIn[l].q) /\ ObAnswered(obIn[l].q) THEN {obIn[l].nr} ELSE {})
  BY <1>7
<1> QED BY <1>1, <1>2, <1>3, <1>4, <1>5, <1>8, <1>9, <1>10

\* It gets no answer, and none is due.
LEMMA ObUnanswered ==
    ASSUME ObInv, NEW l \in ObLinks, obIn[l] # ObNobody, obIn' = [obIn EXCEPT ![l] = ObNobody],
           UNCHANGED <<obSet, obReports, obSent, obOut>>,
           ~(ObReadable(obIn[l].q) /\ ObAnswered(obIn[l].q))
    PROVE  ObShapes' /\ ObReportsHold' /\ ObSentHolds' /\ \A o \in ObLinks : ObAnswersHold(o)'
<1>1. /\ obIn' \in [ObLinks -> ObSents \cup {ObNobody}] /\ ObReportsHold' /\ ObSentHolds'
      /\ ObDue(l)' = ObDue(l) \cup (IF ObReadable(obIn[l].q) /\ ObAnswered(obIn[l].q) THEN {obIn[l].nr} ELSE {})
      /\ \A o \in ObLinks : o # l => ObDue(o)' = ObDue(o)
      /\ ObSelf' = ObSelf
  BY ObReceived
<1>2. obSet' = obSet /\ obPc' = obPc /\ obReport' = obReport /\ obSent' = obSent /\ obOut' = obOut
  BY DEF obReports
<1>3. ObShapes'
  BY <1>1, <1>2 DEF ObInv, ObShapes
<1>4. \A o \in ObLinks : ObDue(o)' = ObDue(o)
  BY <1>1
<1>5. \A o \in ObLinks : ObAnswersHold(o)'
  BY <1>1, <1>2, <1>4 DEF ObInv, ObAnswersHold
<1> QED BY <1>1, <1>3, <1>5

\* An action that cannot be read.
LEMMA ObDropKeeps ==
    ASSUME ObInv, NEW l \in ObLinks, ObDrop(l)
    PROVE  ObInv'
<1>1. /\ obIn[l] # ObNobody /\ ~ObReadable(obIn[l].q) /\ obIn' = [obIn EXCEPT ![l] = ObNobody]
      /\ UNCHANGED <<obSet, obReports, obSent, obFiled, obOut>>
  BY DEF ObDrop
<1>2. ObShapes' /\ ObReportsHold' /\ ObSentHolds' /\ \A o \in ObLinks : ObAnswersHold(o)'
  BY <1>1, ObUnanswered
<1>3. RepliesFindTheUser'
  BY <1>1 DEF ObInv, RepliesFindTheUser
<1> QED BY <1>2, <1>3 DEF ObInv

\* A reply is filed under the user of its report.
LEMMA ObFileKeeps ==
    ASSUME ObInv, NEW l \in ObLinks, ObFile(l)
    PROVE  ObInv'
<1> DEFINE in == obIn[l]
           filed == [sent |-> in, key |-> ObKey(ObUserText(in.q.user, in.to))]
<1>1. /\ in # ObNobody /\ ObReply(in.q) /\ obIn' = [obIn EXCEPT ![l] = ObNobody]
      /\ UNCHANGED <<obSet, obReports, obSent, obOut>> /\ obFiled' = obFiled \cup {filed}
  BY DEF ObFile
<1>2. ~ObAnswered(in.q)
  BY <1>1 DEF ObReply, ObAnswered, ObQueries
<1>3. ObShapes' /\ ObReportsHold' /\ ObSentHolds' /\ \A o \in ObLinks : ObAnswersHold(o)'
  BY <1>1, <1>2, ObUnanswered
<1>4. in.to \in ObCalls /\ obPc[in.to] = "reported"
  BY <1>1 DEF ObInv, ObShapes, ObSents, ObSentHolds
<1>5. in.q.user = "absent" => filed.key = ObNobody
  BY DEF ObKey, ObUserText
<1>6. in.q.user # "absent" /\ obSet.group => filed.key = ObUser[in.to]
  <2> SUFFICES ASSUME in.q.user # "absent", obSet.group PROVE filed.key = ObUser[in.to]
    OBVIOUS
  <2> DEFINE id == obReport[in.to].user
  <2>1. id = IF obSet.strings THEN ObName(ObUser[in.to]) ELSE ObNumber(ObUser[in.to])
    BY <1>4 DEF ObInv, ObReportsHold
  <2>2. id.of = ObUser[in.to] /\ (id.kind = "name") = obSet.strings /\ id # ObNobody
    <3>1. obSet.strings \in BOOLEAN
      BY DEF ObInv, ObShapes, ObSettings
    <3>2. \A u \in {ObUser[c] : c \in ObCalls} : ObName(u) # ObNobody /\ ObNumber(u) # ObNobody
      BY ObAssumption DEF ObName, ObNumber
    <3>3. id # ObNobody
      BY <1>4, <2>1, <3>2
    <3>4. id.of = ObUser[in.to]
      BY <2>1 DEF ObName, ObNumber
    <3>5. (id.kind = "name") = obSet.strings
      BY <2>1, <3>1 DEF ObName, ObNumber
    <3> QED BY <3>3, <3>4, <3>5
  <2>3. filed.key = ObKey(id)
    BY DEF ObUserText
  <2> QED BY <2>2, <2>3 DEF ObKey
<1>7. RepliesFindTheUser'
  <2>1. \A f \in obFiled' : f \in obFiled \/ f = filed
    BY <1>1
  <2>2. obSet' = obSet
    BY <1>1
  <2>3. filed.sent = in
    OBVIOUS
  <2> HIDE DEF filed, in
  <2>4. IF filed.sent.q.user = "absent" THEN filed.key = ObNobody
        ELSE obSet.group => filed.key = ObUser[filed.sent.to]
    BY <1>5, <1>6, <2>3
  <2>5. RepliesFindTheUser
    BY DEF ObInv
  <2> QED BY <2>1, <2>2, <2>4, <2>5 DEF RepliesFindTheUser
<1> QED BY <1>3, <1>7 DEF ObInv

\* A query is answered, or ignored.
LEMMA ObAnswerKeeps ==
    ASSUME ObInv, NEW l \in ObLinks, ObAnswer(l)
    PROVE  ObInv'
<1> DEFINE in == obIn[l]
           answer == [action |-> in.q.action, echo |-> in.nr, self |-> ObSelf]
<1>1. /\ in # ObNobody /\ ObReadable(in.q) /\ obIn' = [obIn EXCEPT ![l] = ObNobody]
      /\ UNCHANGED <<obSet, obReports, obSent, obFiled>>
      /\ obOut' = IF ObAnswered(in.q) THEN [obOut EXCEPT ![l] = Append(obOut[l], answer)] ELSE obOut
  BY DEF ObAnswer
<1>2. CASE ~ObAnswered(in.q)
  <2>1. ObShapes' /\ ObReportsHold' /\ ObSentHolds' /\ \A o \in ObLinks : ObAnswersHold(o)'
    BY <1>1, <1>2, ObUnanswered
  <2>2. RepliesFindTheUser'
    BY <1>1 DEF ObInv, RepliesFindTheUser
  <2> QED BY <2>1, <2>2 DEF ObInv
<1>3. CASE ObAnswered(in.q)
  <2>0. /\ ObShapes /\ \A o \in ObLinks : ObAnswersHold(o)
    BY DEF ObInv
  <2>1. /\ obIn' \in [ObLinks -> ObSents \cup {ObNobody}] /\ ObReportsHold' /\ ObSentHolds'
        /\ in \in ObSents /\ in.nr \in DOMAIN obSent /\ obSent[in.nr] = in
        /\ ObDue(l)' = ObDue(l) \cup {in.nr}
        /\ \A n \in ObDue(l) : n < in.nr
        /\ \A o \in ObLinks : o # l => ObDue(o)' = ObDue(o)
        /\ ObSelf' = ObSelf
    BY <1>1, <1>3, ObReceived
  <2>2. obSet' = obSet /\ obPc' = obPc /\ obReport' = obReport /\ obSent' = obSent /\ obFiled' = obFiled
    BY <1>1 DEF obReports
  <2>3. answer \in ObAnswers /\ answer.echo = in.nr /\ answer.action = in.q.action /\ answer.self = ObSelf
    BY <2>1 DEF ObAnswers, ObSents, ObSelf
  <2> HIDE DEF answer
  <2> DEFINE out == obOut[l]
             n == Len(out)
  <2>4. obOut \in [ObLinks -> Seq(ObAnswers)] /\ out \in Seq(ObAnswers) /\ n \in Nat
    BY <2>0 DEF ObShapes
  <2>5. obOut'[l] = Append(out, answer) /\ obOut' \in [ObLinks -> Seq(ObAnswers)]
        /\ \A o \in ObLinks : o # l => obOut'[o] = obOut[o]
    BY <1>1, <1>3, <2>3, <2>4
  <2> HIDE DEF in
  <2>6. /\ obOut'[l][n + 1] = answer /\ DOMAIN out = 1 .. n /\ DOMAIN obOut'[l] = 1 .. n + 1
        /\ \A i \in 1 .. n : obOut'[l][i] = out[i]
    BY <2>3, <2>4, <2>5
  <2>7. ObShapes'
    BY <2>0, <2>1, <2>2, <2>5 DEF ObShapes
  <2>8. RepliesFindTheUser'
    BY <2>2 DEF ObInv, RepliesFindTheUser
  <2>9. ASSUME NEW o \in ObLinks, o # l PROVE ObAnswersHold(o)'
    <3>1. obOut'[o] = obOut[o] /\ ObDue(o)' = ObDue(o) /\ obSent' = obSent /\ ObSelf' = ObSelf
      BY <2>1, <2>2, <2>5, <2>9
    <3>2. ObAnswersHold(o)
      BY <2>0
    <3> QED BY <3>1, <3>2 DEF ObAnswersHold
  <2>10. ObAnswersHold(l)'
    <3> DEFINE new == obOut'[l]
    <3>1. /\ {out[i].echo : i \in 1 .. n} = ObDue(l)
          /\ \A i, j \in 1 .. n : i < j => out[i].echo < out[j].echo
          /\ \A i \in 1 .. n : /\ out[i].action = obSent[out[i].echo].q.action
                               /\ out[i].self = ObSelf
      BY <2>0, <2>6 DEF ObAnswersHold
    <3>2. /\ DOMAIN new = 1 .. n + 1 /\ new[n + 1] = answer /\ \A i \in 1 .. n : new[i] = out[i]
      BY <2>6
    <3> HIDE DEF new, out, n
    <3>3. \A i \in 1 .. n + 1 : i \in 1 .. n \/ i = n + 1
      BY <2>4
    <3>4. {new[i].echo : i \in 1 .. n + 1} = ObDue(l)'
      <4>1. n + 1 \in 1 .. n + 1 /\ \A i \in 1 .. n : i \in 1 .. n + 1
        BY <2>4
      <4>2. {new[i].echo : i \in 1 .. n + 1} = {out[i].echo : i \in 1 .. n} \cup {in.nr}
        BY <2>3, <3>2, <3>3, <4>1
      <4> QED BY <2>1, <3>1, <4>2
    <3>5. \A i, j \in 1 .. n + 1 : i < j => new[i].echo < new[j].echo
      <4> SUFFICES ASSUME NEW i \in 1 .. n + 1, NEW j \in 1 .. n + 1, i < j PROVE new[i].echo < new[j].echo
        OBVIOUS
      <4>1. i \in 1 .. n /\ new[i] = out[i]
        BY <2>4, <3>2
      <4>2. CASE j \in 1 .. n
        BY <3>1, <3>2, <4>1, <4>2
      <4>3. CASE j = n + 1
        <5>1. out[i].echo \in ObDue(l)
          BY <3>1, <4>1
        <5> QED BY <2>1, <2>3, <3>2, <4>1, <4>3, <5>1
      <4> QED BY <3>3, <4>2, <4>3
    <3>6. \A i \in 1 .. n + 1 : /\ new[i].action = obSent[new[i].echo].q.action
                                /\ new[i].self = ObSelf
      BY <2>1, <2>3, <3>1, <3>2, <3>3
    <3>7. ObAnswersHold(l)' <=> /\ {new[i].echo : i \in DOMAIN new} = ObDue(l)'
                                /\ \A i, j \in DOMAIN new : i < j => new[i].echo < new[j].echo
                                /\ \A i \in DOMAIN new : /\ new[i].action = obSent[new[i].echo].q.action
                                                         /\ new[i].self = ObSelf
      BY <2>1, <2>2 DEF ObAnswersHold, new
    <3> QED BY <3>2, <3>4, <3>5, <3>6, <3>7
  <2> QED BY <2>1, <2>7, <2>8, <2>9, <2>10 DEF ObInv
<1> QED BY <1>2, <1>3

\* Every step keeps the invariant.
LEMMA ObInvNext == ObInv /\ [ObNext]_obVars => ObInv'
<1> SUFFICES ASSUME ObInv, [ObNext]_obVars PROVE ObInv'
  OBVIOUS
<1>1. ASSUME NEW c \in ObCalls, ObCount(c) \/ ObTell(c) PROVE ObInv'
  BY <1>1, ObReportKeeps
<1>2. ASSUME NEW l \in ObLinks, ObDrop(l) PROVE ObInv'
  BY <1>2, ObDropKeeps
<1>3. ASSUME NEW l \in ObLinks, ObAnswer(l) PROVE ObInv'
  BY <1>3, ObAnswerKeeps
<1>4. ASSUME NEW l \in ObLinks, ObFile(l) PROVE ObInv'
  BY <1>4, ObFileKeeps
<1>5. ASSUME NEW l \in ObLinks, NEW q \in ObRequests, NEW c \in ObCalls, ObAsk(l, q, c) PROVE ObInv'
  BY <1>5, ObAskKeeps
<1>6. ASSUME UNCHANGED <<obSet, obReports, obIn, obSent, obOut, obFiled>> PROVE ObInv'
  <2>1. /\ obSet' = obSet /\ obPc' = obPc /\ obReport' = obReport /\ obIn' = obIn /\ obSent' = obSent
        /\ obOut' = obOut /\ obFiled' = obFiled
    BY <1>6 DEF obReports
  <2>2. ObShapes' /\ ObReportsHold' /\ ObSentHolds'
    BY <2>1 DEF ObInv, ObShapes, ObReportsHold, ObSentHolds, ObSelf
  <2>3. \A l \in ObLinks : ObAnswersHold(l)'
    BY <2>1 DEF ObInv, ObAnswersHold, ObDue, ObAnswered, ObSelf
  <2>4. RepliesFindTheUser'
    BY <2>1 DEF ObInv, RepliesFindTheUser
  <2> QED BY <2>2, <2>3, <2>4 DEF ObInv
<1>7. ASSUME NEW l \in ObLinks, ObPanic(l) PROVE ObInv'
  BY <1>6, <1>7 DEF ObPanic
<1>8. CASE UNCHANGED obVars
  BY <1>6, <1>8 DEF obVars, obActions
<1> QED BY <1>1, <1>2, <1>3, <1>4, <1>5, <1>7, <1>8 DEF ObNext

\* What it says of replies and answers.
LEMMA ObInvMeans == ObInv => OneBotHolds
BY DEF ObInv, OneBotHolds, AnsweredAsAsked, ObAnswersHold, ObReportsHold

\* Every readable query is answered once, in order and on its own link, and a
\* reply is filed under the user whose report it answers, for any number of links,
\* calls and actions.
THEOREM AnsweredAndFiled == ObSpec => []OneBotHolds
BY ObInvInit, ObInvNext, ObInvMeans, PTL DEF ObSpec

-----------------------------------------------------------------------------
(* Services: a step of one part leaves the others as they are.              *)

\* Every part starts as its own specification says.
LEMMA PartsStart ==
    Init => /\ PqInit /\ IdInit /\ CfgInit /\ CbInit /\ QuoInit /\ WelInit
            /\ LnkInit /\ UpInit /\ MuxInit /\ FrmInit
            /\ ConInit /\ MedInit /\ ObInit /\ BodInit
BY DEF Init, LotInit

\* Stored replies, identifiers and the configuration file.
LEMMA StoreSteps ==
    [Next]_vars => [PqNext]_pqVars /\ [IdNext]_idVars /\ [CfgNext]_cfgVars
<1> SUFFICES ASSUME [Next]_vars
             PROVE [PqNext]_pqVars /\ [IdNext]_idVars /\ [CfgNext]_cfgVars
  OBVIOUS
<1>1. [PqNext]_pqVars /\ [CfgNext]_cfgVars
  BY DEF Next, vars, storeVars
<1>2. [IdNext]_idVars
  BY LotusSteps DEF Next, vars, storeVars, lotVars
<1> QED BY <1>1, <1>2

\* What callbacks are answered with.
LEMMA ServeSteps ==
    [Next]_vars => [CbNext]_cbVars /\ [QuoNext]_quoVars /\ [WelNext]_welVars
BY DEF Next, vars, serveVars

\* Links, uploads, chains of handlers and forms of replies.
LEMMA ExtraSteps ==
    [Next]_vars => /\ [LnkNext]_lnkVars /\ [UpNext]_upVars
                   /\ [MuxNext]_muxVars /\ [FrmNext]_frmVars
BY DEF Next, vars, extraVars

\* The console, media, and what is said over the links and in callbacks.
LEMMA TalkSteps ==
    [Next]_vars => /\ [ConNext]_conVars /\ [MedNext]_medVars
                   /\ [ObNext]_obVars /\ [BodNext]_bodVars
BY DEF Next, vars, lateVars, talkVars

\* Services implements the specification of every part (the lotus mode is one
\* way to take the steps of IdMap), so what holds of a part holds in it.
THEOREM ServicesImplementParts ==
    Spec => /\ PqSpec /\ IdSpec /\ CfgSpec /\ CbSpec /\ QuoSpec /\ WelSpec
            /\ LnkSpec /\ UpSpec /\ MuxSpec /\ FrmSpec
            /\ ConSpec /\ MedSpec /\ ObSpec /\ BodSpec
BY PartsStart, StoreSteps, ServeSteps, ExtraSteps, TalkSteps, PTL
   DEF Spec, PqSpec, IdSpec, CfgSpec, CbSpec, QuoSpec, WelSpec, LnkSpec, UpSpec, MuxSpec,
       FrmSpec, ConSpec, MedSpec, ObSpec, BodSpec

\* Concurrent calls keep within the limits: default replies a day (unless two
\* callbacks race for the counter), and uploads of an address in a window.
THEOREM LimitsAreKept == Spec => []LimitsKept
<1>1. QuotaKept /\ WindowKept => LimitsKept
  BY DEF LimitsKept
<1> QED BY <1>1, ServicesImplementParts, QuotaIsKept, UploadsStaySound, PTL

\* Behind a link that was given out is what it was given out for: a long link, a
\* file that was written whole, or media that were audited and converted.
THEOREM LinksAreKept == Spec => []LinksHold
<1>1. LinkOpens /\ LinkedIsWhole /\ LinkedMediaIsSound => LinksHold
  BY DEF LinksHold
<1> QED BY <1>1, ServicesImplementParts, LinksOpen, UploadsStaySound, LinkedMediaStaysSound, PTL

-----------------------------------------------------------------------------
(* The types of all parts, and the numbers given over the network.          *)

\* Reports and actions over the link keep the types of their variables.
THEOREM ObTypeCorrect == ObSpec => []ObTypeOK
<1>1. ObInit => ObTypeOK
  <2> SUFFICES ASSUME ObInit PROVE ObTypeOK
    OBVIOUS
  <2>1. obSet \in ObSettings /\ obS \in Nat /\ obDead \in BOOLEAN
    BY DEF ObInit
  <2>2. obPc \in [ObCalls -> {"none", "counted", "reported"}]
    BY DEF ObInit
  <2> QED BY <2>1, <2>2 DEF ObTypeOK
<1>2. ObTypeOK /\ [ObNext]_obVars => ObTypeOK'
  <2> SUFFICES ASSUME ObTypeOK, [ObNext]_obVars PROVE ObTypeOK'
    OBVIOUS
  <2>1. ASSUME NEW c \in ObCalls, ObCount(c) \/ ObTell(c) PROVE ObTypeOK'
    BY <2>1 DEF ObCount, ObTell, ObTypeOK, obActions
  <2>2. ASSUME NEW l \in ObLinks, ObDrop(l) \/ ObAnswer(l) \/ ObPanic(l) \/ ObFile(l)
        PROVE  ObTypeOK'
    BY <2>2 DEF ObDrop, ObAnswer, ObPanic, ObFile, ObTypeOK, obReports
  <2>3. ASSUME NEW l \in ObLinks, NEW q \in ObRequests, NEW c \in ObCalls, ObAsk(l, q, c)
        PROVE  ObTypeOK'
    BY <2>3 DEF ObAsk, ObTypeOK, obReports
  <2>4. CASE UNCHANGED obVars
    BY <2>4 DEF obVars, obReports, obActions, ObTypeOK
  <2> QED BY <2>1, <2>2, <2>3, <2>4 DEF ObNext
<1> QED BY <1>1, <1>2, PTL DEF ObSpec

\* The parts a reply is parsed into are kinds with their places.
LEMMA FrmParseType ==
    ASSUME NEW m \in FrmMessages \cup FrmDefaults
    PROVE  /\ FrmParse(m, FALSE) \subseteq FrmKinds \X Nat
           /\ FrmParse(m, TRUE) \subseteq FrmKinds \X Nat
<1>1. FrmPlaced(m) \subseteq FrmKinds \X Nat
  BY FrmAssumption DEF FrmPlaced
<1>2. FrmKeys(m) \subseteq FrmKinds \X Nat
  BY DEF FrmKeys, FrmKinds, FrmShownKinds
<1>3. FrmCard(m) \subseteq FrmKinds \X Nat
  BY <1>1, <1>2 DEF FrmCard, FrmContent, FrmWithout
<1> QED BY <1>1, <1>3 DEF FrmParse, FrmCardImages, FrmOnly, FrmWithout

\* So the texts of reply n have its number and a place.
LEMMA FrmTextsType ==
    ASSUME NEW n, NEW parts, parts \subseteq FrmKinds \X Nat
    PROVE  FrmTexts(n, parts) \subseteq {n} \X Nat
BY DEF FrmTexts, FrmOnly

\* Every step keeps the types; FrmInv says that there is a reply to answer.
LEMMA FrmTypeStep == FrmInv /\ FrmTypeOK /\ [FrmNext]_frmVars => FrmTypeOK'
<1> SUFFICES ASSUME FrmInv, FrmTypeOK, [FrmNext]_frmVars PROVE FrmTypeOK'
  OBVIOUS
<1> USE DEF FrmTypeOK
<1> DEFINE all == DOMAIN frmSaid
<1>0. all \subseteq Nat /\ (frmStage # "idle" => FrmNow \in all)
  BY DEF FrmInv, FrmTypes
<1>1. ASSUME NEW m \in FrmMessages \cup FrmDefaults, FrmBegin(m) PROVE FrmTypeOK'
  <2>1. /\ frmSaid' = Append(frmSaid, m)
        /\ UNCHANGED <<frmPending, frmShown, frmVoiced, frmReceipts>>
        /\ \/ frmFailed' = frmFailed \cup {FrmNow + 1} /\ UNCHANGED <<frmStage, frmParts>>
           \/ frmStage' = "process" /\ frmParts' = FrmParse(m, FALSE) /\ UNCHANGED frmFailed
    BY <1>1 DEF FrmBegin
  <2>2. /\ frmSaid' \in Seq(FrmMessages \cup FrmDefaults)
        /\ DOMAIN frmSaid' = 1 .. Len(frmSaid) + 1 /\ all = 1 .. Len(frmSaid)
        /\ Len(frmSaid) \in Nat
    BY <2>1
  <2>3. all \subseteq DOMAIN frmSaid' /\ FrmNow + 1 \in DOMAIN frmSaid'
    BY <2>2 DEF FrmNow
  <2>4. frmPending' \in Seq(DOMAIN frmSaid')
    <3>1. frmPending \in Seq(all) /\ frmPending' = frmPending
      BY <2>1
    <3> HIDE DEF all
    <3> QED BY <2>3, <3>1
  <2>5. frmShown' \subseteq (DOMAIN frmSaid') \X Nat
    BY <2>1, <2>3
  <2>6. frmVoiced' \cup frmFailed' \cup frmReceipts' \subseteq DOMAIN frmSaid'
    BY <2>1, <2>3
  <2>7. frmStage' \in {"idle", "process", "classify"} /\ frmParts' \subseteq FrmKinds \X Nat
    BY <2>1, FrmParseType
  <2> QED BY <2>2, <2>4, <2>5, <2>6, <2>7
<1>2. CASE FrmConvert
  <2>1. PICK done \in SUBSET FrmOnly(frmParts, FrmBase64) :
            frmParts' = (frmParts \ done) \cup {<<FrmUploaded(p[1]), p[2]>> : p \in done}
    BY <1>2 DEF FrmConvert
  <2>2. \A p \in done : FrmUploaded(p[1]) \in FrmKinds /\ p[2] \in Nat
    <3>1. \A k \in FrmKinds : FrmUploaded(k) \in FrmKinds
      BY DEF FrmUploaded, FrmKinds, FrmShownKinds, FrmImages, FrmRecords
    <3>2. \A p \in done : p \in FrmKinds \X Nat
      BY DEF FrmOnly
    <3> QED BY <3>1, <3>2
  <2>3. frmParts' \subseteq FrmKinds \X Nat
    BY <2>1, <2>2
  <2> QED BY <1>2, <2>3 DEF FrmConvert, frmHistory
<1>3. CASE FrmAnswerText
  <2>1. PICK k \in 0 .. Len(frmPending) :
           /\ frmPending' = SubSeq(frmPending, k + 1, Len(frmPending))
           /\ frmShown' = frmShown \cup FrmTexts(FrmNow, FrmWithout(frmParts, {"at"}))
                  \cup UNION {FrmTexts(frmPending[i], FrmParse(frmSaid[frmPending[i]], TRUE))
                                 : i \in 1 .. k}
    BY <1>3 DEF FrmAnswerText
  <2>2. /\ frmSaid' = frmSaid /\ frmStage' = "idle" /\ frmParts' = {} /\ FrmNow \in all
        /\ frmReceipts' = frmReceipts \cup {FrmNow} /\ UNCHANGED <<frmVoiced, frmFailed>>
    BY <1>0, <1>3 DEF FrmAnswerText, FrmReceipt, FrmOver
  <2>3. frmPending' \in Seq(all)
    <3>1. frmPending \in Seq(all)
      OBVIOUS
    <3> HIDE DEF all
    <3> QED BY <2>1, <3>1
  <2>4. FrmTexts(FrmNow, FrmWithout(frmParts, {"at"})) \subseteq all \X Nat
    BY <2>2, FrmTextsType DEF FrmWithout
  <2>5. ASSUME NEW i \in 1 .. k
        PROVE  FrmTexts(frmPending[i], FrmParse(frmSaid[frmPending[i]], TRUE)) \subseteq all \X Nat
    <3>1. frmPending[i] \in all
      <4>1. frmPending \in Seq(all)
        OBVIOUS
      <4> HIDE DEF all
      <4> QED BY <2>5, <4>1
    <3>2. frmSaid[frmPending[i]] \in FrmMessages \cup FrmDefaults
      BY <3>1
    <3>3. FrmParse(frmSaid[frmPending[i]], TRUE) \subseteq FrmKinds \X Nat
      BY <3>2, FrmParseType
    <3>4. FrmTexts(frmPending[i], FrmParse(frmSaid[frmPending[i]], TRUE)) \subseteq {frmPending[i]} \X Nat
      BY <3>3, FrmTextsType
    <3> QED BY <3>1, <3>4
  <2>6. frmShown' \subseteq all \X Nat
    BY <2>1, <2>4, <2>5
  <2> QED BY <2>2, <2>3, <2>6
<1>4. CASE FrmFetchFails
  BY <1>0, <1>4 DEF FrmFetchFails, FrmOver
<1>5. CASE FrmAnswerImage
  <2>1. /\ frmSaid' = frmSaid /\ frmStage' = "idle" /\ frmParts' = {} /\ FrmNow \in all
        /\ frmReceipts' \in {frmReceipts, frmReceipts \cup {FrmNow}}
        /\ frmFailed' \in {frmFailed, frmFailed \cup {FrmNow}}
        /\ UNCHANGED <<frmShown, frmVoiced>>
        /\ frmPending' \in {frmPending, Append(frmPending, FrmNow)}
    BY <1>0, <1>5 DEF FrmAnswerImage, FrmReceipt, FrmOver
  <2>2. frmPending' \in Seq(all)
    <3>1. frmPending \in Seq(all)
      OBVIOUS
    <3> HIDE DEF all
    <3> QED BY <2>1, <3>1
  <2> QED BY <2>1, <2>2
<1>6. CASE FrmAnswerVoice
  BY <1>0, <1>6 DEF FrmAnswerVoice, FrmReceipt, FrmOver
<1>7. CASE UNCHANGED frmVars
  BY <1>7 DEF frmVars, frmHistory
<1> QED BY <1>1, <1>2, <1>3, <1>4, <1>5, <1>6, <1>7 DEF FrmNext

\* Parsing, answering and showing replies keep the types of their variables: what
\* is stored or shown is always a reply that was sent.
THEOREM FrmTypeCorrect == FrmSpec => []FrmTypeOK
<1>1. FrmInit => FrmTypeOK
  BY DEF FrmInit, FrmTypeOK
<1> QED BY <1>1, FrmInvInit, FrmInvNext, FrmTypeStep, PTL DEF FrmSpec

\* In Services every part keeps its types: those of the stored replies, of the
\* identifier map and of the forms by the invariants they need, those of the other
\* parts as conjuncts of their inductive invariants.
THEOREM ServicesTypeCorrect ==
    Spec => [](/\ PqTypeOK /\ IdTypeOK /\ CfgTypeOK /\ CbTypeOK /\ QuoTypeOK /\ WelTypeOK
               /\ LnkTypeOK /\ UpTypeOK /\ MuxTypeOK /\ FrmTypeOK
               /\ ConTypeOK /\ MedTypeOK /\ ObTypeOK /\ BodTypeOK)
<1>1. /\ CfgInv => CfgTypeOK
      /\ CbInv => CbTypeOK
      /\ QuoInv => QuoTypeOK
      /\ WelInv => WelTypeOK
      /\ LnkInv => LnkTypeOK
      /\ UpInv => UpTypeOK
      /\ MuxInv => MuxTypeOK
      /\ ConInv => ConTypeOK
      /\ MedInv => MedTypeOK
      /\ BodInv => BodTypeOK
  BY DEF CfgInv, CbInv, QuoInv, WelInv, LnkInv, UpInv, MuxInv, ConInv, MedInv, BodInv
<1>2. CfgSpec /\ CbSpec /\ QuoSpec /\ WelSpec /\ LnkSpec
         => [](CfgTypeOK /\ CbTypeOK /\ QuoTypeOK /\ WelTypeOK /\ LnkTypeOK)
  BY <1>1, CfgInvInit, CfgInvNext, CbInvInit, CbInvNext, QuoInvInit, QuoInvStep, WelInvInit,
     WelInvStep, LnkInvInit, LnkInvStep, PTL DEF CfgSpec, CbSpec, QuoSpec, WelSpec, LnkSpec
<1>3. UpSpec /\ MuxSpec /\ ConSpec /\ MedSpec /\ BodSpec
         => [](UpTypeOK /\ MuxTypeOK /\ ConTypeOK /\ MedTypeOK /\ BodTypeOK)
  BY <1>1, UpInvInit, UpInvNext, MuxInvInit, MuxInvNext, ConInvInit, ConInvStep, MedInvInit,
     MedInvStep, BodInvInit, BodInvNext, PTL DEF UpSpec, MuxSpec, ConSpec, MedSpec, BodSpec
<1> QED BY <1>2, <1>3, ServicesImplementParts, QueueTypeCorrect, MapTypeCorrect, FrmTypeCorrect,
           ObTypeCorrect, PTL

\* In the part of the map called directly nothing was given over the network.
GivenOrNone == IF part = "idmap" THEN lotGiven = {} ELSE LotInv

\* A number that the identifier map gave over the network stays the one of its
\* identifier, also next to the other services (LotusMap alone: GivenNumbersHold).
THEOREM GivenAreKept == Spec => []GivenNumbersHold
<1>1. Init => GivenOrNone
  BY LotInvInit DEF Init, LotInit, GivenOrNone
<1>2. GivenOrNone /\ [Next]_vars => GivenOrNone'
  <2> SUFFICES ASSUME GivenOrNone, [Next]_vars PROVE GivenOrNone'
    OBVIOUS
  <2>1. part' = part
    BY DEF Next, vars
  <2>2. CASE part = "idmap"
    <3>1. UNCHANGED lotGiven
      BY <2>2 DEF Next, vars, storeVars, lotVars, lotOwn
    <3> QED BY <2>1, <2>2, <3>1 DEF GivenOrNone
  <2>3. CASE part # "idmap"
    <3>1. [LotNext]_lotVars
      BY <2>3 DEF Next, vars, storeVars
    <3> QED BY <2>1, <2>3, <3>1, LotInvNext DEF GivenOrNone
  <2> QED BY <2>2, <2>3
<1>3. GivenOrNone => GivenNumbersHold
  BY LotInvMeans DEF GivenOrNone, GivenNumbersHold
<1> QED BY <1>1, <1>2, <1>3, PTL DEF Spec

=============================================================================
