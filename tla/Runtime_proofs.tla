--------------------------- MODULE Runtime_proofs ---------------------------
(****************************************************************************)
(* What runs as long as the process: its own course from start to shutdown, *)
(* the log hub and the settings; the inductive invariant of each, that      *)
(* every step keeps it, and what follows; then that Runtime implements all  *)
(* three.                                                                   *)
(****************************************************************************)
EXTENDS Runtime, FiniteSetTheorems, TLAPS

-----------------------------------------------------------------------------
(* The course of the program.  What a callback is reported to is what main  *)
(* collected, and main counts what it collects.                             *)

\* The links whose dial ended and was taken from its channel.
LcCollected == {a \in LcAddrs : lcDial[a] \in {"ok", "given up"}}

\* main counts those, and only those of addresses that are not empty.
LcCounts ==
    /\ lcCount = Cardinality(LcCollected)
    /\ \A a \in LcEmpty : lcDial[a] = "off"
    /\ lcMain \in {"start", "bare", "down"} => \A a \in LcAddrs : lcDial[a] = "off"
    /\ lcMain \in {"up", "closing", "closed"} => LcLinks \subseteq LcCollected
    /\ lcClients = {a \in LcAddrs : lcDial[a] = "ok"}

\* A callback at work has a process, and one that came late one that collects
\* no more.
LcAtWork ==
    \A c \in LcCalls :
        /\ lcPc[c] \in {"store", "send"} => lcMain \notin {"start", "down"}
        /\ lcPc[c] \in {"store", "send"} /\ ~lcEarly[c]
              => lcMain \in {"up", "closing", "closed"}
        /\ lcPc[c] = "none" => lcSent[c] = {} /\ lcFailed[c] = {}

\* Who was reported under a number of the own database is in it; there are no
\* links without a process.
LcStored == \A c \in LcCalls : lcUser[c] = "own" => c \in lcRows
LcNoLinks == lcMain = "down" => \A a \in LcAddrs : lcConn[a] = "none"

LcInv == LcTypeOK /\ LcCounts /\ LcAtWork /\ LcStored /\ LcNoLinks
         /\ ReportReachesLinks /\ IdMapWindow

\* Initially the process is down and no callback came.
LEMMA LcInvInit == LcInit => LcInv
<1> SUFFICES ASSUME LcInit PROVE LcInv
  OBVIOUS
<1>1. LcTypeOK
  BY DEF LcInit, LcTypeOK
<1>2. LcCounts
  <2>1. LcCollected = {}
    BY DEF LcInit, LcCollected
  <2> QED BY <2>1, FS_EmptySet, LcAssumption DEF LcInit, LcCounts
<1>3. LcAtWork /\ LcStored /\ LcNoLinks /\ ReportReachesLinks /\ IdMapWindow
  BY DEF LcInit, LcAtWork, LcStored, LcNoLinks, ReportReachesLinks, IdMapWindow
<1> QED BY <1>1, <1>2, <1>3 DEF LcInv

\* Every step keeps the types.
LEMMA LcTypeStep == LcTypeOK /\ [LcNext]_lcVars => LcTypeOK'
<1> SUFFICES ASSUME LcTypeOK, [LcNext]_lcVars PROVE LcTypeOK'
  OBVIOUS
<1>0. ASSUME LcGone, UNCHANGED <<lcRows, lcFiled>> PROVE LcTypeOK'
  BY <1>0 DEF LcTypeOK, LcGone
<1>1. CASE LcListen \/ LcOpen \/ LcSignal \/ LcCloseDb \/ LcBegin
  <2>1. /\ UNCHANGED <<lcStart, lcConn, lcRows, lcCall, lcFiled, lcLate>>
        /\ lcMain' \in {"start", "bare", "up", "closing", "closed"}
        /\ lcStarts' \in {lcStarts, lcStarts + 1} /\ lcToClose' \in {lcToClose, lcClients}
    BY <1>1 DEF LcListen, LcOpen, LcSignal, LcCloseDb, LcBegin
  <2>2. lcStarts' \in Nat /\ lcToClose' \subseteq LcAddrs
    <3>1. lcStarts \in Nat /\ lcToClose \subseteq LcAddrs /\ lcClients \subseteq LcAddrs
      BY DEF LcTypeOK
    <3>2. lcStarts' = lcStarts \/ lcStarts' = lcStarts + 1
      BY <2>1
    <3>3. lcToClose' = lcToClose \/ lcToClose' = lcClients
      BY <2>1
    <3> QED BY <3>1, <3>2, <3>3
  <2>3. UNCHANGED <<lcStart, lcConn, lcRows, lcCall, lcFiled, lcLate>>
    BY <2>1
  <2>4. lcMain' \in {"start", "bare", "dial", "up", "closing", "closed", "down"}
    BY <2>1
  <2> QED BY <2>2, <2>3, <2>4 DEF LcTypeOK, lcStart, lcCall
<1>11. CASE LcDialAll
  <2>1. lcDial' \in [LcAddrs -> {"off", "trying", "linked", "error", "ok", "given up"}]
    BY <1>11 DEF LcDialAll
  <2> QED BY <1>11, <2>1 DEF LcTypeOK, LcDialAll, lcCall
<1>2. CASE LcEnd \/ LcDie
  BY <1>0, <1>2 DEF LcEnd, LcDie
<1>3. ASSUME NEW a \in LcAddrs, LcDialEnds(a) \/ LcCollect(a) PROVE LcTypeOK'
  <2>1. /\ UNCHANGED <<lcMain, lcStarts, lcToClose, lcRows, lcCall, lcFiled, lcLate>>
        /\ lcConn' \in {lcConn, [lcConn EXCEPT ![a] = "up"]}
        /\ lcDial' \in {[lcDial EXCEPT ![a] = v] : v \in {"linked", "error", "ok", "given up"}}
        /\ lcCount' \in {lcCount, lcCount + 1} /\ lcClients' \in {lcClients, lcClients \cup {a}}
    <3>1. CASE LcDialEnds(a)
      BY <3>1 DEF LcDialEnds
    <3>2. CASE LcCollect(a)
      BY <3>2 DEF LcCollect
    <3> QED BY <1>3, <3>1, <3>2
  <2>3. lcDial' \in [LcAddrs -> {"off", "trying", "linked", "error", "ok", "given up"}]
    <3>1. PICK v \in {"linked", "error", "ok", "given up"} : lcDial' = [lcDial EXCEPT ![a] = v]
      BY <2>1
    <3> QED BY <3>1 DEF LcTypeOK
  <2>4. lcConn' \in [LcAddrs -> {"none", "up", "stalled", "broken"}]
    BY <2>1 DEF LcTypeOK
  <2>5. lcCount' \in Nat /\ lcClients' \subseteq LcAddrs
    <3>1. lcCount \in Nat /\ lcClients \subseteq LcAddrs
      BY DEF LcTypeOK
    <3>2. lcCount' = lcCount \/ lcCount' = lcCount + 1
      BY <2>1
    <3>3. lcClients' = lcClients \/ lcClients' = lcClients \cup {a}
      BY <2>1
    <3>4. lcCount' \in Nat
      BY <3>1, <3>2
    <3>5. lcClients' \subseteq LcAddrs
      BY <3>1, <3>3
    <3> QED BY <3>4, <3>5
  <2>6. UNCHANGED <<lcMain, lcStarts, lcToClose, lcRows, lcCall, lcFiled, lcLate>>
    BY <2>1
  <2> QED BY <2>3, <2>4, <2>5, <2>6 DEF LcTypeOK, lcCall
<1>4. ASSUME NEW a \in LcAddrs,
             LcCloseLink(a) \/ LcStall(a) \/ LcResume(a) \/ LcBreak(a) \/ LcReconnect(a)
      PROVE LcTypeOK'
  BY <1>4 DEF LcTypeOK, LcCloseLink, LcStall, LcResume, LcBreak, LcReconnect, lcStart, lcCall
<1>5. ASSUME NEW c \in LcCalls, LcArrive(c) PROVE LcTypeOK'
  <2>1. lcPc' \in [LcCalls -> {"none", "store", "send", "done", "lost"}]
    BY <1>5 DEF LcTypeOK, LcArrive
  <2>2. lcTodo' \in [LcCalls -> SUBSET LcAddrs]
    BY <1>5 DEF LcTypeOK, LcArrive
  <2>3. LcDbNil \in BOOLEAN
    BY DEF LcDbNil
  <2>4. lcEarly' \in [LcCalls -> BOOLEAN]
    BY <1>5, <2>3, Zenon DEF LcTypeOK, LcArrive
  <2> QED BY <1>5, <2>1, <2>2, <2>4 DEF LcTypeOK, LcArrive, lcStart
<1>6. ASSUME NEW c \in LcCalls, LcStore(c) PROVE LcTypeOK'
  BY <1>6 DEF LcTypeOK, LcStore, LcDbNil, LcDbOpen, LcMet, lcStart
<1>7. ASSUME NEW c \in LcCalls, LcPost(c) PROVE LcTypeOK'
  BY <1>7, LcAssumption DEF LcTypeOK, LcPost, lcStart
<1>8. ASSUME NEW c \in LcCalls, NEW a \in LcAddrs, LcSend(c, a) PROVE LcTypeOK'
  <2>1. lcTodo' \in [LcCalls -> SUBSET LcAddrs]
    BY <1>8 DEF LcTypeOK, LcSend
  <2>2. lcSent' \in [LcCalls -> SUBSET LcAddrs]
    <3>1. lcSent' = lcSent \/ lcSent' = [lcSent EXCEPT ![c] = @ \cup {a}]
      BY <1>8 DEF LcSend
    <3>2. lcSent \in [LcCalls -> SUBSET LcAddrs] /\ lcSent[c] \cup {a} \in SUBSET LcAddrs
      BY DEF LcTypeOK
    <3> QED BY <3>1, <3>2
  <2>3. lcFailed' \in [LcCalls -> SUBSET LcAddrs]
    <3>1. lcFailed' = lcFailed \/ lcFailed' = [lcFailed EXCEPT ![c] = @ \cup {a}]
      BY <1>8 DEF LcSend
    <3>2. lcFailed \in [LcCalls -> SUBSET LcAddrs] /\ lcFailed[c] \cup {a} \in SUBSET LcAddrs
      BY DEF LcTypeOK
    <3> QED BY <3>1, <3>2
  <2> QED BY <1>8, <2>1, <2>2, <2>3 DEF LcTypeOK, LcSend, lcStart
<1>9. ASSUME NEW c \in LcCalls, NEW a \in LcAddrs, LcReply(a, c) PROVE LcTypeOK'
  <2>1. CASE LcDbNil
    BY <1>0, <1>9, <2>1 DEF LcReply
  <2>2. CASE ~LcDbNil
    <3>1. /\ UNCHANGED <<lcMain, lcStarts, lcStart, lcConn, lcToClose, lcRows, lcCall>>
          /\ lcLate' = LcMet(c)
          /\ \E v \in {"own", "nobody"} : lcFiled' = [lcFiled EXCEPT ![c] = v]
      BY <1>9, <2>2 DEF LcReply
    <3>2. lcFiled' \in [LcCalls -> {"none", "own", "nobody"}]
      BY <3>1 DEF LcTypeOK
    <3>3. lcLate' \subseteq LcCalls
      BY <3>1 DEF LcTypeOK, LcMet
    <3> QED BY <3>1, <3>2, <3>3 DEF LcTypeOK, lcStart, lcCall
  <2> QED BY <2>1, <2>2
<1>10. CASE UNCHANGED lcVars
  BY <1>10 DEF LcTypeOK, lcVars, lcStart, lcCall
<1> QED BY <1>1, <1>2, <1>3, <1>4, <1>5, <1>6, <1>7, <1>8, <1>9, <1>10, <1>11 DEF LcNext

\* Links are counted only while they are dialed.
LEMMA LcCountsStay ==
    ASSUME LcInv, UNCHANGED lcStart,
           \/ lcMain' = lcMain
           \/ lcMain' \in {"up", "closing", "closed"} /\ lcMain \in {"up", "closing", "closed"}
           \/ lcMain' \in {"start", "bare"} /\ lcMain \in {"start", "bare", "down"}
    PROVE  LcCounts' /\ LcMade' = LcMade
BY DEF LcInv, LcCounts, LcCollected, LcMade, lcStart

\* Without the process nothing is dialed or reported.
LEMMA LcGoneKeeps ==
    ASSUME LcInv, LcGone, UNCHANGED <<lcRows, lcFiled>>, LcTypeOK' PROVE LcInv'
<1>1. LcCounts'
  <2>1. LcCollected' = {}
    BY DEF LcGone, LcCollected
  <2> QED BY <2>1, FS_EmptySet, LcAssumption DEF LcGone, LcCounts
<1>2. \A c \in LcCalls : lcPc'[c] \notin {"store", "send"} /\ (lcPc'[c] = "none" => lcPc[c] = "none")
  BY DEF LcGone
<1>3. LcAtWork'
  BY <1>2 DEF LcInv, LcAtWork, LcGone
<1>4. LcStored' /\ LcNoLinks' /\ IdMapWindow'
  BY DEF LcInv, LcStored, LcNoLinks, IdMapWindow, LcGone
<1>5. ReportReachesLinks'
  BY <1>2 DEF ReportReachesLinks
<1> QED BY <1>1, <1>3, <1>4, <1>5 DEF LcInv

\* Where main opens the database it has counted as many dials as there are links,
\* so all of them.
LEMMA LcMainKeeps ==
    ASSUME LcInv, LcTypeOK',
           LcListen \/ LcDialAll \/ LcOpen \/ LcSignal \/ LcCloseDb \/ LcBegin
    PROVE  LcInv'
<1>1. /\ UNCHANGED <<lcConn, lcRows, lcCall, lcFiled, lcLate>> /\ lcMain' # "down"
      /\ lcMain = "bare" => lcMain' = "dial"
      /\ lcMain = "dial" => lcMain' = "up"
      /\ lcMain = "up" => lcMain' = "closing"
      /\ lcMain = "closing" => lcMain' = "closed"
      /\ lcMain # "closed"
  BY DEF LcListen, LcDialAll, LcOpen, LcSignal, LcCloseDb, LcBegin
<1>2. LcStored' /\ LcNoLinks' /\ IdMapWindow'
  BY <1>1 DEF LcInv, LcStored, LcNoLinks, IdMapWindow, lcCall
<1>3. LcAtWork'
  BY <1>1 DEF LcInv, LcTypeOK, LcAtWork, lcCall, LcListen, LcDialAll, LcOpen, LcSignal,
              LcCloseDb, LcBegin
<1>4. CASE LcListen \/ LcSignal \/ LcCloseDb \/ LcBegin
  <2>1. LcCounts' /\ LcMade' = LcMade
    BY <1>4, LcCountsStay DEF LcListen, LcSignal, LcCloseDb, LcBegin
  <2>2. ReportReachesLinks'
    BY <1>1, <2>1 DEF LcInv, ReportReachesLinks, lcCall
  <2> QED BY <1>2, <1>3, <2>1, <2>2 DEF LcInv
<1>5. CASE LcDialAll
  <2>1. LcCollected = {} /\ LcCollected' = {}
    BY <1>5 DEF LcDialAll, LcInv, LcCounts, LcCollected
  <2>2. LcCounts'
    <3>1. \A a \in LcAddrs : lcDial[a] = "off" /\ lcDial'[a] \in {"off", "trying"}
      BY <1>5 DEF LcDialAll, LcInv, LcCounts
    <3>2. \A a \in LcEmpty : lcDial'[a] = "off"
      BY <1>5, LcAssumption DEF LcDialAll
    <3> QED BY <1>5, <2>1, <3>1, <3>2 DEF LcDialAll, LcInv, LcCounts
  <2>3. ReportReachesLinks'
    BY <1>1, <1>5 DEF LcInv, LcAtWork, LcDialAll, ReportReachesLinks, lcCall
  <2> QED BY <1>2, <1>3, <2>2, <2>3 DEF LcInv
<1>6. CASE LcOpen
  <2>1. LcCollected' = LcCollected /\ LcMade' = LcMade
    BY <1>6 DEF LcOpen, LcCollected, LcMade, lcStart
  <2>2. LcCollected \subseteq LcLinks
    BY DEF LcInv, LcCounts, LcCollected, LcLinks
  <2>3. LcCollected = LcLinks
    <3>1. IsFiniteSet(LcLinks)
      BY LcAssumption, FS_Difference DEF LcLinks
    <3>2. Cardinality(LcCollected) = Cardinality(LcLinks)
      BY <1>6 DEF LcInv, LcCounts, LcOpen
    <3> QED BY <2>2, <3>1, <3>2, FS_Subset
  <2>4. LcCounts'
    BY <1>6, <2>1, <2>3 DEF LcOpen, LcInv, LcCounts, LcLinks, lcStart
  <2>5. ReportReachesLinks'
    BY <1>1, <2>1 DEF LcInv, ReportReachesLinks, lcCall
  <2> QED BY <1>2, <1>3, <2>4, <2>5 DEF LcInv
<1> QED BY <1>4, <1>5, <1>6

\* Dials end and are collected, each once.
LEMMA LcDialKeeps ==
    ASSUME LcInv, LcTypeOK', NEW a \in LcAddrs, LcDialEnds(a) \/ LcCollect(a)
    PROVE  LcInv'
<1>1. /\ UNCHANGED <<lcMain, lcRows, lcCall, lcFiled, lcLate>>
      /\ lcDial[a] \in {"trying", "linked", "error"}
      /\ a \notin LcEmpty /\ a \notin LcCollected
  BY DEF LcDialEnds, LcCollect, LcInv, LcCounts, LcCollected
<1>2. lcMain = "dial"
  BY <1>1 DEF LcInv, LcTypeOK, LcCounts, LcLinks
<1>3. LcStored' /\ LcNoLinks' /\ IdMapWindow' /\ LcAtWork'
  BY <1>1, <1>2 DEF LcInv, LcStored, LcNoLinks, IdMapWindow, LcAtWork, lcCall
<1>4. ReportReachesLinks'
  BY <1>1, <1>2 DEF LcInv, LcAtWork, ReportReachesLinks, lcCall
<1>5. CASE LcDialEnds(a)
  <2>1. /\ \E v \in {"linked", "error"} : lcDial' = [lcDial EXCEPT ![a] = v]
        /\ lcDial[a] = "trying" /\ UNCHANGED <<lcCount, lcClients>>
    BY <1>5 DEF LcDialEnds
  <2>2. /\ \A b \in LcAddrs : b # a => lcDial'[b] = lcDial[b]
        /\ lcDial'[a] \in {"linked", "error"}
    <3>1. PICK v \in {"linked", "error"} : lcDial' = [lcDial EXCEPT ![a] = v]
      BY <2>1
    <3>2. DOMAIN lcDial = LcAddrs
      BY DEF LcInv, LcTypeOK
    <3> QED BY <3>1, <3>2
  <2>3. lcDial[a] \notin {"ok", "given up"} /\ lcDial'[a] \notin {"ok", "given up"}
    BY <2>1, <2>2
  <2>4. LcCollected' = LcCollected
    BY <2>1, <2>2, <2>3 DEF LcCollected
  <2>5. {b \in LcAddrs : lcDial'[b] = "ok"} = {b \in LcAddrs : lcDial[b] = "ok"}
    BY <2>1, <2>2, <2>3
  <2>6. \A b \in LcEmpty : lcDial'[b] = "off"
    BY <1>1, <2>2, LcAssumption DEF LcInv, LcCounts
  <2>7. LcCounts'
    BY <1>1, <1>2, <2>1, <2>4, <2>5, <2>6 DEF LcInv, LcCounts
  <2> QED BY <1>3, <1>4, <2>7 DEF LcInv
<1>6. CASE LcCollect(a)
  <2>1. /\ lcDial' = [lcDial EXCEPT ![a] = IF @ = "linked" THEN "ok" ELSE "given up"]
        /\ lcClients' = IF lcDial[a] = "linked" THEN lcClients \cup {a} ELSE lcClients
        /\ lcCount' = lcCount + 1
    BY <1>6 DEF LcCollect
  <2>2. /\ \A b \in LcAddrs : b # a => lcDial'[b] = lcDial[b]
        /\ lcDial'[a] = IF lcDial[a] = "linked" THEN "ok" ELSE "given up"
    BY <2>1 DEF LcInv, LcTypeOK
  <2>3. LcCollected' = LcCollected \cup {a}
    BY <2>2 DEF LcCollected
  <2>4. lcCount' = Cardinality(LcCollected')
    <3>1. IsFiniteSet(LcCollected)
      BY LcAssumption, FS_Subset DEF LcCollected
    <3> QED BY <1>1, <2>1, <2>3, <3>1, FS_AddElement DEF LcInv, LcCounts
  <2>5. lcClients' = {b \in LcAddrs : lcDial'[b] = "ok"}
    <3>1. lcClients = {b \in LcAddrs : lcDial[b] = "ok"} /\ lcDial[a] # "ok"
      BY <1>1 DEF LcInv, LcCounts
    <3>2. CASE lcDial[a] = "linked"
      BY <2>1, <2>2, <3>1, <3>2
    <3>3. CASE lcDial[a] # "linked"
      <4>1. lcDial'[a] = "given up"
        BY <2>2, <3>3
      <4>2. lcClients' = lcClients
        BY <2>1, <3>3
      <4> QED BY <2>2, <3>1, <4>1, <4>2
    <3> QED BY <3>2, <3>3
  <2>6. \A b \in LcEmpty : lcDial'[b] = "off"
    BY <1>1, <2>2, LcAssumption DEF LcInv, LcCounts
  <2>7. LcCounts'
    BY <1>1, <1>2, <2>4, <2>5, <2>6 DEF LcCounts
  <2> QED BY <1>3, <1>4, <2>7 DEF LcInv
<1> QED BY <1>5, <1>6

\* Links that are closed, break, stall or come back.
LEMMA LcLinksKeep ==
    ASSUME LcInv, LcTypeOK', NEW a \in LcAddrs,
           LcCloseLink(a) \/ LcStall(a) \/ LcResume(a) \/ LcBreak(a) \/ LcReconnect(a)
    PROVE  LcInv'
<1>1. UNCHANGED <<lcMain, lcStart, lcRows, lcCall, lcFiled, lcLate>> /\ lcMain # "down"
  BY DEF LcCloseLink, LcStall, LcResume, LcBreak, LcReconnect, LcInv, LcNoLinks
<1>2. LcCounts' /\ LcMade' = LcMade
  BY <1>1, LcCountsStay
<1>3. LcStored' /\ LcNoLinks' /\ IdMapWindow' /\ LcAtWork' /\ ReportReachesLinks'
  BY <1>1, <1>2 DEF LcInv, LcStored, LcNoLinks, IdMapWindow, LcAtWork, ReportReachesLinks, lcCall
<1> QED BY <1>2, <1>3 DEF LcInv

\* A callback that finds the database open reads the whole list of links.
LEMMA LcArriveKeeps ==
    ASSUME LcInv, LcTypeOK', NEW c \in LcCalls, LcArrive(c) PROVE LcInv'
<1>1. /\ UNCHANGED <<lcMain, lcStart, lcConn, lcRows, lcUser, lcSent, lcFailed, lcFiled, lcLate>>
      /\ lcMain \notin {"start", "down"} /\ lcPc[c] = "none"
      /\ \A d \in LcCalls : d # c => /\ lcPc'[d] = lcPc[d] /\ lcTodo'[d] = lcTodo[d]
                                     /\ lcEarly'[d] = lcEarly[d]
      /\ lcPc'[c] = IF lcMain = "bare" THEN "lost" ELSE "store"
      /\ lcTodo'[c] = IF lcMain = "bare" THEN {} ELSE lcClients
      /\ lcEarly'[c] = LcDbNil
  <2>1. /\ DOMAIN lcPc = LcCalls /\ DOMAIN lcTodo = LcCalls /\ lcEarly \in [LcCalls -> BOOLEAN]
    BY DEF LcInv, LcTypeOK
  <2>2. \A d \in LcCalls : d # c => lcEarly'[d] = lcEarly[d]
    BY <2>1, Zenon DEF LcArrive
  <2>3. lcEarly'[c] = LcDbNil
    BY <2>1, Zenon DEF LcArrive
  <2>4. \A d \in LcCalls : d # c => lcPc'[d] = lcPc[d] /\ lcTodo'[d] = lcTodo[d]
    BY <2>1 DEF LcArrive
  <2>5. /\ lcPc'[c] = IF lcMain = "bare" THEN "lost" ELSE "store"
        /\ lcTodo'[c] = IF lcMain = "bare" THEN {} ELSE lcClients
    BY <2>1 DEF LcArrive
  <2> QED BY <2>2, <2>3, <2>4, <2>5 DEF LcArrive
<1>2. LcCounts' /\ LcMade' = LcMade
  BY <1>1, LcCountsStay
<1>3. LcStored' /\ LcNoLinks' /\ IdMapWindow'
  BY <1>1 DEF LcInv, LcStored, LcNoLinks, IdMapWindow
<1>4. ~LcDbNil => lcMain \in {"up", "closing", "closed"}
  BY <1>1 DEF LcDbNil, LcInv, LcTypeOK
<1>5. LcAtWork'
  BY <1>1, <1>4 DEF LcInv, LcAtWork
<1>6. ~LcDbNil => lcClients = LcMade
  <2> SUFFICES ASSUME ~LcDbNil PROVE \A a \in LcAddrs : lcDial[a] # "linked"
    BY DEF LcInv, LcCounts, LcMade
  <2> QED BY <1>4 DEF LcInv, LcCounts, LcCollected, LcLinks
<1>7. ReportReachesLinks'
  <2> SUFFICES ASSUME NEW d \in LcCalls, lcPc'[d] \in {"store", "send"}, ~lcEarly'[d]
               PROVE  lcTodo'[d] \cup lcSent[d] \cup lcFailed[d] = LcMade
    BY <1>1, <1>2 DEF ReportReachesLinks
  <2>1. CASE d # c
    BY <1>1, <2>1 DEF LcInv, ReportReachesLinks
  <2>2. CASE d = c
    BY <1>1, <1>6, <2>2 DEF LcInv, LcAtWork
  <2> QED BY <2>1, <2>2
<1> QED BY <1>2, <1>3, <1>5, <1>7 DEF LcInv

\* It stores its user, unless the database is closed.
LEMMA LcStoreKeeps ==
    ASSUME LcInv, LcTypeOK', NEW c \in LcCalls, LcStore(c) PROVE LcInv'
<1>1. /\ UNCHANGED <<lcMain, lcStart, lcConn, lcTodo, lcSent, lcFailed, lcEarly, lcFiled>>
      /\ lcPc[c] = "store"
      /\ \A d \in LcCalls : d # c => lcPc'[d] = lcPc[d] /\ lcUser'[d] = lcUser[d]
      /\ lcPc'[c] \in {"lost", "send"}
      /\ lcUser'[c] = IF LcDbNil THEN "none" ELSE IF LcDbOpen THEN "own" ELSE "zero"
      /\ lcRows' = IF LcDbOpen THEN lcRows \cup {c} ELSE lcRows
      /\ lcLate' = LcMet(c)
  <2>1. DOMAIN lcPc = LcCalls /\ DOMAIN lcUser = LcCalls
    BY DEF LcInv, LcTypeOK
  <2>2. \A d \in LcCalls : d # c => lcPc'[d] = lcPc[d] /\ lcUser'[d] = lcUser[d]
    BY <2>1 DEF LcStore
  <2>3. /\ lcPc'[c] \in {"lost", "send"}
        /\ lcUser'[c] = IF LcDbNil THEN "none" ELSE IF LcDbOpen THEN "own" ELSE "zero"
    BY <2>1 DEF LcStore
  <2> QED BY <2>2, <2>3 DEF LcStore
<1>2. LcCounts' /\ LcMade' = LcMade
  BY <1>1, LcCountsStay
<1>3. LcStored' /\ LcNoLinks'
  BY <1>1 DEF LcInv, LcStored, LcNoLinks
<1>4. ~LcDbNil /\ ~LcDbOpen => lcMain = "closed"
  BY <1>1 DEF LcDbNil, LcDbOpen, LcInv, LcTypeOK, LcAtWork
<1>5. IdMapWindow'
  BY <1>1, <1>4 DEF LcInv, IdMapWindow, LcMet
<1>6. LcAtWork' /\ ReportReachesLinks'
  BY <1>1, <1>2 DEF LcInv, LcAtWork, ReportReachesLinks
<1> QED BY <1>2, <1>3, <1>5, <1>6 DEF LcInv

\* It is sent to one link after the other.
LEMMA LcSendKeeps ==
    ASSUME LcInv, LcTypeOK', NEW c \in LcCalls,
           LcPost(c) \/ \E a \in LcAddrs : LcSend(c, a)
    PROVE  LcInv'
<1>1. /\ UNCHANGED <<lcMain, lcStart, lcConn, lcRows, lcUser, lcEarly, lcFiled, lcLate>>
      /\ lcPc[c] = "send"
      /\ \A d \in LcCalls : d # c => /\ lcPc'[d] = lcPc[d] /\ lcTodo'[d] = lcTodo[d]
                                     /\ lcSent'[d] = lcSent[d] /\ lcFailed'[d] = lcFailed[d]
      /\ lcPc'[c] \in {"done", "send"}
  <2>1. /\ DOMAIN lcPc = LcCalls /\ DOMAIN lcTodo = LcCalls
        /\ DOMAIN lcSent = LcCalls /\ DOMAIN lcFailed = LcCalls
    BY DEF LcInv, LcTypeOK
  <2>2. CASE LcPost(c)
    BY <2>1, <2>2 DEF LcPost
  <2>3. ASSUME NEW a \in LcAddrs, LcSend(c, a)
        PROVE  /\ \A d \in LcCalls : d # c => /\ lcPc'[d] = lcPc[d] /\ lcTodo'[d] = lcTodo[d]
                                               /\ lcSent'[d] = lcSent[d] /\ lcFailed'[d] = lcFailed[d]
               /\ lcPc' = lcPc
    BY <2>1, <2>3 DEF LcSend
  <2>4. CASE \E a \in LcAddrs : LcSend(c, a)
    BY <2>3, <2>4 DEF LcSend
  <2> QED BY <2>2, <2>4
<1>2. lcTodo'[c] \cup lcSent'[c] \cup lcFailed'[c] = lcTodo[c] \cup lcSent[c] \cup lcFailed[c]
  <2>1. CASE LcPost(c)
    BY <2>1 DEF LcPost
  <2>2. ASSUME NEW a \in LcAddrs, LcSend(c, a)
        PROVE  lcTodo'[c] \cup lcSent'[c] \cup lcFailed'[c]
                  = lcTodo[c] \cup lcSent[c] \cup lcFailed[c]
    <3>1. /\ a \in lcTodo[c] /\ lcTodo'[c] = lcTodo[c] \ {a}
          /\ \/ lcSent'[c] = lcSent[c] \cup {a} /\ lcFailed'[c] = lcFailed[c]
             \/ lcFailed'[c] = lcFailed[c] \cup {a} /\ lcSent'[c] = lcSent[c]
      <4>1. DOMAIN lcTodo = LcCalls /\ DOMAIN lcSent = LcCalls /\ DOMAIN lcFailed = LcCalls
        BY DEF LcInv, LcTypeOK
      <4> QED BY <2>2, <4>1 DEF LcSend
    <3> QED BY <3>1
  <2> QED BY <2>1, <2>2
<1>3. LcCounts' /\ LcMade' = LcMade
  BY <1>1, LcCountsStay
<1>4. LcStored' /\ LcNoLinks' /\ IdMapWindow' /\ LcAtWork'
  BY <1>1 DEF LcInv, LcStored, LcNoLinks, IdMapWindow, LcAtWork
<1>5. ReportReachesLinks'
  BY <1>1, <1>2, <1>3 DEF LcInv, ReportReachesLinks
<1> QED BY <1>3, <1>4, <1>5 DEF LcInv

\* A reply finds the user of the report in the database, unless it is closed.
LEMMA LcReplyKeeps ==
    ASSUME LcInv, LcTypeOK', NEW c \in LcCalls, NEW a \in LcAddrs, LcReply(a, c), ~LcDbNil
    PROVE  LcInv'
<1>1. /\ UNCHANGED <<lcMain, lcStart, lcConn, lcRows, lcCall>>
      /\ lcUser[c] = "own" /\ lcConn[a] \in {"up", "stalled"}
      /\ \A d \in LcCalls : d # c => lcFiled'[d] = lcFiled[d]
      /\ lcFiled'[c] = IF LcDbOpen /\ c \in lcRows THEN "own" ELSE "nobody"
      /\ lcLate' = LcMet(c)
  <2>1. DOMAIN lcFiled = LcCalls
    BY DEF LcInv, LcTypeOK
  <2>2. /\ lcFiled' = [lcFiled EXCEPT ![c] = IF LcDbOpen /\ c \in lcRows THEN "own" ELSE "nobody"]
        /\ UNCHANGED <<lcMain, lcStart, lcConn, lcRows, lcCall>> /\ lcLate' = LcMet(c)
        /\ lcUser[c] = "own" /\ lcConn[a] \in {"up", "stalled"}
    BY DEF LcReply
  <2> QED BY <2>1, <2>2
<1>2. LcCounts' /\ LcMade' = LcMade
  BY <1>1, LcCountsStay
<1>3. LcStored' /\ LcNoLinks' /\ LcAtWork' /\ ReportReachesLinks'
  BY <1>1, <1>2 DEF LcInv, LcStored, LcNoLinks, LcAtWork, ReportReachesLinks, lcCall
<1>4. lcFiled'[c] = "nobody" => lcMain = "closed"
  BY <1>1 DEF LcInv, LcStored, LcNoLinks, LcDbNil, LcDbOpen, LcTypeOK
<1>5. IdMapWindow'
  BY <1>1, <1>4 DEF LcInv, IdMapWindow, LcMet, lcCall
<1> QED BY <1>2, <1>3, <1>5 DEF LcInv

\* Every step keeps the invariant.
LEMMA LcInvNext == LcInv /\ [LcNext]_lcVars => LcInv'
<1> SUFFICES ASSUME LcInv, [LcNext]_lcVars PROVE LcInv'
  OBVIOUS
<1>1. LcTypeOK'
  BY LcTypeStep DEF LcInv
<1>2. CASE UNCHANGED lcVars
  <2>1. LcCounts' /\ LcMade' = LcMade
    BY <1>2, LcCountsStay DEF lcVars
  <2> QED BY <1>1, <1>2, <2>1 DEF LcInv, LcAtWork, LcStored, LcNoLinks, ReportReachesLinks,
                                  IdMapWindow, lcVars, lcCall
<1>3. CASE LcEnd \/ LcDie
  BY <1>1, <1>3, LcGoneKeeps DEF LcEnd, LcDie
<1>4. ASSUME NEW c \in LcCalls, NEW a \in LcAddrs, LcReply(a, c) PROVE LcInv'
  BY <1>1, <1>4, LcGoneKeeps, LcReplyKeeps DEF LcReply
<1> QED BY <1>1, <1>2, <1>3, <1>4, LcMainKeeps, LcDialKeeps, LcLinksKeep, LcArriveKeeps,
           LcStoreKeeps, LcSendKeeps DEF LcNext

\* A callback that came after the links were collected is sent to each of them, or
\* fails on it, or has it still before it: main opens the database only after all
\* dials ended.
THEOREM ReportsReachAllLinks == LcSpec => []ReportReachesLinks
<1>1. LcInv => ReportReachesLinks
  BY DEF LcInv
<1> QED BY <1>1, LcInvInit, LcInvNext, PTL DEF LcSpec

\* A reply to a number of an earlier process is filed under the user the number was
\* given to, unless it met the database closed.
THEOREM NumbersSurviveRestarts == LcSpec => []IdMapWindow
<1>1. LcInv => IdMapWindow
  BY DEF LcInv
<1> QED BY <1>1, LcInvInit, LcInvNext, PTL DEF LcSpec

-----------------------------------------------------------------------------
(* The log hub.  Entries leave the channel in order, each to one loop; what *)
(* has left it is before all in it.                                         *)

\* Entry e has left the channel, before everything in it.
HubPast(e) == e <= hubCount /\ \A i \in DOMAIN hubChan : e < hubChan[i]

HubWrites(c) == hubPump[c] \in 1 .. HubEntries

\* The channel holds entries in the order of the calls.
HubChanOrder ==
    /\ \A i \in DOMAIN hubChan : hubChan[i] <= hubCount
    /\ \A i, j \in DOMAIN hubChan : i < j => hubChan[i] < hubChan[j]

\* A handler offers only what it took, and no two of them the same.
HubOffers ==
    \A h \in HubConsoles :
        /\ HubPast(hubTook[h])
        /\ hubTook[h] = 0 => hubTodo[h] = {}
        /\ hubTook[h] # 0 => hubConn[h] # "none"
        /\ \A k \in HubConsoles : h # k /\ hubTook[h] = hubTook[k] => hubTook[h] = 0

\* What console c writes or has shown is not offered to it any more.
HubOnce(c) ==
    /\ HubWrites(c) => HubPast(hubPump[c])
    /\ \A j \in DOMAIN hubSeen[c] : HubPast(hubSeen[c][j])
    /\ HubWrites(c) => \A j \in DOMAIN hubSeen[c] : hubSeen[c][j] # hubPump[c]
    /\ \A h \in HubConsoles : c \in hubTodo[h] =>
          /\ HubWrites(c) => hubPump[c] # hubTook[h]
          /\ \A j \in DOMAIN hubSeen[c] : hubSeen[c][j] # hubTook[h]
    /\ \A i, j \in DOMAIN hubSeen[c] : hubSeen[c][i] = hubSeen[c][j] => i = j

\* With one handler, its console writes and shows them in order.
HubInTurn(c) ==
    HubHandlers \subseteq {c} =>
        /\ HubWrites(c) => \A j \in DOMAIN hubSeen[c] : hubSeen[c][j] < hubPump[c]
        /\ c \in hubTodo[c] =>
              /\ HubWrites(c) => hubPump[c] < hubTook[c]
              /\ \A j \in DOMAIN hubSeen[c] : hubSeen[c][j] < hubTook[c]
        /\ \A i, j \in DOMAIN hubSeen[c] : i < j => hubSeen[c][i] < hubSeen[c][j]

HubInv == /\ HubTypeOK /\ HubChanOrder /\ HubOffers
          /\ \A c \in HubConsoles : HubOnce(c) /\ HubInTurn(c)

\* Initially nothing was logged and no console is connected.
LEMMA HubInvInit == HubInit => HubInv
<1> SUFFICES ASSUME HubInit PROVE HubInv
  OBVIOUS
<1>1. HubTypeOK
  BY HubAssumption DEF HubInit, HubTypeOK, HubEnded
<1>2. DOMAIN hubChan = {} /\ \A c \in HubConsoles : DOMAIN hubSeen[c] = {} /\ ~HubWrites(c)
  BY HubAssumption DEF HubInit, HubWrites, HubEnded
<1>3. HubChanOrder /\ HubOffers
  BY <1>2 DEF HubInit, HubChanOrder, HubOffers, HubPast
<1>4. ASSUME NEW c \in HubConsoles PROVE HubOnce(c) /\ HubInTurn(c)
  BY <1>2 DEF HubInit, HubOnce, HubInTurn
<1> QED BY <1>1, <1>3, <1>4 DEF HubInv

\* What has left the channel stays before all in it.
LEMMA HubPastStays ==
    ASSUME HubTypeOK, HubChanOrder,
           HubEmit \/ (\E h \in HubConsoles : HubTake(h)) \/ UNCHANGED <<hubChan, hubCount>>
    PROVE  \A e \in Nat : HubPast(e) => HubPast(e)'
<1> SUFFICES ASSUME NEW e \in Nat, HubPast(e) PROVE HubPast(e)'
  OBVIOUS
<1>1. hubChan \in Seq(1 .. HubEntries) /\ hubCount \in Nat
  BY HubAssumption DEF HubTypeOK
<1>2. CASE HubEmit
  <2>1. hubCount' = hubCount + 1 /\ e < hubCount' /\ e <= hubCount'
    BY <1>1, <1>2 DEF HubEmit, HubPast
  <2>2. CASE hubChan' = hubChan
    BY <2>1, <2>2 DEF HubPast
  <2>3. CASE hubChan' = Append(hubChan, hubCount')
    <3>1. \A i \in DOMAIN hubChan' : e < hubChan'[i]
      BY <1>1, <2>1, <2>3 DEF HubPast
    <3> QED BY <2>1, <3>1 DEF HubPast
  <2> QED BY <1>2, <2>2, <2>3 DEF HubEmit
<1>3. CASE \E h \in HubConsoles : HubTake(h)
  <2>1. hubChan # <<>> /\ hubChan' = Tail(hubChan) /\ hubCount' = hubCount
    BY <1>3 DEF HubTake
  <2>2. \A i \in DOMAIN hubChan' : i + 1 \in DOMAIN hubChan /\ hubChan'[i] = hubChan[i + 1]
    BY <1>1, <2>1
  <2> QED BY <2>1, <2>2 DEF HubPast
<1>4. CASE UNCHANGED <<hubChan, hubCount>>
  BY <1>4 DEF HubPast
<1> QED BY <1>2, <1>3, <1>4

\* What has left the channel is before what leaves it next.
LEMMA HubHeadIsNext ==
    ASSUME HubTypeOK, HubChanOrder, NEW h \in HubConsoles, HubTake(h)
    PROVE  /\ Head(hubChan) \in 1 .. HubEntries
           /\ \A e \in Nat : HubPast(e) => e < Head(hubChan)
           /\ HubPast(hubTook[h])' /\ hubTook'[h] = Head(hubChan)
           /\ HubChanOrder'
<1>1. hubChan \in Seq(1 .. HubEntries) /\ hubChan # <<>> /\ hubCount \in Nat
  BY HubAssumption DEF HubTypeOK, HubTake
<1>2. Head(hubChan) = hubChan[1] /\ 1 \in DOMAIN hubChan
  BY <1>1
<1>3. hubChan' = Tail(hubChan) /\ hubCount' = hubCount
  BY DEF HubTake
<1>4. \A i \in DOMAIN hubChan' : /\ i \in Nat /\ 1 < i + 1 /\ i + 1 \in DOMAIN hubChan
                                 /\ hubChan'[i] = hubChan[i + 1]
  BY <1>1, <1>3
<1>5. hubTook'[h] = Head(hubChan)
  BY DEF HubTake, HubTypeOK
<1>8. HubPast(hubTook[h])'
  <2>1. hubChan[1] <= hubCount
    BY <1>2 DEF HubChanOrder
  <2>2. \A i \in DOMAIN hubChan' : hubChan[1] < hubChan'[i]
    <3> SUFFICES ASSUME NEW i \in DOMAIN hubChan' PROVE hubChan[1] < hubChan'[i]
      OBVIOUS
    <3>1. 1 < i + 1 /\ i + 1 \in DOMAIN hubChan /\ hubChan'[i] = hubChan[i + 1]
      BY <1>4
    <3> QED BY <1>2, <3>1 DEF HubChanOrder
  <2> QED BY <1>2, <1>3, <1>5, <2>1, <2>2 DEF HubPast
<1>6. \A i, j \in DOMAIN hubChan' : i < j => i + 1 < j + 1
  BY <1>4
<1>7. HubChanOrder'
  BY <1>3, <1>4, <1>6 DEF HubChanOrder
<1>9. Head(hubChan) \in 1 .. HubEntries
  BY <1>1, <1>2, HubAssumption
<1>10. \A e \in Nat : HubPast(e) => e < Head(hubChan)
  BY <1>2 DEF HubPast
<1> QED BY <1>5, <1>7, <1>8, <1>9, <1>10

\* A console that shows and takes nothing new.
LEMMA HubConsoleStays ==
    ASSUME HubInv, NEW c \in HubConsoles,
           \A e \in Nat : HubPast(e) => HubPast(e)',
           hubSeen'[c] = hubSeen[c],
           HubWrites(c)' => HubWrites(c) /\ hubPump'[c] = hubPump[c],
           \A h \in HubConsoles : c \in hubTodo'[h] =>
              \/ c \in hubTodo[h] /\ hubTook'[h] = hubTook[h]
              \/ \A e \in Nat : HubPast(e) => e < hubTook'[h],
           HubHandlers' \subseteq {c} => HubHandlers \subseteq {c}
    PROVE  HubOnce(c)' /\ HubInTurn(c)'
<1>1. /\ \A j \in DOMAIN hubSeen[c] : hubSeen[c][j] \in Nat /\ HubPast(hubSeen[c][j])
      /\ HubWrites(c) => hubPump[c] \in Nat /\ HubPast(hubPump[c])
  <2>1. hubSeen[c] \in Seq(1 .. HubEntries)
    BY DEF HubInv, HubTypeOK
  <2>2. \A j \in DOMAIN hubSeen[c] : hubSeen[c][j] \in 1 .. HubEntries
    BY <2>1, HubAssumption
  <2> QED BY <2>2, HubAssumption DEF HubInv, HubOnce, HubWrites
<1>2. \A h \in HubConsoles : c \in hubTodo'[h] =>
         /\ HubWrites(c)' => hubPump'[c] # hubTook'[h]
         /\ \A j \in DOMAIN hubSeen[c] : hubSeen[c][j] # hubTook'[h]
  <2> SUFFICES ASSUME NEW h \in HubConsoles, c \in hubTodo'[h]
               PROVE  /\ HubWrites(c)' => hubPump'[c] # hubTook'[h]
                      /\ \A j \in DOMAIN hubSeen[c] : hubSeen[c][j] # hubTook'[h]
    OBVIOUS
  <2>1. CASE c \in hubTodo[h] /\ hubTook'[h] = hubTook[h]
    BY <2>1 DEF HubInv, HubOnce
  <2>2. CASE \A e \in Nat : HubPast(e) => e < hubTook'[h]
    <3>1. /\ HubWrites(c)' => hubPump'[c] \in Nat /\ hubPump'[c] < hubTook'[h]
          /\ \A j \in DOMAIN hubSeen[c] : hubSeen[c][j] \in Nat /\ hubSeen[c][j] < hubTook'[h]
      BY <1>1, <2>2
    <3> QED BY <3>1
  <2> QED BY <2>1, <2>2
<1>3. HubOnce(c)'
  <2>1. HubWrites(c)' => HubPast(hubPump[c])'
    BY <1>1
  <2>2. \A j \in DOMAIN hubSeen[c] : HubPast(hubSeen[c][j])'
    <3> SUFFICES ASSUME NEW j \in DOMAIN hubSeen[c] PROVE HubPast(hubSeen[c][j])'
      OBVIOUS
    <3>1. hubSeen[c][j] <= hubCount' /\ \A i \in DOMAIN hubChan' : hubSeen[c][j] < hubChan'[i]
      BY <1>1 DEF HubPast
    <3> QED BY <3>1 DEF HubPast
  <2> QED BY <1>2, <2>1, <2>2 DEF HubInv, HubOnce
<1>4. HubInTurn(c)'
  <2> SUFFICES ASSUME HubHandlers' \subseteq {c}
               PROVE  /\ HubWrites(c)' => \A j \in DOMAIN hubSeen[c] : hubSeen[c][j] < hubPump'[c]
                      /\ c \in hubTodo'[c] =>
                            /\ HubWrites(c)' => hubPump'[c] < hubTook'[c]
                            /\ \A j \in DOMAIN hubSeen[c] : hubSeen[c][j] < hubTook'[c]
                      /\ \A i, j \in DOMAIN hubSeen[c] : i < j => hubSeen[c][i] < hubSeen[c][j]
    BY DEF HubInTurn
  <2>1. HubInTurn(c) /\ HubHandlers \subseteq {c}
    BY DEF HubInv
  <2>2. c \in hubTodo'[c] => /\ HubWrites(c)' => hubPump'[c] < hubTook'[c]
                             /\ \A j \in DOMAIN hubSeen[c] : hubSeen[c][j] < hubTook'[c]
    BY <1>1, <2>1 DEF HubInTurn
  <2> QED BY <2>1, <2>2 DEF HubInTurn
<1> QED BY <1>3, <1>4

\* The types, step by step.
LEMMA HubTypeNext == ASSUME HubTypeOK, HubNext PROVE HubTypeOK'
<1>0. HubEntries \in Nat /\ HubEnded = HubEntries + 1
  BY HubAssumption DEF HubEnded
<1>1. CASE HubEmit
  <2>1. hubCount' \in 1 .. HubEntries
    BY <1>0, <1>1 DEF HubEmit, HubTypeOK
  <2>2. hubChan' \in Seq(1 .. HubEntries)
    <3>1. hubChan \in Seq(1 .. HubEntries)
      BY DEF HubTypeOK
    <3>2. Append(hubChan, hubCount') \in Seq(1 .. HubEntries)
      BY <2>1, <3>1
    <3> QED BY <1>1, <3>1, <3>2 DEF HubEmit
  <2> QED BY <1>1, <2>1, <2>2 DEF HubEmit, HubTypeOK, hubPumps, hubLoops
<1>2. CASE \E h \in HubConsoles : HubTake(h)
  <2> PICK h \in HubConsoles : HubTake(h)
    BY <1>2
  <2>1. hubChan \in Seq(1 .. HubEntries) /\ hubChan # <<>>
    BY DEF HubTypeOK, HubTake
  <2>2. Head(hubChan) \in 1 .. HubEntries /\ Tail(hubChan) \in Seq(1 .. HubEntries)
    <3>1. Tail(hubChan) \in Seq(1 .. HubEntries)
      BY <2>1
    <3>2. hubChan[1] \in 1 .. HubEntries /\ Head(hubChan) = hubChan[1]
      BY <1>0, <2>1
    <3> QED BY <3>1, <3>2
  <2>3. Head(hubChan) \in 0 .. HubEntries
    BY <1>0, <2>2
  <2> QED BY <2>2, <2>3 DEF HubTake, HubTypeOK, hubPumps
<1>3. CASE \E h \in HubConsoles : HubOffered(h)
  BY <1>0, <1>3 DEF HubOffered, HubTypeOK, hubPumps
<1>4. CASE \E h, c \in HubConsoles : HubOffer(h, c)
  <2> PICK h \in HubConsoles, c \in HubConsoles : HubOffer(h, c)
    BY <1>4
  <2>1. hubTook[h] \in 0 .. HubEnded
    BY <1>0 DEF HubTypeOK
  <2>2. hubTodo' \in [HubConsoles -> SUBSET HubConsoles]
    BY DEF HubOffer, HubTypeOK
  <2>3. hubPump' \in [HubConsoles -> 0 .. HubEnded]
    BY <2>1 DEF HubOffer, HubTypeOK
  <2> QED BY <2>2, <2>3 DEF HubOffer, HubTypeOK
<1>5. CASE \E c \in HubConsoles : HubConnect(c) \/ HubLeave(c) \/ HubReadEnds(c) \/ HubWriteEnds(c)
  <2> PICK c \in HubConsoles : HubConnect(c) \/ HubLeave(c) \/ HubReadEnds(c) \/ HubWriteEnds(c)
    BY <1>5
  <2>1. 0 \in 0 .. HubEnded /\ HubEnded \in 0 .. HubEnded
    BY <1>0
  <2>2. hubRead' \in [HubConsoles -> BOOLEAN]
    BY ZenonT(30) DEF HubConnect, HubLeave, HubReadEnds, HubWriteEnds, HubTypeOK, hubPumps
  <2>3. hubPump' \in [HubConsoles -> 0 .. HubEnded] /\ hubConn' \in [HubConsoles -> {"none", "open", "cut"}]
    BY <2>1 DEF HubConnect, HubLeave, HubReadEnds, HubWriteEnds, HubTypeOK, hubPumps
  <2>4. hubSet' \subseteq HubConsoles /\ UNCHANGED <<hubChan, hubCount, hubTook, hubTodo, hubSeen>>
    BY DEF HubConnect, HubLeave, HubReadEnds, HubWriteEnds, HubTypeOK, hubPumps, hubLoops
  <2> QED BY <2>2, <2>3, <2>4 DEF HubTypeOK
<1>6. CASE \E c \in HubConsoles : HubShow(c)
  <2> PICK c \in HubConsoles : HubShow(c)
    BY <1>6
  <2>1. hubSeen[c] \in Seq(1 .. HubEntries)
    BY DEF HubTypeOK
  <2>2. Append(hubSeen[c], hubPump[c]) \in Seq(1 .. HubEntries)
    BY <2>1 DEF HubShow
  <2>3. hubSeen' \in [HubConsoles -> Seq(1 .. HubEntries)]
    BY <2>2 DEF HubShow, HubTypeOK
  <2> QED BY <1>0, <2>3 DEF HubShow, HubTypeOK, hubLoops
<1> QED BY <1>1, <1>2, <1>3, <1>4, <1>5, <1>6 DEF HubNext

\* Entries pile up in order: a step of the log, or of none of the loops.
LEMMA HubChanNext ==
    ASSUME HubTypeOK, HubChanOrder, HubNext
    PROVE  HubChanOrder' /\ \A e \in Nat : HubPast(e) => HubPast(e)'
<1>1. CASE HubEmit
  <2>1. hubChan \in Seq(1 .. HubEntries) /\ hubCount \in Nat /\ hubCount' = hubCount + 1
    BY <1>1, HubAssumption DEF HubTypeOK, HubEmit
  <2>2. CASE hubChan' = hubChan
    <3>1. \A i \in DOMAIN hubChan : hubChan[i] <= hubCount'
      BY <2>1, HubAssumption DEF HubChanOrder
    <3> QED BY <1>1, <2>2, <3>1, HubPastStays DEF HubChanOrder
  <2>3. CASE hubChan' = Append(hubChan, hubCount')
    <3>1. \A i \in DOMAIN hubChan : hubChan[i] \in Nat /\ hubChan[i] < hubCount'
      BY <2>1, HubAssumption DEF HubChanOrder
    <3>2. \A i \in DOMAIN hubChan' : \/ i \in DOMAIN hubChan /\ hubChan'[i] = hubChan[i]
                                     \/ i = Len(hubChan) + 1 /\ hubChan'[i] = hubCount'
      BY <2>1, <2>3
    <3>3. \A i \in DOMAIN hubChan : i \in Nat /\ i <= Len(hubChan)
      BY <2>1
    <3>4. \A i, j \in DOMAIN hubChan' : i < j => hubChan'[i] < hubChan'[j]
      BY <2>1, <3>1, <3>2, <3>3 DEF HubChanOrder
    <3>5. \A i \in DOMAIN hubChan' : hubChan'[i] <= hubCount'
      BY <2>1, <3>1, <3>2
    <3> QED BY <1>1, <3>4, <3>5, HubPastStays DEF HubChanOrder
  <2> QED BY <1>1, <2>2, <2>3 DEF HubEmit
<1>2. CASE \E h \in HubConsoles : HubTake(h)
  BY <1>2, HubHeadIsNext, HubPastStays
<1>3. CASE UNCHANGED <<hubChan, hubCount>>
  BY <1>3, HubPastStays DEF HubChanOrder
<1> QED
  BY <1>1, <1>2, <1>3
  DEF HubNext, HubOffered, HubOffer, HubConnect, HubLeave, HubShow, HubReadEnds, HubWriteEnds

\* An entry is in the hands of at most one handler.
LEMMA HubOffersNext ==
    ASSUME HubTypeOK, HubChanOrder, HubOffers, HubNext
    PROVE  HubOffers'
<1>0. /\ \A e \in Nat : HubPast(e) => HubPast(e)'
      /\ \A h \in HubConsoles : hubTook[h] \in Nat
  BY HubChanNext, HubAssumption DEF HubTypeOK
<1>1. CASE UNCHANGED <<hubTook, hubTodo, hubConn>>
  <2>1. \A h \in HubConsoles : HubPast(hubTook[h])'
    <3> SUFFICES ASSUME NEW h \in HubConsoles PROVE HubPast(hubTook[h])'
      OBVIOUS
    <3>1. hubTook[h] <= hubCount' /\ \A i \in DOMAIN hubChan' : hubTook[h] < hubChan'[i]
      BY <1>0 DEF HubPast, HubOffers
    <3> QED BY <1>1, <3>1 DEF HubPast
  <2> QED BY <1>1, <2>1 DEF HubOffers
<1>2. CASE \E h \in HubConsoles : HubTake(h)
  <2> PICK h \in HubConsoles : HubTake(h)
    BY <1>2
  <2>1. /\ HubPast(hubTook[h])' /\ hubTook'[h] = Head(hubChan)
        /\ \A e \in Nat : HubPast(e) => e < Head(hubChan)
        /\ Head(hubChan) \in 1 .. HubEntries
    BY HubHeadIsNext
  <2>2. /\ \A k \in HubConsoles \ {h} : hubTook'[k] = hubTook[k] /\ hubTodo'[k] = hubTodo[k]
        /\ hubConn' = hubConn /\ hubConn[h] # "none"
    BY DEF HubTake, HubTypeOK, HubHandlers
  <2>3. \A k \in HubConsoles \ {h} : HubPast(hubTook[k])' /\ hubTook[k] < hubTook'[h]
    <3> SUFFICES ASSUME NEW k \in HubConsoles \ {h}
                 PROVE  HubPast(hubTook[k])' /\ hubTook[k] < hubTook'[h]
      OBVIOUS
    <3>1. HubPast(hubTook[k]) /\ hubTook[k] \in Nat
      BY <1>0 DEF HubOffers
    <3>2. hubTook[k] <= hubCount' /\ \A i \in DOMAIN hubChan' : hubTook[k] < hubChan'[i]
      BY <1>0, <3>1 DEF HubPast
    <3>3. hubTook'[k] = hubTook[k]
      BY <2>2
    <3> QED BY <2>1, <3>1, <3>2, <3>3 DEF HubPast
  <2>4. \A k \in HubConsoles \ {h} : hubTook[k] # hubTook'[h]
    BY <1>0, <2>1, <2>3
  <2>5. hubTook'[h] # 0
    BY <2>1, HubAssumption
  <2> QED BY <2>1, <2>2, <2>3, <2>4, <2>5 DEF HubOffers
<1>3. CASE \E h \in HubConsoles : HubOffered(h)
  <2> PICK h \in HubConsoles : HubOffered(h)
    BY <1>3
  <2>1. /\ \A k \in HubConsoles \ {h} : hubTook'[k] = hubTook[k]
        /\ hubTook'[h] = 0 /\ hubTodo' = hubTodo /\ hubConn' = hubConn /\ hubTodo[h] = {}
        /\ hubChan' = hubChan /\ hubCount' = hubCount
    BY DEF HubOffered, HubTypeOK, hubPumps
  <2>2. hubChan \in Seq(1 .. HubEntries) /\ hubCount \in Nat
    BY HubAssumption DEF HubTypeOK
  <2>3. HubPast(hubTook[h])'
    <3>1. \A i \in DOMAIN hubChan : 0 < hubChan[i]
      BY <2>2, HubAssumption
    <3> QED BY <2>1, <2>2, <3>1 DEF HubPast
  <2>4. \A k \in HubConsoles \ {h} : HubPast(hubTook[k])'
    BY <2>1 DEF HubPast, HubOffers
  <2> QED BY <2>1, <2>3, <2>4 DEF HubOffers
<1>4. CASE \E h, c \in HubConsoles : HubOffer(h, c)
  <2> PICK h \in HubConsoles, c \in HubConsoles : HubOffer(h, c)
    BY <1>4
  <2>1. /\ \A k \in HubConsoles : hubTodo'[k] \subseteq hubTodo[k]
        /\ hubTook' = hubTook /\ hubConn' = hubConn /\ hubChan' = hubChan /\ hubCount' = hubCount
    BY DEF HubOffer, HubTypeOK
  <2> QED BY <2>1 DEF HubOffers, HubPast
<1>5. CASE \E c \in HubConsoles : HubConnect(c) \/ HubLeave(c) \/ HubWriteEnds(c)
  <2>1. /\ hubTook' = hubTook /\ hubTodo' = hubTodo /\ hubChan' = hubChan /\ hubCount' = hubCount
        /\ \A h \in HubConsoles : hubConn[h] # "none" => hubConn'[h] # "none"
    BY <1>5 DEF HubConnect, HubLeave, HubWriteEnds, HubTypeOK, hubLoops
  <2> QED BY <2>1 DEF HubOffers, HubPast
<1>6. CASE HubEmit \/ \E c \in HubConsoles : HubShow(c) \/ HubReadEnds(c)
  BY <1>1, <1>6 DEF HubEmit, HubShow, HubReadEnds, hubLoops
<1> QED BY <1>2, <1>3, <1>4, <1>5, <1>6 DEF HubNext

\* A console that was not ready, or is asked by no one, stays as it is.
LEMMA HubOthersStay ==
    ASSUME HubInv, HubNext, NEW c \in HubConsoles,
           ~HubShow(c), \A h \in HubConsoles : HubOffer(h, c) => hubPump[c] # 0
    PROVE  HubOnce(c)' /\ HubInTurn(c)'
<1>0. HubTypeOK /\ HubChanOrder /\ HubOffers
  BY DEF HubInv
<1>1. \A e \in Nat : HubPast(e) => HubPast(e)'
  BY <1>0, HubChanNext
<1>2. hubSeen'[c] = hubSeen[c]
  BY <1>0 DEF HubNext, HubEmit, HubTake, HubOffered, HubOffer, HubConnect, HubLeave, HubShow,
              HubReadEnds, HubWriteEnds, HubTypeOK
<1>3. HubWrites(c)' => HubWrites(c) /\ hubPump'[c] = hubPump[c]
  <2>1. \/ hubPump'[c] = hubPump[c] \/ hubPump'[c] = 0 \/ hubPump'[c] = HubEnded
    <3>1. CASE \E h, k \in HubConsoles : HubOffer(h, k)
      <4> PICK h \in HubConsoles, k \in HubConsoles : HubOffer(h, k)
        BY <3>1
      <4>1. CASE k = c
        BY <4>1 DEF HubOffer
      <4>2. CASE k # c
        BY <1>0, <4>2 DEF HubOffer, HubTypeOK
      <4> QED BY <4>1, <4>2
    <3>2. CASE \E k \in HubConsoles : HubShow(k) \/ HubConnect(k) \/ HubWriteEnds(k)
      BY <1>0, <3>2 DEF HubShow, HubConnect, HubWriteEnds, HubTypeOK
    <3>3. CASE UNCHANGED hubPump
      BY <3>3
    <3> QED
      BY <3>1, <3>2, <3>3
      DEF HubNext, HubEmit, HubTake, HubOffered, HubLeave, HubReadEnds, hubPumps
  <2> QED BY <2>1, HubAssumption DEF HubWrites, HubEnded
<1>4. \A h \in HubConsoles : c \in hubTodo'[h] =>
         \/ c \in hubTodo[h] /\ hubTook'[h] = hubTook[h]
         \/ \A e \in Nat : HubPast(e) => e < hubTook'[h]
  <2>1. CASE \E k \in HubConsoles : HubTake(k)
    <3> PICK k \in HubConsoles : HubTake(k)
      BY <2>1
    <3>1. \A e \in Nat : HubPast(e) => e < hubTook'[k]
      BY <1>0, HubHeadIsNext
    <3>2. \A h \in HubConsoles \ {k} : hubTook'[h] = hubTook[h] /\ hubTodo'[h] = hubTodo[h]
      BY <1>0 DEF HubTake, HubTypeOK
    <3> QED BY <3>1, <3>2
  <2>2. CASE \E k \in HubConsoles : HubOffered(k)
    BY <1>0, <2>2 DEF HubOffered, HubTypeOK
  <2>3. CASE \E k, o \in HubConsoles : HubOffer(k, o)
    BY <1>0, <2>3 DEF HubOffer, HubTypeOK
  <2>4. CASE UNCHANGED hubLoops
    BY <2>4 DEF hubLoops
  <2> QED
    BY <2>1, <2>2, <2>3, <2>4
    DEF HubNext, HubEmit, HubConnect, HubLeave, HubShow, HubReadEnds, HubWriteEnds
<1>5. HubHandlers \subseteq HubHandlers'
  BY <1>0 DEF HubNext, HubEmit, HubTake, HubOffered, HubOffer, HubConnect, HubLeave, HubShow,
              HubReadEnds, HubWriteEnds, HubTypeOK, HubHandlers
<1> QED BY <1>1, <1>2, <1>3, <1>4, <1>5, HubConsoleStays

\* A console that takes what a handler offers.
LEMMA HubTakesOffer ==
    ASSUME HubInv, NEW h \in HubConsoles, NEW c \in HubConsoles,
           HubOffer(h, c), hubPump[c] = 0
    PROVE  HubOnce(c)' /\ HubInTurn(c)'
<1>0. HubTypeOK /\ HubChanOrder /\ HubOffers /\ HubOnce(c) /\ HubInTurn(c)
  BY DEF HubInv
<1>1. /\ hubPump'[c] = hubTook[h] /\ hubSeen' = hubSeen /\ hubTook' = hubTook
      /\ hubChan' = hubChan /\ hubCount' = hubCount /\ HubHandlers' = HubHandlers
      /\ c \in hubTodo[h] /\ c \notin hubTodo'[h]
      /\ \A k \in HubConsoles : hubTodo'[k] \subseteq hubTodo[k]
  BY <1>0 DEF HubOffer, HubTypeOK, HubHandlers
<1>2. hubTook[h] # 0 /\ HubPast(hubTook[h]) /\ h \in HubHandlers
  BY <1>0, <1>1 DEF HubOffers, HubHandlers
<1>3. \A k \in HubConsoles : c \in hubTodo'[k] => k # h /\ c \in hubTodo[k] /\ hubTook[h] # hubTook[k]
  BY <1>0, <1>1, <1>2 DEF HubOffers
<1>4. HubOnce(c)'
  BY <1>0, <1>1, <1>2, <1>3 DEF HubOnce, HubPast
<1>5. HubHandlers \subseteq {c} => h = c
  BY <1>2
<1>6. HubInTurn(c)'
  BY <1>0, <1>1, <1>5 DEF HubInTurn
<1> QED BY <1>4, <1>6

\* A console that shows what it writes.
LEMMA HubShowsIt ==
    ASSUME HubInv, NEW c \in HubConsoles, HubShow(c)
    PROVE  HubOnce(c)' /\ HubInTurn(c)'
<1>0. HubTypeOK /\ HubOnce(c) /\ HubInTurn(c) /\ HubWrites(c)
  BY DEF HubInv, HubShow, HubWrites
<1>1. /\ hubSeen'[c] = Append(hubSeen[c], hubPump[c]) /\ hubPump'[c] = 0
      /\ UNCHANGED <<hubTook, hubTodo, hubChan, hubCount, hubConn>>
  BY <1>0 DEF HubShow, HubTypeOK, hubLoops
<1>2. ~HubWrites(c)' /\ HubHandlers' = HubHandlers
  BY <1>1 DEF HubWrites, HubHandlers
<1>3. hubSeen[c] \in Seq(1 .. HubEntries)
  BY <1>0 DEF HubTypeOK
<1>4. \A j \in DOMAIN hubSeen'[c] :
         \/ j \in DOMAIN hubSeen[c] /\ j <= Len(hubSeen[c]) /\ hubSeen'[c][j] = hubSeen[c][j]
         \/ j = Len(hubSeen[c]) + 1 /\ hubSeen'[c][j] = hubPump[c]
  BY <1>1, <1>3
<1>5. HubOnce(c)'
  <2>1. \A j \in DOMAIN hubSeen'[c] : HubPast(hubSeen'[c][j])
    BY <1>0, <1>4 DEF HubOnce
  <2>2. \A i, j \in DOMAIN hubSeen'[c] : hubSeen'[c][i] = hubSeen'[c][j] => i = j
    BY <1>0, <1>4 DEF HubOnce
  <2>3. \A h \in HubConsoles : c \in hubTodo[h] =>
           \A j \in DOMAIN hubSeen'[c] : hubSeen'[c][j] # hubTook[h]
    BY <1>0, <1>4 DEF HubOnce
  <2> QED BY <1>1, <1>2, <2>1, <2>2, <2>3 DEF HubOnce, HubPast
<1>6. HubInTurn(c)'
  <2> SUFFICES ASSUME HubHandlers \subseteq {c} PROVE HubInTurn(c)'
    BY <1>2 DEF HubInTurn
  <2>1. c \in hubTodo[c] => \A j \in DOMAIN hubSeen'[c] : hubSeen'[c][j] < hubTook[c]
    BY <1>0, <1>4 DEF HubInTurn
  <2>2. \A i, j \in DOMAIN hubSeen'[c] : i < j => hubSeen'[c][i] < hubSeen'[c][j]
    <3>1. Len(hubSeen[c]) \in Nat /\ \A j \in DOMAIN hubSeen[c] : j \in Nat
      BY <1>3
    <3> QED BY <1>0, <1>4, <3>1 DEF HubInTurn
  <2> QED BY <1>1, <1>2, <2>1, <2>2 DEF HubInTurn
<1> QED BY <1>5, <1>6

\* No step disturbs a console.
LEMMA HubConsoleNext ==
    ASSUME HubInv, HubNext, NEW c \in HubConsoles
    PROVE  HubOnce(c)' /\ HubInTurn(c)'
<1>1. CASE HubShow(c)
  BY <1>1, HubShowsIt
<1>2. CASE \E h \in HubConsoles : HubOffer(h, c) /\ hubPump[c] = 0
  BY <1>2, HubTakesOffer
<1>3. CASE ~HubShow(c) /\ \A h \in HubConsoles : HubOffer(h, c) => hubPump[c] # 0
  BY <1>3, HubOthersStay
<1> QED BY <1>1, <1>2, <1>3

\* The invariant of the log hub holds from start to end.
LEMMA HubInvNext == HubInv /\ [HubNext]_hubVars => HubInv'
<1> SUFFICES ASSUME HubInv, [HubNext]_hubVars PROVE HubInv'
  OBVIOUS
<1>1. CASE HubNext
  BY <1>1, HubTypeNext, HubChanNext, HubOffersNext, HubConsoleNext DEF HubInv
<1>2. CASE UNCHANGED hubVars
  BY <1>2 DEF hubVars, hubPumps, hubLoops, HubInv, HubTypeOK, HubChanOrder, HubOffers, HubOnce, HubInTurn,
              HubPast, HubWrites, HubHandlers
<1> QED BY <1>1, <1>2

\* However many loops share the channel, no console of the web interface shows
\* a log entry twice, and with one loop it shows them in the order of the calls.
THEOREM LogIsSeenOnce == HubSpec => []LogSeenOnce
<1>1. HubInv => LogSeenOnce
  BY DEF HubInv, HubOnce, HubInTurn, LogSeenOnce, IsInjective
<1> QED BY <1>1, HubInvInit, HubInvNext, PTL DEF HubSpec

-----------------------------------------------------------------------------
(* The settings.  The instance changes only between processes, and readers  *)
(* get nothing before one is loaded.                                        *)

\* The configuration that is loaded once main is past LoadConfig.
StLoaded == stMain \in {"compose", "open", "up"} => stInst \in DOMAIN StFiles

\* Nobody asks before main has named the console.
StQuiet == stMain \notin {"open", "up"} =>
               \A r \in StReaders : /\ stCall[r] = "none" /\ stLeft[r] = <<>>
                                    /\ stGot[r] = <<>>

\* The console is named, and then served, by the settings that are loaded.
StAddressed ==
    /\ stMain \in {"open", "up"} =>
          stNamed = StAt(StFiles[stInst][IF StFiles[stInst]["Lotus"]
                                         THEN "BackupPort" ELSE "Port"])
    /\ stMain = "up" => stServed = stNamed

StShape == /\ stFile \in DOMAIN StFiles /\ stInst \in {0} \cup DOMAIN StFiles
           /\ stMain \in {"down", "load", "compose", "open", "up"}
           /\ DOMAIN stCall = StReaders /\ DOMAIN stLeft = StReaders
           /\ DOMAIN stGot = StReaders

\* What a reader has got.
StGotten(got) == \A k \in DOMAIN got : stInst # 0 /\ got[k] = StFiles[stInst][k]

StInv == /\ StShape /\ StLoaded /\ StQuiet /\ StAddressed
         /\ \A r \in StReaders : StGotten(stGot[r])

\* Initially nothing is loaded.
LEMMA StInvInit == StInit => StInv
BY StAssumption DEF StInit, StInv, StShape, StLoaded, StQuiet, StAddressed, StGotten

\* Without the process nobody reads.
LEMMA StGoneKeeps == StInv /\ StGone => StInv'
BY DEF StGone, StInv, StShape, StLoaded, StQuiet, StAddressed, StGotten

\* main loads once, before anybody reads.
LEMMA StMainKeeps ==
    StInv /\ (StStart \/ StLoad \/ StCompose \/ StServe \/ StDie) => StInv'
<1> SUFFICES ASSUME StInv, StStart \/ StLoad \/ StCompose \/ StServe \/ StDie, ~StGone
             PROVE  StInv'
  BY StGoneKeeps
<1>1. UNCHANGED stReads /\ stMain' # "down"
  BY DEF StStart, StLoad, StCompose, StServe, StDie
<1>2. StShape' /\ StLoaded' /\ StQuiet'
  BY <1>1 DEF StInv, StShape, StLoaded, StQuiet, StStart, StLoad, StCompose, StServe, StDie,
              stReads
<1>3. ASSUME NEW r \in StReaders PROVE StGotten(stGot[r])'
  <2>1. CASE stInst' = stInst
    BY <1>1, <2>1 DEF StInv, StGotten, stReads
  <2>2. CASE stInst' # stInst
    <3>1. stMain = "load" /\ stGot' = stGot
      BY <1>1, <2>2 DEF StStart, StLoad, StCompose, StServe, StDie, stReads
    <3>2. stGot'[r] = <<>>
      BY <3>1 DEF StInv, StQuiet
    <3> QED BY <3>2 DEF StGotten
  <2> QED BY <2>1, <2>2
<1>4. StAddressed'
  <2>1. CASE StStart \/ StLoad \/ StDie
    BY <2>1 DEF StAddressed, StStart, StLoad, StDie
  <2>2. CASE StCompose
    <3>1. stInst # 0 /\ stInst' = stInst /\ stMain' = "open"
      BY <2>2, StAssumption DEF StCompose, StInv, StLoaded
    <3> QED BY <2>2, <3>1 DEF StCompose, StGet, StAddressed
  <2>3. CASE StServe
    <3>1. stInst' = stInst /\ stNamed' = stNamed /\ stMain = "open"
      BY <2>3 DEF StServe
    <3> QED BY <2>3, <3>1 DEF StServe, StInv, StAddressed
  <2> QED BY <2>1, <2>2, <2>3
<1> QED BY <1>2, <1>3, <1>4 DEF StInv

\* A reader gets what is loaded, as it comes to each key.
LEMMA StReadersKeep ==
    ASSUME StInv, NEW r \in StReaders,
           (\E c \in StAsked : StAsk(r, c)) \/ StRead(r) \/ StReturn(r)
    PROVE  StInv'
<1>1. stMain \in {"open", "up"} /\ stInst # 0
  BY StAssumption DEF StInv, StLoaded, StQuiet, StAsk, StRead, StReturn
<1>2. /\ UNCHANGED <<stFile, stInst, stMain, stNamed, stServed>>
      /\ DOMAIN stCall' = StReaders /\ DOMAIN stLeft' = StReaders /\ DOMAIN stGot' = StReaders
      /\ \A s \in StReaders \ {r} : stGot'[s] = stGot[s]
  BY DEF StInv, StShape, StAsk, StRead, StReturn
<1>3. StGotten(stGot'[r])
  <2>1. CASE (\E c \in StAsked : StAsk(r, c)) \/ StReturn(r)
    <3>1. stGot'[r] = <<>>
      BY <2>1 DEF StInv, StShape, StAsk, StReturn
    <3> QED BY <3>1 DEF StGotten
  <2>2. CASE StRead(r)
    <3> DEFINE old == stGot[r]
               new == [k \in DOMAIN old \cup Head(stLeft[r]) |->
                          IF k \in DOMAIN old THEN old[k] ELSE StGet(k)]
    <3>1. stGot'[r] = new
      BY <2>2 DEF StRead, StInv, StShape
    <3>2. \A k \in DOMAIN old : old[k] = StFiles[stInst][k]
      BY DEF StInv, StGotten
    <3>3. \A k : StGet(k) = StFiles[stInst][k]
      BY <1>1 DEF StGet
    <3>4. \A k \in DOMAIN new : new[k] = StFiles[stInst][k]
      BY <3>2, <3>3
    <3> QED BY <1>1, <3>1, <3>4 DEF StGotten
  <2> QED BY <2>1, <2>2
<1>4. \A s \in StReaders : StGotten(stGot[s])'
  BY <1>2, <1>3 DEF StInv, StGotten
<1> QED BY <1>1, <1>2, <1>4 DEF StInv, StShape, StLoaded, StQuiet, StAddressed

\* Every step keeps the invariant.
LEMMA StInvNext == StInv /\ [StNext]_stVars => StInv'
<1>1. StInv /\ UNCHANGED stVars => StInv'
  BY DEF StInv, StShape, StLoaded, StQuiet, StAddressed, StGotten, stVars, stReads
<1>2. ASSUME NEW v \in DOMAIN StFiles PROVE StInv /\ StEdit(v) => StInv'
  BY DEF StEdit, StInv, StShape, StLoaded, StQuiet, StAddressed, StGotten, stReads
<1> QED BY <1>1, <1>2, StMainKeeps, StReadersKeep DEF StNext

\* What it says of readers and of the console.
LEMMA StInvMeans == StInv => SettingsWhole
BY DEF StInv, StGotten, StAddressed, SettingsWhole

\* A reader gets the settings of one version of the file, the one that was loaded,
\* however the file is edited meanwhile, and main serves the console where it said.
THEOREM SettingsStayWhole == StSpec => []SettingsWhole
BY StInvInit, StInvNext, StInvMeans, PTL DEF StSpec

-----------------------------------------------------------------------------
(* Runtime: a step of one part leaves the others as they are.               *)

\* Every part starts as its own specification says, and takes its own steps.
LEMMA RuntimeSteps ==
    /\ Init => LcInit /\ HubInit /\ StInit
    /\ [Next]_vars => [LcNext]_lcVars /\ [HubNext]_hubVars /\ [StNext]_stVars
BY DEF Init, Next, vars

\* Runtime implements the specification of every part, fairness included, so
\* what holds of a part holds in it.
THEOREM RuntimeImplementsParts == Spec => LcSpec /\ HubSpec /\ StSpec
BY RuntimeSteps, PTL DEF Spec, LcSpec, HubSpec, StSpec

-----------------------------------------------------------------------------
(* The types of all parts.                                                  *)

\* What is still to be read of a plan are settings there are.
StPlanned == \A r \in StReaders : stLeft[r] \in Seq(SUBSET StKeys)

\* Types, from the plans.
StTypes == StTypeOK /\ DOMAIN stLeft = StReaders /\ DOMAIN stGot = StReaders /\ StPlanned

\* A process that goes leaves its readers nothing to read.
LEMMA StTypesGone == StTypes /\ StGone => StTypes'
<1> SUFFICES ASSUME StTypes, StGone PROVE StTypes'
  OBVIOUS
<1>1. <<>> \in Seq(SUBSET StKeys)
  OBVIOUS
<1> QED BY <1>1 DEF StTypes, StGone, StTypeOK, StPlanned

\* Every step keeps the types: a reader that asks takes the plan of what it asks,
\* one that reads the part at its head.
LEMMA StTypesNext == StTypes /\ [StNext]_stVars => StTypes'
<1> SUFFICES ASSUME StTypes, [StNext]_stVars PROVE StTypes'
  OBVIOUS
<1>1. CASE StGone
  BY <1>1, StTypesGone
<1>2. CASE ~StGone /\ (StStart \/ StLoad \/ StCompose \/ StServe \/ StDie)
  BY <1>2 DEF StTypes, StTypeOK, StPlanned, StStart, StLoad, StCompose, StServe, StDie, stReads
<1>3. ASSUME NEW v \in DOMAIN StFiles, StEdit(v) PROVE StTypes'
  BY <1>3 DEF StTypes, StTypeOK, StPlanned, StEdit, stReads
<1>4. ASSUME NEW r \in StReaders, NEW c \in StAsked, StAsk(r, c) PROVE StTypes'
  <2>1. StPlan(c) \in Seq(SUBSET StKeys)
    BY StAssumption
  <2>2. /\ stCall' = [stCall EXCEPT ![r] = c] /\ stLeft' = [stLeft EXCEPT ![r] = StPlan(c)]
        /\ stGot' = [stGot EXCEPT ![r] = <<>>] /\ UNCHANGED <<stFile, stInst, stMain>>
    BY <1>4 DEF StAsk
  <2> HIDE DEF StPlan
  <2> QED BY <2>1, <2>2 DEF StTypes, StTypeOK, StPlanned
<1>5. ASSUME NEW r \in StReaders, StRead(r) PROVE StTypes'
  <2>1. /\ stLeft[r] \in Seq(SUBSET StKeys) /\ stLeft[r] # <<>>
        /\ stLeft' = [stLeft EXCEPT ![r] = Tail(@)]
        /\ DOMAIN stGot' = StReaders /\ DOMAIN stGot'[r] = (DOMAIN stGot[r]) \cup Head(stLeft[r])
        /\ \A s \in StReaders \ {r} : stGot'[s] = stGot[s]
        /\ UNCHANGED <<stFile, stInst, stMain, stCall>>
    BY <1>5 DEF StRead, StTypes, StPlanned
  <2>2. Head(stLeft[r]) \in SUBSET StKeys /\ Tail(stLeft[r]) \in Seq(SUBSET StKeys)
    BY <2>1
  <2> QED BY <2>1, <2>2 DEF StTypes, StTypeOK, StPlanned
<1>6. ASSUME NEW r \in StReaders, StReturn(r) PROVE StTypes'
  BY <1>6 DEF StReturn, StTypes, StTypeOK, StPlanned
<1>7. CASE UNCHANGED stVars
  BY <1>7 DEF stVars, stReads, StTypes, StTypeOK, StPlanned
<1> QED BY <1>1, <1>2, <1>3, <1>4, <1>5, <1>6, <1>7 DEF StNext

\* The process, the log hub and the settings keep the types of their variables when
\* they run together.
THEOREM RuntimeTypeCorrect == Spec => [](LcTypeOK /\ HubTypeOK /\ StTypeOK)
<1>1. StInit => StTypes
  <2> SUFFICES ASSUME StInit PROVE StTypes
    OBVIOUS
  <2>1. <<>> \in Seq(SUBSET StKeys)
    OBVIOUS
  <2> QED BY <2>1, StAssumption DEF StInit, StTypes, StTypeOK, StPlanned
<1>2. (LcInv => LcTypeOK) /\ (HubInv => HubTypeOK) /\ (StTypes => StTypeOK)
  BY DEF LcInv, HubInv, StTypes
<1> QED BY <1>1, <1>2, StTypesNext, LcInvInit, LcInvNext, HubInvInit, HubInvNext,
           RuntimeImplementsParts, PTL DEF LcSpec, HubSpec, StSpec

=============================================================================
