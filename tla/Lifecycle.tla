------------------------------ MODULE Lifecycle ------------------------------
(* The program from start to end, and what its goroutines do meanwhile.     *)
(* main listens for callbacks before anything they need exists, then makes  *)
(* msgServer, dials every address at once and collects the links that came  *)
(* about, opens the id database and runs until a signal; then it closes the *)
(* links one by one and the database, and ends.  A callback reads the list  *)
(* of links, stores its user in the database and is reported to every link  *)
(* it read, then posted; a link's reader looks up the user of every reply.  *)
(* Links break and are dialed again by their readers, during the shutdown   *)
(* too; the process may die anywhere and be started again.                  *)
(* The application is told numbers (string_ob11 off) from the own database  *)
(* (lotus off).  How a link works is in WsLink, the database in IdMap.      *)
EXTENDS Naturals, FiniteSets

CONSTANTS
    LcAddrs,   \* the configured addresses
    LcEmpty,   \* those that are empty strings
    LcCalls,   \* text callbacks, each of a user of its own
    LcPosts,   \* config post_url is not empty
    LcStarts   \* bound: how often the process is started

ASSUME LcAssumption ==
    /\ IsFiniteSet(LcAddrs) /\ LcEmpty \subseteq LcAddrs
    /\ LcPosts \in BOOLEAN /\ LcStarts \in Nat

LcLinks == LcAddrs \ LcEmpty

VARIABLES
    lcMain,     \* where main is, "down" when there is no process
    lcStarts,   \* how often the process was started
    lcDial,     \* lcDial[a]: NewWebSocketClient for address a
    lcCount,    \* i of the collecting loop
    lcClients,  \* wsClients
    lcConn,     \* lcConn[a]: the connection of link a; stalled: nobody reads its far end
    lcToClose,  \* links the shutdown has not closed yet
    lcRows,     \* the users in the id database; it outlives the process
    lcPc,       \* lcPc[c]: what callback c is about
    lcUser,     \* lcUser[c]: the user number in its report
    lcTodo,     \* lcTodo[c]: the links it still has to report to
    lcSent,     \* lcSent[c]: the links it was sent to
    lcFailed,   \* lcFailed[c]: the links that failed (kept for sending again)
    lcPosted,   \* lcPosted[c]: it was posted
    lcFiled,    \* lcFiled[c]: whom the reply to c was filed under
    lcEarly,    \* history: lcEarly[c]: c came before the links were collected
    lcLate      \* history: callbacks that met, or whose reply met, a closed database

lcStart == <<lcDial, lcCount, lcClients>>
lcCall == <<lcPc, lcUser, lcTodo, lcSent, lcFailed, lcPosted, lcEarly>>
lcVars == <<lcMain, lcStarts, lcStart, lcConn, lcToClose, lcRows, lcCall, lcFiled,
            lcLate>>

LcInit == /\ lcMain = "down" /\ lcStarts = 0
          /\ lcDial = [a \in LcAddrs |-> "off"]
          /\ lcCount = 0 /\ lcClients = {}
          /\ lcConn = [a \in LcAddrs |-> "none"]
          /\ lcToClose = {} /\ lcRows = {}
          /\ lcPc = [c \in LcCalls |-> "none"]
          /\ lcUser = [c \in LcCalls |-> "none"]
          /\ lcTodo = [c \in LcCalls |-> {}]
          /\ lcSent = [c \in LcCalls |-> {}]
          /\ lcFailed = [c \in LcCalls |-> {}]
          /\ lcPosted = [c \in LcCalls |-> FALSE]
          /\ lcFiled = [c \in LcCalls |-> "none"]
          /\ lcEarly = [c \in LcCalls |-> FALSE]
          /\ lcLate = {}

\* The database is a nil pointer before main opens it.
LcDbNil == lcMain \in {"start", "bare", "dial"}
LcDbOpen == lcMain \in {"up", "closing"}
LcMet(c) == IF lcMain = "closed" THEN lcLate \cup {c} ELSE lcLate

-----------------------------------------------------------------------------
(* main.                                                                    *)

\* ListenAndServe on a goroutine.
LcListen ==
    /\ lcMain = "start"
    /\ lcMain' = "bare"
    /\ UNCHANGED <<lcStarts, lcStart, lcConn, lcToClose, lcRows, lcCall, lcFiled,
                   lcLate>>

\* msgServer is made, and a goroutine dials each address that is not empty.
LcDialAll ==
    /\ lcMain = "bare"
    /\ lcMain' = "dial"
    /\ lcDial' = [a \in LcAddrs |-> IF a \in LcEmpty THEN "off" ELSE "trying"]
    /\ UNCHANGED <<lcStarts, lcCount, lcClients, lcConn, lcToClose, lcRows, lcCall,
                   lcFiled, lcLate>>

\* NewWebSocketClient: its reader runs from now on, and the link is put into
\* wsClientChan; or the tries are used up and the error into errorChan.
LcDialEnds(a) ==
    /\ lcDial[a] = "trying"
    /\ \/ /\ lcDial' = [lcDial EXCEPT ![a] = "linked"]
          /\ lcConn' = [lcConn EXCEPT ![a] = "up"]
       \/ lcDial' = [lcDial EXCEPT ![a] = "error"] /\ UNCHANGED lcConn
    /\ UNCHANGED <<lcMain, lcStarts, lcCount, lcClients, lcToClose, lcRows, lcCall,
                   lcFiled, lcLate>>

\* The loop over attemptedConnections takes what either channel has.
LcCollect(a) ==
    /\ lcMain = "dial" /\ lcCount < Cardinality(LcLinks)
    /\ lcDial[a] \in {"linked", "error"}
    /\ lcClients' = IF lcDial[a] = "linked" THEN lcClients \cup {a} ELSE lcClients
    /\ lcDial' = [lcDial EXCEPT ![a] = IF @ = "linked" THEN "ok" ELSE "given up"]
    /\ lcCount' = lcCount + 1
    /\ UNCHANGED <<lcMain, lcStarts, lcConn, lcToClose, lcRows, lcCall, lcFiled,
                   lcLate>>

\* Variant: empty addresses are counted as attempted.
LcOpenCountsEmpty ==
    /\ lcMain = "dial" /\ lcCount = Cardinality(LcAddrs)
    /\ lcMain' = "up"
    /\ UNCHANGED <<lcStarts, lcStart, lcConn, lcToClose, lcRows, lcCall, lcFiled,
                   lcLate>>

\* idmap.InitializeDB, once every dial has ended.
LcOpen ==
    /\ lcMain = "dial" /\ lcCount = Cardinality(LcLinks)
    /\ lcMain' = "up"
    /\ UNCHANGED <<lcStarts, lcStart, lcConn, lcToClose, lcRows, lcCall, lcFiled,
                   lcLate>>

\* SIGINT or SIGTERM once signal.Notify was called; earlier it is LcDie.
LcSignal ==
    /\ lcMain = "up"
    /\ lcMain' = "closing"
    /\ lcToClose' = lcClients
    /\ UNCHANGED <<lcStarts, lcStart, lcConn, lcRows, lcCall, lcFiled, lcLate>>

\* Variant: a link that is down when the shutdown comes to it stops it.
LcCloseLive(a) ==
    /\ lcMain = "closing" /\ a \in lcToClose /\ lcConn[a] = "up"
    /\ lcToClose' = lcToClose \ {a}
    /\ lcConn' = [lcConn EXCEPT ![a] = "broken"]
    /\ UNCHANGED <<lcMain, lcStarts, lcStart, lcRows, lcCall, lcFiled, lcLate>>

\* Close of one link; an error is logged.  The link's reader sees it broken.
LcCloseLink(a) ==
    /\ lcMain = "closing" /\ a \in lcToClose
    /\ lcToClose' = lcToClose \ {a}
    /\ lcConn' = [lcConn EXCEPT ![a] = "broken"]
    /\ UNCHANGED <<lcMain, lcStarts, lcStart, lcRows, lcCall, lcFiled, lcLate>>

\* CloseDB.  Callbacks are served and links dialed again until main ends.
LcCloseDb ==
    /\ lcMain = "closing" /\ lcToClose = {}
    /\ lcMain' = "closed"
    /\ UNCHANGED <<lcStarts, lcStart, lcConn, lcToClose, lcRows, lcCall, lcFiled,
                   lcLate>>

\* Without the process there are no links, and what callbacks were about ends.
LcGone ==
    /\ lcMain' = "down"
    /\ lcDial' = [a \in LcAddrs |-> "off"]
    /\ lcCount' = 0 /\ lcClients' = {} /\ lcToClose' = {}
    /\ lcConn' = [a \in LcAddrs |-> "none"]
    /\ lcPc' = [c \in LcCalls |-> IF lcPc[c] \in {"store", "send"} THEN "lost" ELSE lcPc[c]]
    /\ UNCHANGED <<lcStarts, lcUser, lcTodo, lcSent, lcFailed, lcPosted, lcEarly, lcLate>>

\* Variant: what the process stored goes with it.
LcEndLosesRows == lcMain = "closed" /\ LcGone /\ lcRows' = {} /\ UNCHANGED lcFiled

\* The console's server is shut down, for five seconds at most.
LcEnd == lcMain = "closed" /\ LcGone /\ UNCHANGED <<lcRows, lcFiled>>

\* log.Fatal of any goroutine, or the process is killed.
LcDie == lcMain # "down" /\ LcGone /\ UNCHANGED <<lcRows, lcFiled>>

\* The first start, or a later one.
LcBegin ==
    /\ lcMain = "down" /\ lcStarts < LcStarts
    /\ lcMain' = "start"
    /\ lcStarts' = lcStarts + 1
    /\ UNCHANGED <<lcStart, lcConn, lcToClose, lcRows, lcCall, lcFiled, lcLate>>

-----------------------------------------------------------------------------
(* Callbacks.                                                               *)

\* With msgServer nil the handler panics; net/http recovers, the connection
\* breaks.  Else ProcessGroupMessage or ProcessC2CMessage gets wsClients as
\* it is now.
LcArrive(c) ==
    /\ lcPc[c] = "none" /\ lcMain \notin {"start", "down"}
    /\ lcPc' = [lcPc EXCEPT ![c] = IF lcMain = "bare" THEN "lost" ELSE "store"]
    /\ lcTodo' = [lcTodo EXCEPT ![c] = IF lcMain = "bare" THEN {} ELSE lcClients]
    /\ lcEarly' = [lcEarly EXCEPT ![c] = LcDbNil]
    /\ UNCHANGED <<lcMain, lcStarts, lcStart, lcConn, lcToClose, lcRows, lcUser,
                   lcSent, lcFailed, lcPosted, lcFiled, lcLate>>

\* StoreIDv2 panics without a database (recovered); with a closed one it
\* returns an error, which is logged, and the number 0.
LcStore(c) ==
    /\ lcPc[c] = "store"
    /\ lcPc' = [lcPc EXCEPT ![c] = IF LcDbNil THEN "lost" ELSE "send"]
    /\ lcUser' = [lcUser EXCEPT ![c] = IF LcDbNil THEN "none"
                                       ELSE IF LcDbOpen THEN "own" ELSE "zero"]
    /\ lcRows' = IF LcDbOpen THEN lcRows \cup {c} ELSE lcRows
    /\ lcLate' = LcMet(c)
    /\ UNCHANGED <<lcMain, lcStarts, lcStart, lcConn, lcToClose, lcTodo, lcSent,
                   lcFailed, lcPosted, lcEarly, lcFiled>>

\* Variant: the first link that fails ends the broadcast.
LcSendUntilError(c, a) ==
    /\ lcPc[c] = "send" /\ a \in lcTodo[c] /\ lcConn[a] # "stalled"
    /\ IF lcConn[a] = "up"
       THEN /\ lcSent' = [lcSent EXCEPT ![c] = @ \cup {a}]
            /\ lcTodo' = [lcTodo EXCEPT ![c] = @ \ {a}]
            /\ UNCHANGED lcFailed
       ELSE /\ lcFailed' = [lcFailed EXCEPT ![c] = @ \cup {a}]
            /\ lcTodo' = [lcTodo EXCEPT ![c] = {}]
            /\ UNCHANGED lcSent
    /\ UNCHANGED <<lcMain, lcStarts, lcStart, lcConn, lcToClose, lcRows, lcPc, lcUser,
                   lcPosted, lcEarly, lcFiled, lcLate>>

\* BroadcastMessageToAll sends to each link, whatever became of the others.
\* A write has no deadline: on a stalled link it waits.
LcSend(c, a) ==
    /\ lcPc[c] = "send" /\ a \in lcTodo[c] /\ lcConn[a] # "stalled"
    /\ IF lcConn[a] = "up"
       THEN lcSent' = [lcSent EXCEPT ![c] = @ \cup {a}] /\ UNCHANGED lcFailed
       ELSE lcFailed' = [lcFailed EXCEPT ![c] = @ \cup {a}] /\ UNCHANGED lcSent
    /\ lcTodo' = [lcTodo EXCEPT ![c] = @ \ {a}]
    /\ UNCHANGED <<lcMain, lcStarts, lcStart, lcConn, lcToClose, lcRows, lcPc, lcUser,
                   lcPosted, lcEarly, lcFiled, lcLate>>

\* PostMessageToUrls, only when no link failed; the callback then waits for
\* its reply (ReplyExchange).
LcPost(c) ==
    /\ lcPc[c] = "send" /\ lcTodo[c] = {}
    /\ lcPc' = [lcPc EXCEPT ![c] = "done"]
    /\ lcPosted' = [lcPosted EXCEPT ![c] = LcPosts /\ lcFailed[c] = {}]
    /\ UNCHANGED <<lcMain, lcStarts, lcStart, lcConn, lcToClose, lcRows, lcUser,
                   lcTodo, lcSent, lcFailed, lcEarly, lcFiled, lcLate>>

-----------------------------------------------------------------------------
(* Links.                                                                   *)

\* The application does not read any more, and the buffers fill up ...
LcStall(a) ==
    /\ lcConn[a] = "up"
    /\ lcConn' = [lcConn EXCEPT ![a] = "stalled"]
    /\ UNCHANGED <<lcMain, lcStarts, lcStart, lcToClose, lcRows, lcCall, lcFiled,
                   lcLate>>

\* ... until it reads again.
LcResume(a) ==
    /\ lcConn[a] = "stalled"
    /\ lcConn' = [lcConn EXCEPT ![a] = "up"]
    /\ UNCHANGED <<lcMain, lcStarts, lcStart, lcToClose, lcRows, lcCall, lcFiled,
                   lcLate>>

\* The application goes, or the network fails, or TCP gives the stalled peer up.
LcBreak(a) ==
    /\ lcConn[a] \in {"up", "stalled"}
    /\ lcConn' = [lcConn EXCEPT ![a] = "broken"]
    /\ UNCHANGED <<lcMain, lcStarts, lcStart, lcToClose, lcRows, lcCall, lcFiled,
                   lcLate>>

\* The reader's Reconnect, which does not know of a shutdown.
LcReconnect(a) ==
    /\ lcConn[a] = "broken"
    /\ lcConn' = [lcConn EXCEPT ![a] = "up"]
    /\ UNCHANGED <<lcMain, lcStarts, lcStart, lcToClose, lcRows, lcCall, lcFiled,
                   lcLate>>

\* The application replies to the user number of a report, even of before a
\* restart.  RetrieveRowByIDv2 panics without a database, in the reader, and
\* the process dies; its error is not looked at and leaves the key empty.
LcReply(a, c) ==
    /\ lcConn[a] \in {"up", "stalled"} /\ lcUser[c] = "own" /\ lcFiled[c] = "none"
    /\ IF LcDbNil
       THEN LcGone /\ UNCHANGED <<lcRows, lcFiled>>
       ELSE /\ lcFiled' = [lcFiled EXCEPT ![c] =
                             IF LcDbOpen /\ c \in lcRows THEN "own" ELSE "nobody"]
            /\ lcLate' = LcMet(c)
            /\ UNCHANGED <<lcMain, lcStarts, lcStart, lcConn, lcToClose, lcRows,
                           lcCall>>

-----------------------------------------------------------------------------
LcNext == \/ LcListen \/ LcDialAll \/ LcOpen \/ LcSignal \/ LcCloseDb
          \/ LcEnd \/ LcDie \/ LcBegin
          \/ \E a \in LcAddrs : \/ LcDialEnds(a) \/ LcCollect(a) \/ LcCloseLink(a)
                                \/ LcStall(a) \/ LcResume(a)
                                \/ LcBreak(a) \/ LcReconnect(a)
          \/ \E c \in LcCalls : \/ LcArrive(c) \/ LcStore(c) \/ LcPost(c)
                                \/ \E a \in LcAddrs : LcSend(c, a) \/ LcReply(a, c)

\* main runs on; a dial ends after a bounded number of tries, each with a
\* handshake timeout.  Close takes the mutex a write holds: it gets it between
\* two writes, and a stall ends (TCP breaks the connection at the latest).
LcMainStep == LcListen \/ LcDialAll \/ LcOpen \/ LcCloseDb \/ LcEnd

LcFairness == /\ WF_lcVars(LcMainStep)
              /\ \A a \in LcLinks :
                    /\ WF_lcVars(LcDialEnds(a) \/ LcCollect(a))
                    /\ WF_lcVars(lcConn[a] = "stalled" /\ LcBreak(a))
                    /\ SF_lcVars(lcConn[a] # "stalled" /\ LcCloseLink(a))

LcSpec == LcInit /\ [][LcNext]_lcVars /\ LcFairness

-----------------------------------------------------------------------------
(* Properties.                                                              *)

LcTypeOK ==
    /\ lcMain \in {"start", "bare", "dial", "up", "closing", "closed", "down"}
    /\ lcStarts \in Nat
    /\ lcDial \in [LcAddrs -> {"off", "trying", "linked", "error", "ok", "given up"}]
    /\ lcCount \in Nat
    /\ lcClients \subseteq LcAddrs /\ lcToClose \subseteq LcAddrs
    /\ lcConn \in [LcAddrs -> {"none", "up", "stalled", "broken"}]
    /\ lcRows \subseteq LcCalls
    /\ lcPc \in [LcCalls -> {"none", "store", "send", "done", "lost"}]
    /\ lcUser \in [LcCalls -> {"none", "own", "zero"}]
    /\ lcTodo \in [LcCalls -> SUBSET LcAddrs]
    /\ lcSent \in [LcCalls -> SUBSET LcAddrs]
    /\ lcFailed \in [LcCalls -> SUBSET LcAddrs]
    /\ lcPosted \in [LcCalls -> BOOLEAN]
    /\ lcFiled \in [LcCalls -> {"none", "own", "nobody"}]
    /\ lcEarly \in [LcCalls -> BOOLEAN]
    /\ lcLate \subseteq LcCalls

\* The links that came about.
LcMade == {a \in LcAddrs : lcDial[a] \in {"linked", "ok"}}

\* A callback that is being reported was, or will be, sent to every link that
\* came about: none of those is missing from the list main collected, and a
\* link that fails keeps no other from its report.  Only a callback that came
\* while main was still collecting may know fewer links.
ReportReachesLinks ==
    \A c \in LcCalls :
        (lcPc[c] \in {"store", "send"} /\ ~lcEarly[c]) =>
            lcTodo[c] \cup lcSent[c] \cup lcFailed[c] = LcMade

\* Users keep their numbers across restarts: a reply to a number that was
\* reported is filed under its user, whatever process reported it, and no
\* user is reported as 0, unless the callback or its reply came between the
\* closing of the database and the end of the process.
IdMapWindow ==
    \A c \in LcCalls :
        (lcUser[c] = "zero" \/ lcFiled[c] = "nobody") => c \in lcLate

\* The program neither hangs while it starts nor while it ends: main never
\* waits for a link that will not come, whichever dials fail, and a signal ends
\* the program although the links it closes are dialed again.
AlwaysSettles == []<>(lcMain \in {"up", "down"})
=============================================================================
