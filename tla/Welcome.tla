------------------------------- MODULE Welcome -------------------------------
(* The subscribe event with subscribe_msg_type 2: a welcome text is         *)
(* reported to the application as if the user had sent it, and the event    *)
(* waits for the application's reply.  WeChat delivers an event again that  *)
(* is not answered within five seconds; deliveries, text callbacks of the   *)
(* same user and the link's reader run at once.                             *)
(* The event waits under the echo "appid_s" that ProcessGroupMessage        *)
(* returns, with s the number of messages so far; the reader files a reply  *)
(* under the user's id.                                                     *)
EXTENDS Naturals

CONSTANTS
    WelUsers,     \* users
    WelEvents,    \* deliveries of subscribe events
    WelMessages,  \* bound: messages that count s up
    WelNone

\* The keys of echoToChanMap: user ids and echoes.
WelEchoes == {"echo"} \X (0 .. WelMessages)

ASSUME WelAssumption == /\ WelMessages \in Nat
                        /\ WelNone \notin WelUsers \cup WelEvents \cup WelEchoes

VARIABLES
    welSeq,      \* globalS
    welEcho,     \* welEcho[u]: msgIdToEchoMap
    welPc,       \* welPc[d]: what delivery d is about
    welUser,     \* welUser[d]: the user who subscribed
    welKey,      \* welKey[d]: the key delivery d waits under
    welWait,     \* welWait[k]: the delivery whose channel stands under echo k
    welText,     \* the users a text callback of whom is waiting
    welOwed,     \* the users whose welcome the application has not replied to
    welPending,  \* pendingMessages: the users with a reply stored
    welReports,  \* history: welReports[u]: how often u was reported by deliveries not
                 \* in welMet
    welMet,      \* history: deliveries that came while another of the user had found
                 \* no echo and not kept one yet
    welTimely    \* history: deliveries that were waiting when the reply came

welLocal == <<welPc, welUser, welKey>>
welHistory == <<welReports, welMet, welTimely>>
welVars == <<welSeq, welEcho, welLocal, welWait, welText, welOwed, welPending,
             welHistory>>

WelInit == /\ welSeq = 0
           /\ welEcho = [u \in WelUsers |-> WelNone]
           /\ welPc = [d \in WelEvents |-> "none"]
           /\ welUser \in [WelEvents -> WelUsers]
           /\ welKey = [d \in WelEvents |-> WelNone]
           /\ welWait = [k \in WelEchoes |-> WelNone]
           /\ welText = {} /\ welOwed = {} /\ welPending = {}
           /\ welReports = [u \in WelUsers |-> 0]
           /\ welMet = {} /\ welTimely = {}

WelGoto(d, pc) == welPc' = [welPc EXCEPT ![d] = pc]

-----------------------------------------------------------------------------
(* defaultEventHandler.                                                     *)

\* Variant: who was reported is not looked up.
WelCheckNot(d) ==
    /\ welPc[d] = "none"
    /\ WelGoto(d, "report")
    /\ UNCHANGED <<welSeq, welEcho, welUser, welKey, welWait, welText, welOwed,
                   welPending, welHistory>>

\* d has found no echo of u and keeps one yet.
WelReporting(d, u) == welUser[d] = u /\ welPc[d] \in {"report", "keep"}

\* A delivery comes and finds, or does not find, an echo of the user.
WelCheck(d) ==
    LET u == welUser[d] IN
    /\ welPc[d] = "none"
    /\ WelGoto(d, IF welEcho[u] = WelNone THEN "report" ELSE "enter")
    /\ welKey' = [welKey EXCEPT ![d] = welEcho[u]]
    /\ welMet' = IF \E o \in WelEvents : WelReporting(o, u) THEN welMet \cup {d} ELSE welMet
    /\ UNCHANGED <<welSeq, welEcho, welUser, welWait, welText, welOwed, welPending,
                   welReports, welTimely>>

\* ProcessGroupMessage or ProcessC2CMessage: the report is broadcast, the
\* echo returned.  An event does not count as a message.
WelReport(d) ==
    /\ welPc[d] = "report"
    /\ WelGoto(d, "keep")
    /\ welKey' = [welKey EXCEPT ![d] = <<"echo", welSeq>>]
    /\ welOwed' = welOwed \cup {welUser[d]}
    /\ welReports' = IF d \in welMet THEN welReports
                                     ELSE [welReports EXCEPT ![welUser[d]] = @ + 1]
    /\ UNCHANGED <<welSeq, welEcho, welUser, welWait, welText, welPending, welMet,
                   welTimely>>

\* The echo is kept for the user, in a critical section of its own.
WelKeep(d) ==
    /\ welPc[d] = "keep"
    /\ WelGoto(d, "enter")
    /\ welEcho' = [welEcho EXCEPT ![welUser[d]] = welKey[d]]
    /\ UNCHANGED <<welSeq, welUser, welKey, welWait, welText, welOwed, welPending,
                   welHistory>>

\* WaitForActionMessage: the channel is entered under the echo ...
WelEnter(d) ==
    /\ welPc[d] = "enter"
    /\ WelGoto(d, "wait")
    /\ welWait' = [welWait EXCEPT ![welKey[d]] = d]
    /\ UNCHANGED <<welSeq, welEcho, welUser, welKey, welText, welOwed, welPending,
                   welHistory>>

\* ... and at the timeout removed, whoever's it is; then there is the default
\* reply (DefaultQuota).
WelTimeout(d) ==
    /\ welPc[d] = "wait"
    /\ WelGoto(d, "default")
    /\ welWait' = [welWait EXCEPT ![welKey[d]] = WelNone]
    /\ UNCHANGED <<welSeq, welEcho, welUser, welKey, welText, welOwed, welPending,
                   welHistory>>

-----------------------------------------------------------------------------
(* The rest of the program around it.                                       *)

\* recvMessage: the reply goes to a text callback of the user that waits, and
\* is stored otherwise.  No echo is a user's id.
WelReply(u) ==
    /\ u \in welOwed
    /\ welOwed' = welOwed \ {u}
    /\ IF u \in welText THEN welText' = welText \ {u} /\ UNCHANGED welPending
                        ELSE welPending' = welPending \cup {u} /\ UNCHANGED welText
    /\ welTimely' = welTimely \cup {d \in WelEvents : welUser[d] = u /\ welPc[d] = "wait"}
    /\ UNCHANGED <<welSeq, welEcho, welLocal, welWait, welReports, welMet>>

\* A text of the user: counted, its callback waits; it ends with a reply or at
\* its timeout and shows what is stored.
WelTextWaits(u) ==
    /\ u \notin welText /\ welSeq < WelMessages
    /\ welSeq' = welSeq + 1
    /\ welText' = welText \cup {u}
    /\ UNCHANGED <<welEcho, welLocal, welWait, welOwed, welPending, welHistory>>

WelTextEnds(u) ==
    /\ u \in welText \/ u \in welPending
    /\ welText' = welText \ {u}
    /\ welPending' = welPending \ {u}
    /\ UNCHANGED <<welSeq, welEcho, welLocal, welWait, welOwed, welHistory>>

WelNext == \/ \E d \in WelEvents : WelCheck(d) \/ WelReport(d) \/ WelKeep(d)
                                   \/ WelEnter(d) \/ WelTimeout(d)
           \/ \E u \in WelUsers : WelReply(u) \/ WelTextWaits(u) \/ WelTextEnds(u)

WelSpec == WelInit /\ [][WelNext]_welVars

-----------------------------------------------------------------------------
(* Properties.                                                              *)

WelTypeOK ==
    /\ welSeq \in 0 .. WelMessages
    /\ welEcho \in [WelUsers -> WelEchoes \cup {WelNone}]
    /\ welPc \in [WelEvents -> {"none", "report", "keep", "enter", "wait", "default"}]
    /\ welUser \in [WelEvents -> WelUsers]
    /\ welKey \in [WelEvents -> WelEchoes \cup {WelNone}]
    /\ welWait \in [WelEchoes -> WelEvents \cup {WelNone}]
    /\ welText \subseteq WelUsers /\ welOwed \subseteq WelUsers
    /\ welPending \subseteq WelUsers
    /\ welReports \in [WelUsers -> Nat]
    /\ welMet \subseteq WelEvents /\ welTimely \subseteq WelEvents

\* However often WeChat delivers the event and however long the application
\* takes, only a delivery that came while another was between finding no echo
\* and keeping one reports a user again: all the others report the user once.
WelcomedOnce == \A u \in WelUsers : welReports[u] <= 1

\* config_template.go:20: the service's reply to the welcome text is answered
\* to the user: an event does not time out when the reply came in time.
\* (Violated.)
WelcomeAnswered ==
    \A d \in WelEvents : welPc[d] = "default" => d \notin welTimely
=============================================================================
