-------------------------------- MODULE OneBot --------------------------------
(* What goes over a link in the language of OneBot: a callback becomes a    *)
(* report, whose user and group are numbers or names; the application sends *)
(* actions, whose ids and echo may have several JSON types.  A send_* is a  *)
(* reply and is filed under its user, eight queries are answered on the     *)
(* link they came by, other actions are ignored.  The links are in WsLink,  *)
(* numbers in IdMap, names in MultiId, the waiting for replies in           *)
(* ReplyExchange.                                                           *)
EXTENDS Naturals, Sequences

CONSTANTS
    ObLinks,     \* links, each with a reader
    ObCalls,     \* text callbacks
    ObUser,      \* ObUser[c]: FromUserName of c
    ObAccount,   \* ToUserName of all of them
    ObMasters,   \* users whose number is in master_id
    ObRequests,  \* actions the application sends; a reply gets its user from a report
    ObAsks,      \* bound: how many it sends
    ObNobody     \* the key of nobody: empty, or no user's name

ASSUME ObAssumption ==
    /\ ObAsks \in Nat
    /\ \A c \in ObCalls : ObUser[c] # ObAccount /\ ObUser[c] # ObNobody
    \* Nobody is neither an id nor an action.
    /\ ObNobody \notin [kind : {"number", "name"}, of : {ObUser[c] : c \in ObCalls} \cup {ObAccount}]
    /\ ObNobody \notin [q : ObRequests, to : ObCalls, at : ObLinks, nr : Nat]

ObQueries == {"get_group_list", "get_login_info", "get_guild_service_profile",
              "get_online_clients", "get_version_info", "get_friend_list",
              "get_guild_list", "get_guild_channel_list"}

VARIABLES
    obSet,    \* settings: strings (string_ob11), group (reports as group or private
              \* messages), digits (the appid has any)
    obS,      \* globalS
    obPc,     \* obPc[c]: none, counted, reported
    obReport, \* obReport[c]: the report, ObNobody before
    obIn,     \* obIn[l]: the action link l is to receive next, ObNobody for none
    obSent,   \* history: the actions received or to be received, with their link
    obOut,    \* obOut[l]: the answers written to link l
    obFiled,  \* history: replies, as the report they answer and the key they got
    obDead    \* the process has panicked

obReports == <<obS, obPc, obReport>>
obActions == <<obIn, obSent, obOut, obFiled, obDead>>
obVars == <<obSet, obReports, obActions>>

\* The handler of texts reports to groups or in private by global_group_or_private.
ObSettings == [strings : BOOLEAN, group : BOOLEAN, digits : BOOLEAN]

ObInit == /\ obSet \in ObSettings
          /\ obS = 0
          /\ obPc = [c \in ObCalls |-> "none"]
          /\ obReport = [c \in ObCalls |-> ObNobody]
          /\ obIn = [l \in ObLinks |-> ObNobody]
          /\ obSent = <<>>
          /\ obOut = [l \in ObLinks |-> <<>>]
          /\ obFiled = {}
          /\ obDead = FALSE

-----------------------------------------------------------------------------
(* Reports.                                                                 *)

\* An id is the number the id map keeps for a name, or the name in use.
ObNumber(u) == [kind |-> "number", of |-> u]
ObName(u) == [kind |-> "name", of |-> u]

\* ExtractAndTruncateDigits of the appid; without digits the number is 0.
ObSelf == IF obSet.digits THEN "appid" ELSE "0"

\* The fields of the three forms of a report that differ between reports.  The
\* echo is left out without two_way_echo.
ObReportOf(type, user, group, sender, role) ==
    [type |-> type, user |-> user, group |-> group, sender |-> sender, role |-> role,
     self |-> ObSelf, echo |-> obS]

ObRole(u) == IF u \in ObMasters THEN "owner" ELSE "member"

\* Variant: user and group are taken the wrong way round.
ObGroupReportSwapped(c) ==
    ObReportOf("group", ObNumber(ObAccount), ObNumber(ObUser[c]), ObNumber(ObUser[c]),
               ObRole(ObUser[c]))

\* ProcessGroupMessage with numbers ...
ObGroupReport(c) ==
    ObReportOf("group", ObNumber(ObUser[c]), ObNumber(ObAccount), ObNumber(ObUser[c]),
               ObRole(ObUser[c]))

\* ... and with names; the sender stays 0, which is no master.
ObNamedReport(c) ==
    ObReportOf("group", ObName(ObUser[c]), ObName(ObAccount), ObNobody, "member")

\* ProcessC2CMessage: the account is reported as the user, always by number.
ObPrivateReport ==
    ObReportOf("private", ObNumber(ObAccount), ObNobody, ObNumber(ObAccount), ObNobody)

\* ServeMsg counts the callback ...
ObCount(c) ==
    /\ ~obDead /\ obPc[c] = "none"
    /\ obPc' = [obPc EXCEPT ![c] = "counted"]
    /\ obS' = obS + 1
    /\ UNCHANGED <<obSet, obReport, obActions>>

\* ... and the report takes the count of that moment for its echo.  What
\* AddMsgIDv3 keeps under the echo is never read.
ObTell(c) ==
    /\ ~obDead /\ obPc[c] = "counted"
    /\ obPc' = [obPc EXCEPT ![c] = "reported"]
    /\ obReport' = [obReport EXCEPT ![c] =
                      IF ~obSet.group THEN ObPrivateReport
                      ELSE IF obSet.strings THEN ObNamedReport(c) ELSE ObGroupReport(c)]
    /\ UNCHANGED <<obSet, obS, obActions>>

-----------------------------------------------------------------------------
(* Actions.  A request says whether it has params or null for them, and of  *)
(* what JSON type its user, its group and its echo are; a reply also which  *)
(* report it answers, whose user id it repeats as a number or as text.      *)

\* ActionMessage.UnmarshalJSON: an echo is an integer, text, a list or an object.
ObEchoRead(q) == q.echo \in {"absent", "integer", "text", "list", "object"}

\* ParamsContent.UnmarshalJSON, not called without params: a number becomes its
\* digits, an absent id or null the empty text.
ObIdRead(form) == form \in {"absent", "number", "text"}
ObParamsRead(q) == q.params = "given" => ObIdRead(q.user) /\ ObIdRead(q.group)

\* Variant: numbers that are written with an exponent.
ObUserTextExponent(form, c) == IF form = "text" THEN obReport[c].user ELSE ObNobody

\* UserID as a text: of the id that was reported, or empty.
ObUserText(form, c) == IF form = "absent" THEN ObNobody ELSE obReport[c].user

ObReply(q) == q.action = "send_msg"

ObAsk(l, q, c) ==
    /\ ~obDead /\ obIn[l] = ObNobody /\ Len(obSent) < ObAsks
    /\ ObReply(q) => obPc[c] = "reported"
    /\ ~ObReply(q) => c = CHOOSE any \in ObCalls : TRUE
    /\ LET sent == [q |-> q, to |-> c, at |-> l, nr |-> Len(obSent) + 1]
       IN /\ obIn' = [obIn EXCEPT ![l] = sent]
          /\ obSent' = Append(obSent, sent)
    /\ UNCHANGED <<obSet, obReports, obOut, obFiled, obDead>>

\* Null for the params leaves UnmarshalJSON a nil pointer, which it follows.
ObReadPanics(q) == q.params = "null"

\* recvMessage: what cannot be read is logged.
ObReadable(q) == ~ObReadPanics(q) /\ ObEchoRead(q) /\ ObParamsRead(q)

ObDrop(l) ==
    /\ ~obDead /\ obIn[l] # ObNobody
    /\ ~ObReadable(obIn[l].q) /\ ~ObReadPanics(obIn[l].q)
    /\ obIn' = [obIn EXCEPT ![l] = ObNobody]
    /\ UNCHANGED <<obSet, obReports, obSent, obOut, obFiled, obDead>>

\* respondToAction: what it answers ...
ObAnswered(q) == /\ q.action \in ObQueries
                 /\ q.action = "get_login_info" => obSet.digits

\* Variant: the echo is the program's own.
ObAnswerOwnEcho(l) ==
    /\ ~obDead /\ obIn[l] # ObNobody
    /\ ObReadable(obIn[l].q) /\ ~ObReply(obIn[l].q)
    /\ obIn' = [obIn EXCEPT ![l] = ObNobody]
    /\ obOut' = IF ObAnswered(obIn[l].q)
                THEN [obOut EXCEPT ![l] = Append(@, [action |-> obIn[l].q.action,
                                                     echo |-> obS, self |-> ObSelf])]
                ELSE obOut
    /\ UNCHANGED <<obSet, obReports, obSent, obFiled, obDead>>

\* ... with the data of the program and the echo of the request.
ObAnswer(l) ==
    /\ ~obDead /\ obIn[l] # ObNobody
    /\ ObReadable(obIn[l].q) /\ ~ObReply(obIn[l].q)
    /\ obIn' = [obIn EXCEPT ![l] = ObNobody]
    /\ obOut' = IF ObAnswered(obIn[l].q)
                THEN [obOut EXCEPT ![l] = Append(@, [action |-> obIn[l].q.action,
                                                     echo |-> obIn[l].nr, self |-> ObSelf])]
                ELSE obOut
    /\ UNCHANGED <<obSet, obReports, obSent, obFiled, obDead>>

\* A reply without params leaves UserID nil; its assertion to a text panics in
\* the reader, as the reading of null does whatever the action.  The process ends.
ObPanic(l) ==
    /\ ~obDead /\ obIn[l] # ObNobody
    /\ \/ ObReadPanics(obIn[l].q)
       \/ ObReadable(obIn[l].q) /\ ObReply(obIn[l].q) /\ obIn[l].q.params = "absent"
    /\ obDead' = TRUE
    /\ UNCHANGED <<obSet, obReports, obIn, obSent, obOut, obFiled>>

\* The key of a reply: the name behind a number, or the name itself.
ObKey(id) ==
    IF id = ObNobody THEN ObNobody
    ELSE IF (id.kind = "name") = obSet.strings THEN id.of ELSE ObNobody

\* Any other reply is handed over or kept under its user's name.
ObFile(l) ==
    /\ ~obDead /\ obIn[l] # ObNobody
    /\ ObReadable(obIn[l].q) /\ ObReply(obIn[l].q) /\ obIn[l].q.params = "given"
    /\ obIn' = [obIn EXCEPT ![l] = ObNobody]
    /\ obFiled' = obFiled \cup
                  {[sent |-> obIn[l], key |-> ObKey(ObUserText(obIn[l].q.user, obIn[l].to))]}
    /\ UNCHANGED <<obSet, obReports, obSent, obOut, obDead>>

ObNext == \/ \E c \in ObCalls : ObCount(c) \/ ObTell(c)
          \/ \E l \in ObLinks : \/ ObDrop(l) \/ ObAnswer(l) \/ ObPanic(l) \/ ObFile(l)
                                \/ \E q \in ObRequests, c \in ObCalls : ObAsk(l, q, c)

ObSpec == ObInit /\ [][ObNext]_obVars

-----------------------------------------------------------------------------
(* Properties.                                                              *)

ObTypeOK ==
    /\ obSet \in ObSettings
    /\ obS \in Nat
    /\ obPc \in [ObCalls -> {"none", "counted", "reported"}]
    /\ obDead \in BOOLEAN

\* A reply that repeats the user id of a group report, as the number it is or as
\* text, is filed under the user whose callback was reported, in both modes; one
\* without a user is nobody's.
RepliesFindTheUser ==
    \A f \in obFiled :
        IF f.sent.q.user = "absent" THEN f.key = ObNobody
        ELSE obSet.group => f.key = ObUser[f.sent.to]

\* The numbers of the requests link l has received and is to answer.
ObDue(l) == {n \in DOMAIN obSent : /\ obSent[n].at = l /\ obIn[l] # obSent[n]
                                   /\ ObReadable(obSent[n].q) /\ ObAnswered(obSent[n].q)}

\* Every query that can be read is answered once, on its own link, in the order
\* of the queries and with its own echo; replies and other actions are not.  The
\* account's number is the one the reports give.
AnsweredAsAsked ==
    /\ \A l \in ObLinks :
          /\ {obOut[l][i].echo : i \in DOMAIN obOut[l]} = ObDue(l)
          /\ \A i, j \in DOMAIN obOut[l] : i < j => obOut[l][i].echo < obOut[l][j].echo
          /\ \A i \in DOMAIN obOut[l] :
                obOut[l][i].action = obSent[obOut[l][i].echo].q.action
    /\ \A l \in ObLinks, c \in ObCalls : \A i \in DOMAIN obOut[l] :
          (obPc[c] = "reported" /\ obOut[l][i].action = "get_login_info") =>
              obOut[l][i].self = obReport[c].self

OneBotHolds == RepliesFindTheUser /\ AnsweredAsAsked
=============================================================================
