---------------------------- MODULE ReplyExchange ----------------------------
(****************************************************************************)
(* The rendezvous between WeChat callbacks and the application's replies.   *)
(*                                                                          *)
(* Every WeChat text message runs textMsgHandler in a goroutine of its own  *)
(* (a callback).  The handler reports the message to the OneBot             *)
(* application, registers a channel of capacity one under the sender's      *)
(* OpenID and waits for a reply or its timer.  Every frame from the         *)
(* application runs recvMessage in a goroutine of its own: under mapMutex   *)
(* it resolves the reply's user_id and either sends it into the registered  *)
(* channel or appends it to pendingMessages.  WeChat sends a message again  *)
(* when the answer takes five seconds: the retry is a further callback of   *)
(* the same user, as is the user's next message.                            *)
(****************************************************************************)
EXTENDS PendingHistory

CONSTANTS
    Users,        \* OpenIDs of followers (FromUserName)
    Account,      \* OpenID of the official account (ToUserName)
    Callbacks,    \* textMsgHandler invocations
    From,         \* From[c]: the FromUserName of callback c
    Shape,        \* Shape[r] \in Shapes: what ProcessMessage makes of r
    AnswerSize,   \* AnswerSize[r]: byte length of r's text as the answer itself
    DefaultSize,  \* DefaultSize[c]: byte length of the default text c would draw
    StringOb11,   \* config string_ob11: ids are reported as strings
    GroupMode,    \* config global_group_or_private
    None

Shapes == {"text", "media", "mixed"}   \* text, one image or voice, image with text

ASSUME ExchangeAssumption ==
    /\ None \notin Callbacks \cup Replies \cup Users
    /\ Callbacks \cap {"unsent", "open", "aside"} = {}
    /\ Account \notin Users
    /\ From \in [Callbacks -> Users]
    /\ Shape \in [Replies -> Shapes]
    /\ AnswerSize \in [Replies -> Nat]
    /\ DefaultSize \in [Callbacks -> Nat]
    /\ StringOb11 \in BOOLEAN
    /\ GroupMode \in BOOLEAN

-----------------------------------------------------------------------------
(* Identifiers.  idmap gives every OpenID a row number; "row" ids are those *)
(* numbers as strings, "origin" ids are the OpenIDs themselves.  No user has *)
(* a list of identities (MultiId is about those): GetActiveID and           *)
(* GetOriginIDFromActiveID leave every id as it is.                         *)

OpenIDs == Users \cup {Account}
Origin(u) == [form |-> "origin", of |-> u]
Row(u)    == [form |-> "row", of |-> u]
Stray     == [form |-> "unknown", of |-> Account]   \* an id nobody was given
Keys      == [form : {"origin", "row"}, of : OpenIDs] \cup {Stray}

\* The user_id under which ProcessGroupMessage / ProcessC2CMessage report a
\* message of u to the application.
ReportedAs(u) == IF ~GroupMode THEN Row(Account)
                 ELSE IF StringOb11 THEN Origin(u) ELSE Row(u)

\* echoKey of recvMessage for a frame with user_id a: in string mode the id
\* itself, else the id that idmap.RetrieveRowByIDv2 has for the row.  For a row
\* it does not know the error is ignored and the key is "", which no handler
\* waits under: Stray stands for it.
EchoKey(a) == IF StringOb11 \/ a = Stray THEN a ELSE Origin(a.of)

-----------------------------------------------------------------------------

VARIABLES
    pc,       \* pc[c]: where callback c is
    chan,     \* chan[c]: the content of c's channel, capacity 1
    got,      \* got[c]: the reply c answers with; None: default text or nothing
    answer,   \* answer[c]: what the HTTP response carried
    waiter,   \* echoToChanMap: whose channel is registered under a key
    mutex,    \* mapMutex: the recvMessage goroutine that holds it, or None
    frame,    \* frame[r]: where reply r's frame is
    addr,     \* addr[r]: the user_id the application put into r
    pending   \* pendingMessages

handlerVars == <<pc, chan, got, answer>>
tableVars   == <<waiter, mutex>>
replyVars   == <<frame, addr>>
vars == <<pc, chan, got, answer, waiter, mutex, frame, addr, pending>>

Unanswered == [kind |-> "none", history |-> <<>>]

Respond(c, k, h) == answer' = [answer EXCEPT ![c] = [kind |-> k, history |-> h]]

Init == /\ pc = [c \in Callbacks |-> "idle"]
        /\ chan = [c \in Callbacks |-> <<>>]
        /\ got = [c \in Callbacks |-> None]
        /\ answer = [c \in Callbacks |-> Unanswered]
        /\ waiter = [k \in Keys |-> None]
        /\ mutex = None
        /\ frame = [r \in Replies |-> "unsent"]
        /\ addr = [r \in Replies |-> Origin(Account)]
        /\ pending = [k \in Keys |-> <<>>]

-----------------------------------------------------------------------------
(* WeChat and the application.                                              *)

\* A text message arrives; the handler reports it to the application.
Report(c) == /\ pc[c] = "idle"
             /\ pc' = [pc EXCEPT ![c] = "reported"]
             /\ UNCHANGED <<chan, got, answer, tableVars, replyVars, pending>>

\* The application sends a frame to a user it has heard of, or to a stray id.
HeardOf == {From[c] : c \in {d \in Callbacks : pc[d] # "idle"}}
AppSend(r) ==
    /\ frame[r] = "unsent"
    /\ frame' = [frame EXCEPT ![r] = "received"]
    /\ \E a \in {ReportedAs(u) : u \in HeardOf} \cup {Stray} :
          addr' = [addr EXCEPT ![r] = a]
    /\ UNCHANGED <<handlerVars, tableVars, pending>>

-----------------------------------------------------------------------------
(* recvMessage.  Its section under mapMutex is split at the lock, because   *)
(* it sends on a channel, an operation that may block, while holding it.    *)

RecvLock(r) == /\ frame[r] = "received" /\ mutex = None
               /\ mutex' = r
               /\ UNCHANGED <<handlerVars, waiter, replyVars, pending>>

\* Variant: the entry stays in echoToChanMap.
RecvHandKeepsEntry(r) ==
    LET c == waiter[EchoKey(addr[r])] IN
    /\ mutex = r
    /\ c # None
    /\ chan[c] = <<>>
    /\ chan' = [chan EXCEPT ![c] = <<r>>]
    /\ mutex' = None
    /\ frame' = [frame EXCEPT ![r] = "filed"]
    /\ UNCHANGED <<pc, got, answer, waiter, addr, pending>>

\* Variant: the reply goes to any registered channel, as with generalChan.
RecvHandAnybody(r) ==
    \E k \in Keys :
        LET c == waiter[k] IN
        /\ mutex = r
        /\ c # None
        /\ chan[c] = <<>>
        /\ chan' = [chan EXCEPT ![c] = <<r>>]
        /\ waiter' = [waiter EXCEPT ![k] = None]
        /\ mutex' = None
        /\ frame' = [frame EXCEPT ![r] = "filed"]
        /\ UNCHANGED <<pc, got, answer, addr, pending>>

\* ch <- message; delete(echoToChanMap, echoKey).
RecvHand(r) ==
    LET k == EchoKey(addr[r]) c == waiter[k] IN
    /\ mutex = r
    /\ c # None
    /\ chan[c] = <<>>                      \* the send blocks on a full channel
    /\ chan' = [chan EXCEPT ![c] = <<r>>]
    /\ waiter' = [waiter EXCEPT ![k] = None]
    /\ mutex' = None
    /\ frame' = [frame EXCEPT ![r] = "filed"]
    /\ UNCHANGED <<pc, got, answer, addr, pending>>

\* Variant: mapMutex is not unlocked on this path.
RecvStoreKeepsLock(r) ==
    LET k == EchoKey(addr[r]) IN
    /\ mutex = r /\ frame[r] = "received"
    /\ waiter[k] = None
    /\ pending' = [pending EXCEPT ![k] = Append(@, r)]
    /\ frame' = [frame EXCEPT ![r] = "filed"]
    /\ UNCHANGED <<handlerVars, waiter, mutex, addr>>

\* No channel is registered: keep the message for later.
RecvStore(r) ==
    LET k == EchoKey(addr[r]) IN
    /\ mutex = r
    /\ waiter[k] = None
    /\ pending' = [pending EXCEPT ![k] = Append(@, r)]
    /\ mutex' = None
    /\ frame' = [frame EXCEPT ![r] = "filed"]
    /\ UNCHANGED <<handlerVars, waiter, addr>>

-----------------------------------------------------------------------------
(* WaitForActionMessage and the rest of textMsgHandler.                     *)

\* The registration replaces whatever channel the user had there.
Register(c) ==
    /\ pc[c] = "reported" /\ mutex = None
    /\ waiter' = [waiter EXCEPT ![Origin(From[c])] = c]
    /\ pc' = [pc EXCEPT ![c] = "waiting"]
    /\ UNCHANGED <<chan, got, answer, mutex, replyVars, pending>>

\* select: the channel is ready.
Receive(c) == /\ pc[c] = "waiting" /\ chan[c] # <<>>
              /\ got' = [got EXCEPT ![c] = Head(chan[c])]
              /\ chan' = [chan EXCEPT ![c] = <<>>]
              /\ pc' = [pc EXCEPT ![c] = "processing"]
              /\ UNCHANGED <<answer, tableVars, replyVars, pending>>

\* Variant: the timer only runs while the channel is registered.
TimerWhileRegistered(c) ==
    /\ pc[c] = "waiting" /\ waiter[Origin(From[c])] = c
    /\ pc' = [pc EXCEPT ![c] = "expired"]
    /\ UNCHANGED <<chan, got, answer, tableVars, replyVars, pending>>

\* select: the timer is ready.  It may win although the channel is ready too.
TimerFires(c) == /\ pc[c] = "waiting"
                 /\ pc' = [pc EXCEPT ![c] = "expired"]
                 /\ UNCHANGED <<chan, got, answer, tableVars, replyVars, pending>>

\* Variant: the timeout leaves the entry behind.
ExpireKeepsEntry(c) ==
    /\ pc[c] = "expired" /\ mutex = None
    /\ \/ /\ pc' = [pc EXCEPT ![c] = "texting"]
          /\ UNCHANGED answer
       \/ /\ pc' = [pc EXCEPT ![c] = "done"]
          /\ Respond(c, "silent", <<>>)
    /\ UNCHANGED <<chan, got, tableVars, replyVars, pending>>

\* delete(echoToChanMap, userid): whichever channel is there by now.
\* DefaultReplyIfNeeded then yields a default text, or "" and no answer.
Expire(c) ==
    /\ pc[c] = "expired" /\ mutex = None
    /\ waiter' = [waiter EXCEPT ![Origin(From[c])] = None]
    /\ \/ /\ pc' = [pc EXCEPT ![c] = "texting"]
          /\ UNCHANGED answer
       \/ /\ pc' = [pc EXCEPT ![c] = "done"]
          /\ Respond(c, "silent", <<>>)
    /\ UNCHANGED <<chan, got, mutex, replyVars, pending>>

\* ProcessMessage fails to upload the image or voice: an error text answers.
UploadFails(c) ==
    /\ pc[c] = "processing" /\ Shape[got[c]] # "text"
    /\ Respond(c, "error", <<>>)
    /\ pc' = [pc EXCEPT ![c] = "done"]
    /\ UNCHANGED <<chan, got, tableVars, replyVars, pending>>

\* Variant: the text part is filed under the row number of the user.
AnswerMediaUnderRow(c) ==
    /\ pc[c] = "processing" /\ Shape[got[c]] # "text"
    /\ pending' = IF Shape[got[c]] = "mixed"
                  THEN [pending EXCEPT ![Row(addr[got[c]].of)] = Append(@, got[c])]
                  ELSE pending
    /\ Respond(c, "media", <<>>)
    /\ pc' = [pc EXCEPT ![c] = "done"]
    /\ UNCHANGED <<chan, got, tableVars, replyVars>>

\* ProcessMessage uploaded it: a media answer.  The text beside an image is
\* put into pendingMessages under the user_id that the message now carries:
\* string mode has replaced it by the origin id, numeric mode has not.
AnswerMedia(c) ==
    /\ pc[c] = "processing" /\ Shape[got[c]] # "text"
    /\ pending' = IF Shape[got[c]] = "mixed"
                  THEN [pending EXCEPT ![addr[got[c]]] = Append(@, got[c])]
                  ELSE pending
    /\ Respond(c, "media", <<>>)
    /\ pc' = [pc EXCEPT ![c] = "done"]
    /\ UNCHANGED <<chan, got, tableVars, replyVars>>

\* The length of the answer's own text, the default one's included.
BodySize(c) == IF got[c] = None THEN DefaultSize[c] ELSE AnswerSize[got[c]]

\* Variant: clear = false, the history shown stays stored.
AnswerTextKeepsHistory(c) ==
    /\ \/ pc[c] = "texting"
       \/ pc[c] = "processing" /\ Shape[got[c]] = "text"
    /\ Respond(c, IF got[c] = None THEN "default" ELSE "text",
               Shown(pending[Origin(From[c])], BodySize(c)))
    /\ pc' = [pc EXCEPT ![c] = "done"]
    /\ UNCHANGED <<chan, got, tableVars, replyVars, pending>>

\* Variant: the history is taken from whoever has some.
AnswerTextAnybodys(c) ==
    \E k \in Keys :
        /\ \/ pc[c] = "texting"
           \/ pc[c] = "processing" /\ Shape[got[c]] = "text"
        /\ Respond(c, IF got[c] = None THEN "default" ELSE "text",
                   Shown(pending[k], BodySize(c)))
        /\ pending' = [pending EXCEPT ![k] = IF @ = <<>> THEN @
                                             ELSE Left(@, BodySize(c))]
        /\ pc' = [pc EXCEPT ![c] = "done"]
        /\ UNCHANGED <<chan, got, tableVars, replyVars>>

\* A text answer, the reply's or the default one, with stored replies of the
\* user in front.
AnswerText(c) ==
    LET k == Origin(From[c]) IN
    /\ \/ pc[c] = "texting"
       \/ pc[c] = "processing" /\ Shape[got[c]] = "text"
    /\ Respond(c, IF got[c] = None THEN "default" ELSE "text",
               Shown(pending[k], BodySize(c)))
    /\ pending' = [pending EXCEPT ![k] = IF @ = <<>> THEN @
                                         ELSE Left(@, BodySize(c))]
    /\ pc' = [pc EXCEPT ![c] = "done"]
    /\ UNCHANGED <<chan, got, tableVars, replyVars>>

-----------------------------------------------------------------------------

Handler(c) == \/ Register(c) \/ Receive(c) \/ TimerFires(c) \/ Expire(c)
              \/ UploadFails(c) \/ AnswerMedia(c) \/ AnswerText(c)
Recv(r) == RecvLock(r) \/ RecvHand(r) \/ RecvStore(r)

Next == \/ \E c \in Callbacks : Report(c) \/ Handler(c)
        \/ \E r \in Replies : AppSend(r) \/ Recv(r)

Spec == Init /\ [][Next]_vars

\* The goroutines of the program run on; WeChat and the application need not.
Fairness == /\ \A c \in Callbacks : WF_vars(Handler(c))
            /\ \A r \in Replies : WF_vars(Recv(r))
FairSpec == Spec /\ Fairness

-----------------------------------------------------------------------------

Steps == {"idle", "reported", "waiting", "expired", "processing", "texting", "done"}
Kinds == {"none", "text", "media", "default", "error", "silent"}

TypeOK == /\ pc \in [Callbacks -> Steps]
          /\ chan \in [Callbacks -> Seq(Replies)]
          /\ got \in [Callbacks -> Replies \cup {None}]
          /\ answer \in [Callbacks -> [kind : Kinds, history : Seq(Replies)]]
          /\ waiter \in [Keys -> Callbacks \cup {None}]
          /\ mutex \in Replies \cup {None}
          /\ frame \in [Replies -> {"unsent", "received", "filed"}]
          /\ addr \in [Replies -> Keys]
          /\ pending \in [Keys -> Seq(Replies)]

\* recvMessage never blocks in ch <- message while it holds mapMutex: every
\* registered channel is empty and belongs to a callback of that very user
\* which has not left WaitForActionMessage.
SenderNeverBlocks ==
    \A k \in Keys : waiter[k] # None =>
        /\ chan[waiter[k]] = <<>>
        /\ pc[waiter[k]] \in {"waiting", "expired"}
        /\ Origin(From[waiter[k]]) = k

Holds(c, r) == got[c] = r \/ chan[c] = <<r>>

\* However registrations overwrite and delete each other, a reply is handed to
\* at most one callback, and only to one of the user it is addressed to.
HandedToOwnUser ==
    /\ \A c \in Callbacks, r \in Replies :
          Holds(c, r) => EchoKey(addr[r]) = Origin(From[c])
    /\ \A c, d \in Callbacks, r \in Replies : Holds(c, r) /\ Holds(d, r) => c = d

\* The inductive strengthening of these two: what the place of a callback says
\* about its channel and its reply, that only filed replies are held, and that
\* mapMutex is held for a reply that is not filed yet.
CallbackState ==
    \A c \in Callbacks :
        /\ chan[c] = <<>> \/ \E r \in Replies : chan[c] = <<r>>
        /\ pc[c] \in {"idle", "reported"} => chan[c] = <<>>
        /\ pc[c] \in {"idle", "reported", "waiting", "expired", "texting"} => got[c] = None
        /\ pc[c] = "processing" => got[c] \in Replies
        /\ got[c] # None => chan[c] = <<>>
OnlyFiledIsHeld ==
    /\ \A c \in Callbacks, r \in Replies : Holds(c, r) => frame[r] = "filed"
    /\ mutex # None => frame[mutex] = "received"
IInv == TypeOK /\ CallbackState /\ OnlyFiledIsHeld /\ SenderNeverBlocks /\ HandedToOwnUser

\* The history in front of an answer is the history of that user alone.
HistoryIsOwn ==
    \A c \in Callbacks : \A i \in DOMAIN answer[c].history :
        EchoKey(addr[answer[c].history[i]]) = Origin(From[c])

\* What a user gets, as the answer or before it, was addressed to that user.
RepliesAreOwn == HandedToOwnUser /\ HistoryIsOwn

\* Where reply r is: with callbacks, stored, and in history already answered.
Places(r) ==
    {<<"held", c, 0>> : c \in {d \in Callbacks : Holds(d, r)}}
    \cup {<<"stored", p[1], p[2]>> : p \in {q \in UNION {{k} \X DOMAIN pending[k] : k \in Keys} :
                                               pending[q[1]][q[2]] = r}}
    \cup {<<"shown", p[1], p[2]>> : p \in {q \in UNION {{c} \X DOMAIN answer[c].history :
                                                        c \in Callbacks} :
                                              answer[q[1]].history[q[2]] = r}}

\* An image with text was sent: its text is stored, or was, besides.
Doubled(r) == /\ Shape[r] = "mixed"
              /\ \E c \in Callbacks : got[c] = r /\ answer[c].kind = "media"

\* As long as no history overflows the budget, a reply is neither lost nor
\* duplicated: from the end of recvMessage on it is in exactly one place, and
\* an image that was sent leaves its text part in exactly one more.
ExactlyOnePlace ==
    \A r \in Replies :
        Cardinality(Places(r)) = CASE frame[r] # "filed" -> 0
                                   [] frame[r] = "filed" /\ Doubled(r) -> 2
                                   [] OTHER -> 1

\* r is the reply at which the history of a callback that answers overflows.
Overlong(c, r) ==
    LET queue == pending[Origin(From[c])]
        ii == TakenCount(queue, BodySize(c))
    IN  /\ AnswerText(c)
        /\ ii < Len(queue) /\ r = queue[ii + 1]

Filing(r) == frame[r] # "filed" /\ frame'[r] = "filed"

\* With histories of any size, and however callbacks and replies race: a reply
\* that was filed is with a callback, stored or shown from then on, unless an
\* answer's history overflows at that very reply (GetPendingMessages cuts it out
\* of the slice).
OverflowLosesNoOther ==
    [][\A r \in Replies :
          Places(r) # {} \/ Filing(r) =>
              Places(r)' # {} \/ \E c \in Callbacks : Overlong(c, r)]_vars

\* What is stored for somebody is stored under a key that a callback fetches
\* from: a message set aside is shown some day.  It holds in string mode with
\* group messages, the mode of the runs.  In numeric mode the text beside an
\* image is filed under a row number (main.go:937), which nobody fetches from;
\* in private mode every message is reported as the account's own
\* (ProcessC2CMessage.go:39), and so is every reply to it.
PendingIsFetchable ==
    \A k \in Keys \ {Stray} : pending[k] # <<>> => \E u \in Users : k = Origin(u)

\* ws.go:33 promises that a message after the timeout is stored: no callback
\* that went on without a reply has one left in its channel.  (Violated: the
\* reply may enter the channel between the timer and the delete.)
LateReplyIsStored ==
    \A c \in Callbacks : pc[c] \in {"texting", "done"} => chan[c] = <<>>

\* A callback that waits is answered or given up in the end, and mapMutex is
\* never kept for ever: every received frame is filed.
ExchangeSettles ==
    /\ \A c \in Callbacks : pc[c] = "reported" ~> pc[c] = "done"
    /\ \A r \in Replies : frame[r] = "received" ~> frame[r] = "filed"

-----------------------------------------------------------------------------
(* The abstract view: mapMutex, the frames on their way and the timer that  *)
(* has fired but not yet deleted its entry disappear.                       *)

Phase == [c \in Callbacks |-> CASE pc[c] \in {"idle", "reported"} -> "out"
                                [] pc[c] \in {"waiting", "expired"} -> "waiting"
                                [] OTHER -> "left"]

AddressedTo == [r \in Replies |-> IF frame[r] # "unsent" /\ EchoKey(addr[r]).form = "origin"
                                     /\ EchoKey(addr[r]).of \in Users
                                  THEN EchoKey(addr[r]).of ELSE None]

Fate == [r \in Replies |-> CASE frame[r] = "unsent" -> "unsent"
                             [] frame[r] = "received" -> "open"
                             [] OTHER -> IF \E c \in Callbacks : Holds(c, r)
                                         THEN CHOOSE c \in Callbacks : Holds(c, r)
                                         ELSE "aside"]

R == INSTANCE Rendezvous WITH phase <- Phase, took <- got, to <- AddressedTo, fate <- Fate

\* The table of channels, with its races, implements the rendezvous.
ImplementsRendezvous == R!Spec

=============================================================================
