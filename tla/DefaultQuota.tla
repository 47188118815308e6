----------------------------- MODULE DefaultQuota -----------------------------
(* DefaultReplyIfNeeded: how many default replies a user gets a day.  Each  *)
(* callback that timed out runs it on a goroutine of its own; the count of  *)
(* the day is read from a sync.Map and written back in a second call.       *)
(* One user; users have counts of their own.                                *)
EXTENDS Naturals

CONSTANTS
    QuoCalls,  \* callbacks of the user that time out
    QuoLimit,  \* config default_daily_reply_limit
    QuoDays    \* bound: days

ASSUME QuoAssumption == QuoLimit \in Nat /\ QuoDays \in Nat \ {0}

VARIABLES
    quoDay,    \* today
    quoCount,  \* quoCount[d]: UserReplyCountMap for day d, 0 when there is none
    quoPc,     \* quoPc[c]: not begun, the count is read, or done
    quoKey,    \* quoKey[c]: the day call c began
    quoRead,   \* quoRead[c]: the count it read
    quoSpent,  \* history: quoSpent[d]: default replies counted for day d
    quoEmpty,  \* history: the days on which a call was refused
    quoMet,    \* history: the calls that were between reading and storing the count
               \* of a day while another was
    quoAlone   \* history: quoAlone[d]: default replies of day d by calls not in quoMet

quoLocal == <<quoPc, quoKey, quoRead>>
quoHistory == <<quoSpent, quoEmpty, quoMet, quoAlone>>
quoVars == <<quoDay, quoCount, quoLocal, quoHistory>>

QuoInit == /\ quoDay = 1
           /\ quoCount = [d \in 1 .. QuoDays |-> 0]
           /\ quoPc = [c \in QuoCalls |-> "start"]
           /\ quoKey = [c \in QuoCalls |-> 1]
           /\ quoRead = [c \in QuoCalls |-> 0]
           /\ quoSpent = [d \in 1 .. QuoDays |-> 0]
           /\ quoEmpty = {}
           /\ quoMet = {}
           /\ quoAlone = [d \in 1 .. QuoDays |-> 0]

QuoMidnight ==
    /\ quoDay < QuoDays
    /\ quoDay' = quoDay + 1
    /\ UNCHANGED <<quoCount, quoLocal, quoHistory>>

\* The calls that have read the count of day d and not stored it yet.
QuoReaders(d) == {o \in QuoCalls : quoPc[o] = "read" /\ quoKey[o] = d}

\* The day is taken and the count of the day is loaded.
QuoLoad(c) ==
    /\ quoPc[c] = "start"
    /\ quoPc' = [quoPc EXCEPT ![c] = "read"]
    /\ quoKey' = [quoKey EXCEPT ![c] = quoDay]
    /\ quoRead' = [quoRead EXCEPT ![c] = quoCount[quoDay]]
    /\ quoMet' = IF QuoReaders(quoDay) = {} THEN quoMet
                                            ELSE quoMet \cup QuoReaders(quoDay) \cup {c}
    /\ UNCHANGED <<quoDay, quoCount, quoSpent, quoEmpty, quoAlone>>

\* At the limit there is no reply.
QuoRefuse(c) ==
    /\ quoPc[c] = "read" /\ quoRead[c] >= QuoLimit
    /\ quoPc' = [quoPc EXCEPT ![c] = "done"]
    /\ quoEmpty' = quoEmpty \cup {quoKey[c]}
    /\ UNCHANGED <<quoDay, quoCount, quoKey, quoRead, quoSpent, quoMet, quoAlone>>

\* One more default reply counted by c for the day it began.
QuoSpend(c) ==
    /\ quoSpent' = [quoSpent EXCEPT ![quoKey[c]] = @ + 1]
    /\ quoAlone' = IF c \in quoMet THEN quoAlone
                                   ELSE [quoAlone EXCEPT ![quoKey[c]] = @ + 1]

\* Variant: the count is written for the day it has become meanwhile.
QuoStoreToday(c) ==
    /\ quoPc[c] = "read" /\ quoRead[c] < QuoLimit
    /\ quoPc' = [quoPc EXCEPT ![c] = "done"]
    /\ quoCount' = [quoCount EXCEPT ![quoDay] = quoRead[c] + 1]
    /\ QuoSpend(c)
    /\ UNCHANGED <<quoDay, quoKey, quoRead, quoEmpty, quoMet>>

\* The count is stored before the reply is chosen: without any content, or
\* when the empty one is drawn, it is spent all the same.
QuoStore(c) ==
    /\ quoPc[c] = "read" /\ quoRead[c] < QuoLimit
    /\ quoPc' = [quoPc EXCEPT ![c] = "done"]
    /\ quoCount' = [quoCount EXCEPT ![quoKey[c]] = quoRead[c] + 1]
    /\ QuoSpend(c)
    /\ UNCHANGED <<quoDay, quoKey, quoRead, quoEmpty, quoMet>>

QuoNext == QuoMidnight \/ \E c \in QuoCalls : QuoLoad(c) \/ QuoRefuse(c) \/ QuoStore(c)

QuoSpec == QuoInit /\ [][QuoNext]_quoVars

-----------------------------------------------------------------------------
(* Properties.                                                              *)

QuoTypeOK ==
    /\ quoDay \in 1 .. QuoDays
    /\ quoCount \in [1 .. QuoDays -> Nat]
    /\ quoPc \in [QuoCalls -> {"start", "read", "done"}]
    /\ quoKey \in [QuoCalls -> 1 .. QuoDays]
    /\ quoRead \in [QuoCalls -> Nat]
    /\ quoSpent \in [1 .. QuoDays -> Nat]
    /\ quoEmpty \subseteq 1 .. QuoDays /\ quoMet \subseteq QuoCalls
    /\ quoAlone \in [1 .. QuoDays -> Nat]

\* Only a call that meets another between reading and storing the count can
\* exceed the quota of a day: however late an old count is stored, the calls
\* that meet none stay within it together.  And it is never cut short: a user
\* is refused only after the whole quota has been counted, across midnight too.
QuotaKept ==
    \A d \in 1 .. QuoDays :
        /\ quoAlone[d] <= QuoLimit
        /\ d \in quoEmpty => quoSpent[d] >= QuoLimit
=============================================================================
