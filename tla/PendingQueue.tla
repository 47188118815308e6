----------------------------- MODULE PendingQueue -----------------------------
(****************************************************************************)
(* One user's entry of pendingMessages under a sequence of operations:      *)
(* recvMessage and AddMessageToPending append a reply (Store), and a text   *)
(* answer takes history out and is sent (Fetch).  All three run under       *)
(* pendingMutex, so each is one step.  Replies are numbered in the order    *)
(* in which they are stored.                                                *)
(****************************************************************************)
EXTENDS PendingHistory

CONSTANTS MaxMsgs,     \* bound: how many replies are ever stored
          BodySizes    \* byte lengths the current answer may have

ASSUME QueueAssumption ==
    /\ MaxMsgs \in Nat
    /\ Replies = 1 .. MaxMsgs
    /\ BodySizes \subseteq Nat

VARIABLES stored,   \* how many replies have been stored
          queue,    \* pendingMessages[userid]
          history,  \* the history of the last answer, from the top
          body      \* the length of the last answer's own text

pqVars == <<stored, queue, history, body>>

PqInit == /\ stored = 0
          /\ queue = <<>>
          /\ history = <<>>
          /\ body = 0

\* Variant: the new reply goes to the front.
StoreInFront == /\ stored < MaxMsgs
                /\ stored' = stored + 1
                /\ queue' = <<stored + 1>> \o queue
                /\ UNCHANGED <<history, body>>

\* pendingMessages[k] = append(pendingMessages[k], message)
Store == /\ stored < MaxMsgs
         /\ stored' = stored + 1
         /\ queue' = Append(queue, stored + 1)
         /\ UNCHANGED <<history, body>>

\* A text answer of length cur takes what fits and puts it in front.
Fetch(cur) == /\ history' = Shown(queue, cur)
              /\ body' = cur
              /\ queue' = IF queue = <<>> THEN queue ELSE Left(queue, cur)
              /\ UNCHANGED stored

PqNext == Store \/ \E cur \in BodySizes : Fetch(cur)

PqSpec == PqInit /\ [][PqNext]_pqVars

-----------------------------------------------------------------------------

PqTypeOK == /\ stored \in 0 .. MaxMsgs
            /\ queue \in Seq(Replies)
            /\ Len(queue) <= stored
            /\ history \in Seq(Replies)
            /\ body \in BodySizes \cup {0}

\* Replies wait in the order in which they came, whatever was cut out of the
\* middle of the slice (the last one may stand there twice).
InOrder == \A i, j \in DOMAIN queue : i < j => queue[i] <= queue[j]

\* No answer shows a reply older than one an earlier answer already showed,
\* and no reply that is still queued is older than the history last shown.
NothingOvertaken ==
    \A i \in DOMAIN history, j \in DOMAIN queue : history[i] <= queue[j]

\* Inside one answer the last reply taken stands on top.
NewestOnTop == \A i, j \in DOMAIN history : i < j => history[j] <= history[i]

\* Replies wait in the order in which they came, and come out in that order from
\* one answer to the next; an answer that carries several turns those around
\* (main.go:632).
QueueOrder == InOrder /\ NothingOvertaken /\ NewestOnTop

\* A fetch loses at most one reply, the first that did not fit; every other
\* queued reply is in the answer or still queued.
LosesOnlyTheOverlong ==
    [][\A i \in DOMAIN queue :
          \/ stored' # stored
          \/ \E j \in DOMAIN history' : history'[j] = queue[i]
          \/ \E j \in DOMAIN queue' : queue'[j] = queue[i]
          \/ /\ \A j \in 1 .. i - 1 : \E h \in DOMAIN history' : history'[h] = queue[j]
             /\ Used(queue, body')[i] > Limit]_pqVars

\* ws.go:284 says the messages are fetched and deleted: no reply is shown by
\* one answer and queued for another, nor queued twice.  (Violated.)
FetchedOnce ==
    /\ \A i, j \in DOMAIN queue : i # j => queue[i] # queue[j]
    /\ \A i \in DOMAIN history, j \in DOMAIN queue : history[i] # queue[j]

=============================================================================
