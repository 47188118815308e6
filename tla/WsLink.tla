-------------------------------- MODULE WsLink --------------------------------
(****************************************************************************)
(* One WebSocketClient: the connection to one OneBot application, the       *)
(* goroutines that keep it, and the list of messages whose write failed.    *)
(*                                                                          *)
(* Epoch n is the n-th connection with the pair of goroutines started for   *)
(* it: handleIncomingMessages (reader[n]) and sendHeartbeat (beat[n]) under *)
(* a cancellable context.  NewWebSocketClient starts epoch 1; the reader of *)
(* epoch n may start one Reconnect (rec[n]), which makes epoch n + 1.       *)
(* Heartbeats and lifecycle events are sent like any event, but what        *)
(* becomes of them is not followed.                                         *)
(****************************************************************************)
EXTENDS Naturals, Sequences

CONSTANTS Events,     \* the reports and responses the program sends
          MaxEpochs,  \* bound: the connections made; the last one is not lost
          MaxRetry,   \* config reconnect_times
          MaxKept     \* bound: sends start only below this length of the list

ASSUME LinkAssumption == MaxEpochs \in Nat \ {0} /\ MaxRetry \in Nat /\ MaxKept \in Nat

Epochs == 1 .. MaxEpochs
Nobody == [busy |-> FALSE]

VARIABLES
    conn,       \* client.conn: the epoch whose connection is used
    up,         \* up[n]: connection n carries data (a write may still be
                \* accepted, and lost, when it does not)
    reader,     \* handleIncomingMessages of epoch n
    beat,       \* sendHeartbeat of epoch n
    snap,       \* snap[n]: what its range over sendFailures has left
    cancelled,  \* cancelled[n]: the context of epoch n is done
    cancel,     \* client.cancel: the epoch whose context it cancels
    flag,       \* client.isReconnecting
    rec,        \* the Reconnect started by the reader of epoch n
    tries,      \* its retryCount
    failures,   \* client.sendFailures
    keeping,    \* the append to sendFailures in progress: client.mutex is held
    sent,       \* sent[e]: what became of event e
    closed      \* main has called Close

taskVars == <<reader, beat, snap, cancelled, cancel>>
recVars  == <<flag, rec, tries>>
sendVars == <<failures, keeping, sent>>
vars == <<conn, up, reader, beat, snap, cancelled, cancel, flag, rec, tries,
          failures, keeping, sent, closed>>

\* NewWebSocketClient has connected and started both goroutines.
Init == /\ conn = 1
        /\ up = [n \in Epochs |-> TRUE]
        /\ reader = [n \in Epochs |-> IF n = 1 THEN "reading" ELSE "none"]
        /\ beat = [n \in Epochs |-> IF n = 1 THEN "sleeping" ELSE "none"]
        /\ snap = [n \in Epochs |-> <<>>]
        /\ cancelled = [n \in Epochs |-> FALSE]
        /\ cancel = 1
        /\ flag = FALSE
        /\ rec = [n \in Epochs |-> "none"]
        /\ tries = 0
        /\ failures = <<>>
        /\ keeping = Nobody
        /\ sent = [e \in Events |-> "new"]
        /\ closed = FALSE

-----------------------------------------------------------------------------
(* SendMessage.  It holds client.mutex, but sendFailures is also read and   *)
(* replaced without it, so a failed write and the append are two steps.     *)

Locked == keeping # Nobody

\* WriteMessage of e by goroutine who (0: a handler, n: heartbeat of epoch n).
Write(e, who, failedAs) ==
    /\ ~Locked
    /\ \/ /\ up[conn]
          /\ sent' = [sent EXCEPT ![e] = "delivered"]
          /\ UNCHANGED keeping
       \/ /\ ~up[conn]
          /\ sent' = [sent EXCEPT ![e] = IF @ = "delivered" THEN @ ELSE "swallowed"]
          /\ UNCHANGED keeping
       \/ /\ ~up[conn]
          /\ sent' = [sent EXCEPT ![e] = IF @ = "delivered" THEN @ ELSE failedAs]
          /\ keeping' = [busy |-> TRUE, who |-> who, list |-> Append(failures, e)]

Send(e) == /\ sent[e] = "new"
           /\ Len(failures) < MaxKept
           /\ Write(e, 0, "failed")
           /\ UNCHANGED <<conn, up, taskVars, recVars, failures, closed>>

\* client.sendFailures = append(client.sendFailures, message): the slice was
\* read when the write failed.
Keep == /\ Locked
        /\ failures' = keeping.list
        /\ keeping' = Nobody
        /\ UNCHANGED <<conn, up, taskVars, recVars, sent, closed>>

-----------------------------------------------------------------------------
(* sendHeartbeat and processFailedMessages.                                 *)

\* The timer is ready.  Select may prefer it to a context that is done.  The
\* heartbeat is sent; then range evaluates sendFailures once, without a lock.
BeatTick(n) == /\ beat[n] = "sleeping" /\ ~Locked
               /\ beat' = [beat EXCEPT ![n] = "resending"]
               /\ snap' = [snap EXCEPT ![n] = failures]
               /\ UNCHANGED <<conn, up, reader, cancelled, cancel, recVars, sendVars, closed>>

Resend(n) == /\ beat[n] = "resending" /\ snap[n] # <<>>
             /\ Write(Head(snap[n]), n, "failedAgain")
             /\ snap' = [snap EXCEPT ![n] = Tail(@)]
             /\ UNCHANGED <<conn, up, reader, beat, cancelled, cancel, recVars, failures, closed>>

\* Variant: the list is not cleared.
ClearKeepsList(n) ==
    /\ beat[n] = "resending" /\ snap[n] = <<>>
    /\ Locked => keeping.who # n
    /\ beat' = [beat EXCEPT ![n] = IF cancelled[n] THEN "gone" ELSE "sleeping"]
    /\ UNCHANGED <<conn, up, reader, snap, cancelled, cancel, recVars, sendVars, closed>>

\* client.sendFailures = {}; back at the select, a done context ends the loop.
Clear(n) == /\ beat[n] = "resending" /\ snap[n] = <<>>
            /\ Locked => keeping.who # n
            /\ failures' = <<>>
            /\ beat' = [beat EXCEPT ![n] = IF cancelled[n] THEN "gone" ELSE "sleeping"]
            /\ UNCHANGED <<conn, up, reader, snap, cancelled, cancel, recVars, keeping, sent, closed>>

BeatStop(n) == /\ beat[n] = "sleeping" /\ cancelled[n]
               /\ beat' = [beat EXCEPT ![n] = "gone"]
               /\ UNCHANGED <<conn, up, reader, snap, cancelled, cancel, recVars, sendVars, closed>>

-----------------------------------------------------------------------------
(* handleIncomingMessages.                                                  *)

\* ReadMessage returns an error; cancel().
ReadFails(n) == /\ reader[n] = "reading" /\ ~up[n]
                /\ reader' = [reader EXCEPT ![n] = "failed"]
                /\ cancelled' = [cancelled EXCEPT ![n] = TRUE]
                /\ UNCHANGED <<conn, up, beat, snap, cancel, recVars, sendVars, closed>>

\* Variant: Reconnect is started and the loop goes on reading.
ReaderStays(n) == /\ reader[n] = "failed"
                  /\ reader' = [reader EXCEPT ![n] = "reading"]
                  /\ rec' = IF flag THEN rec ELSE [rec EXCEPT ![n] = "started"]
                  /\ UNCHANGED <<conn, up, beat, snap, cancelled, cancel, flag, tries, sendVars, closed>>

\* if !client.isReconnecting { go client.Reconnect() }; return.
ReaderExit(n) == /\ reader[n] = "failed"
                 /\ reader' = [reader EXCEPT ![n] = "gone"]
                 /\ rec' = IF flag THEN rec ELSE [rec EXCEPT ![n] = "started"]
                 /\ UNCHANGED <<conn, up, beat, snap, cancelled, cancel, flag, tries, sendVars, closed>>

-----------------------------------------------------------------------------
(* Reconnect.                                                               *)

RecStart(n) == /\ rec[n] = "started"
               /\ flag' = TRUE
               /\ tries' = 0
               /\ rec' = [rec EXCEPT ![n] = "dialing"]
               /\ UNCHANGED <<conn, up, taskVars, sendVars, closed>>

\* Variant: after a failed dial Reconnect is called anew, and counts anew.
DialFailsAnew(n) ==
    /\ rec[n] = "dialing"
    /\ tries' = tries + 1
    /\ rec' = [rec EXCEPT ![n] = "started"]
    /\ UNCHANGED <<conn, up, taskVars, flag, sendVars, closed>>

\* isReconnecting stays true when the retries are used up.
DialFails(n) == /\ rec[n] = "dialing"
                /\ tries' = tries + 1
                /\ rec' = [rec EXCEPT ![n] = IF tries' > MaxRetry THEN "gaveUp" ELSE @]
                /\ UNCHANGED <<conn, up, taskVars, flag, sendVars, closed>>

\* The dial succeeds; client.conn = conn, without the lock.
DialSucceeds(n) == /\ rec[n] = "dialing" /\ n < MaxEpochs
                   /\ conn' = n + 1
                   /\ rec' = [rec EXCEPT ![n] = "connected"]
                   /\ UNCHANGED <<up, taskVars, flag, tries, sendVars, closed>>

\* Variant: client.cancel is replaced before it is called.
LaunchCancelsNew(n) ==
    /\ rec[n] = "connected" /\ ~Locked
    /\ cancelled' = [cancelled EXCEPT ![n + 1] = TRUE]
    /\ cancel' = n + 1
    /\ reader' = [reader EXCEPT ![n + 1] = "reading"]
    /\ beat' = [beat EXCEPT ![n + 1] = "sleeping"]
    /\ rec' = [rec EXCEPT ![n] = "launched"]
    /\ UNCHANGED <<conn, up, snap, flag, tries, sendVars, closed>>

\* The lifecycle event is sent, client.cancel() called, and a new context with
\* both goroutines started.
Launch(n) == /\ rec[n] = "connected" /\ ~Locked
             /\ cancelled' = [cancelled EXCEPT ![cancel] = TRUE]
             /\ cancel' = n + 1
             /\ reader' = [reader EXCEPT ![n + 1] = "reading"]
             /\ beat' = [beat EXCEPT ![n + 1] = "sleeping"]
             /\ rec' = [rec EXCEPT ![n] = "launched"]
             /\ UNCHANGED <<conn, up, snap, flag, tries, sendVars, closed>>

\* The deferred isReconnecting = false.
Finish(n) == /\ rec[n] = "launched"
             /\ flag' = FALSE
             /\ rec' = [rec EXCEPT ![n] = "done"]
             /\ UNCHANGED <<conn, up, taskVars, tries, sendVars, closed>>

-----------------------------------------------------------------------------
(* The peer, the network, and the end of the process.                       *)

Drop(n) == /\ n <= conn /\ n < MaxEpochs /\ up[n]
           /\ up' = [up EXCEPT ![n] = FALSE]
           /\ UNCHANGED <<conn, taskVars, recVars, sendVars, closed>>

\* main, on SIGINT or SIGTERM: client.Close().
Close == /\ ~closed /\ ~Locked /\ conn < MaxEpochs
         /\ closed' = TRUE
         /\ up' = [up EXCEPT ![conn] = FALSE]
         /\ UNCHANGED <<conn, taskVars, recVars, sendVars>>

Beat(n)   == BeatTick(n) \/ Resend(n) \/ Clear(n) \/ BeatStop(n)
Reader(n) == ReadFails(n) \/ ReaderExit(n)
Rec(n)    == RecStart(n) \/ DialFails(n) \/ DialSucceeds(n) \/ Launch(n) \/ Finish(n)

Next == \/ \E e \in Events : Send(e)
        \/ Keep \/ Close
        \/ \E n \in Epochs : Beat(n) \/ Reader(n) \/ Rec(n) \/ Drop(n)

Spec == Init /\ [][Next]_vars

\* Goroutines run on and timers fire; a dial has an outcome, whichever it is.
Fairness == /\ WF_vars(Keep)
            /\ \A n \in Epochs : WF_vars(Beat(n)) /\ WF_vars(Reader(n)) /\ WF_vars(Rec(n))
FairSpec == Spec /\ Fairness

-----------------------------------------------------------------------------

TypeOK ==
    /\ conn \in Epochs
    /\ up \in [Epochs -> BOOLEAN]
    /\ reader \in [Epochs -> {"none", "reading", "failed", "gone"}]
    /\ beat \in [Epochs -> {"none", "sleeping", "resending", "gone"}]
    /\ snap \in [Epochs -> Seq(Events)]
    /\ cancelled \in [Epochs -> BOOLEAN]
    /\ cancel \in Epochs
    /\ flag \in BOOLEAN
    /\ rec \in [Epochs -> {"none", "started", "dialing", "connected", "launched", "done", "gaveUp"}]
    /\ tries \in 0 .. MaxRetry + 1
    /\ failures \in Seq(Events)
    /\ keeping \in {Nobody} \cup [busy : {TRUE}, who : 0 .. MaxEpochs, list : Seq(Events)]
    /\ sent \in [Events -> {"new", "delivered", "swallowed", "failed", "failedAgain"}]
    /\ closed \in BOOLEAN

\* Whoever is in charge of the connection: a reader, or the Reconnect that
\* replaces it until it has started the next reader.
InCharge(n) == \/ reader[n] \in {"reading", "failed"}
               \/ rec[n] \in {"started", "dialing", "connected", "gaveUp"}

\* There are never two: isReconnecting, set late and reset late, never lets
\* two Reconnects run or two readers read one connection.
OneInCharge == \A m, n \in Epochs : InCharge(m) /\ InCharge(n) => m = n

\* The reader reads the connection that is written to; its heartbeat runs,
\* and only its context is not done.
ReadingIsWhole ==
    \A n \in Epochs : reader[n] = "reading" =>
        /\ conn = n /\ cancel = n
        /\ beat[n] \in {"sleeping", "resending"}
        /\ \A m \in Epochs : ~cancelled[m] => m = n \/ beat[m] = "none"

\* isReconnecting is set only while a Reconnect is under way or has given up.
FlagHasOwner ==
    flag => \E n \in Epochs : rec[n] \in {"dialing", "connected", "launched", "gaveUp"}

\* ws.go:90 calls Reconnect the reconnection after a drop, and the template
\* (config_template.go:43) counts the retries after a connection failed: until
\* they are used up, or the process is closing, somebody is in charge.
\* (Violated: the new reader fails before the deferred reset and starts no
\* Reconnect.)
NotOrphaned == closed \/ \E n \in Epochs : InCharge(n)

\* A Reconnect comes to an end, connected or after its last retry; and while a
\* connection is read for good, the list of failed messages is worked off
\* again and again.
LinkRecovers ==
    \A n \in Epochs :
        /\ rec[n] = "started" ~> rec[n] \in {"done", "gaveUp"}
        /\ <>[](reader[n] = "reading") => []<>(failures = <<>>)

=============================================================================
