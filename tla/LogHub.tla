-------------------------------- MODULE LogHub --------------------------------
(* mylog's live log: every log call puts an entry into one bounded channel  *)
(* or drops it; every console that connects starts a handler, which joins   *)
(* the loop that takes entries and offers each to all registered consoles,  *)
(* and two pumps, one reading and one writing.  A console that is not ready *)
(* misses the entry.  The pumps end with their connection and forget the    *)
(* console; the handlers never end.                                         *)
EXTENDS Naturals, Sequences, Functions

CONSTANTS
    HubConsoles,  \* connections of the web console
    HubCap,       \* capacity of logChannel
    HubEntries    \* bound: how many entries are logged

ASSUME HubAssumption == HubCap \in Nat /\ HubEntries \in Nat

VARIABLES
    hubChan,   \* logChannel; entries are numbered in the order of the calls
    hubCount,  \* how many entries have been logged
    hubSet,    \* wsClients
    hubConn,   \* hubConn[c]: the connection
    hubRead,   \* hubRead[c]: readPump runs
    hubPump,   \* hubPump[c]: writePump: at its select (0), writing an entry, ended
    hubTook,   \* hubTook[c]: the entry the handler of c offers, 0 when it takes one
    hubTodo,   \* hubTodo[c]: the consoles it is still to be offered to
    hubSeen    \* hubSeen[c]: the entries console c has got

hubPumps == <<hubRead, hubPump>>
hubLoops == <<hubTook, hubTodo>>
hubVars == <<hubChan, hubCount, hubSet, hubConn, hubPumps, hubLoops, hubSeen>>

HubEnded == HubEntries + 1

HubInit == /\ hubChan = <<>> /\ hubCount = 0
           /\ hubSet = {}
           /\ hubConn = [c \in HubConsoles |-> "none"]
           /\ hubRead = [c \in HubConsoles |-> FALSE]
           /\ hubPump = [c \in HubConsoles |-> HubEnded]
           /\ hubTook = [c \in HubConsoles |-> 0]
           /\ hubTodo = [c \in HubConsoles |-> {}]
           /\ hubSeen = [c \in HubConsoles |-> <<>>]

\* The handlers that have started, and whether one holds the read lock.
HubHandlers == {c \in HubConsoles : hubConn[c] # "none"}
HubOffering == \E c \in HubConsoles : hubTook[c] # 0

-----------------------------------------------------------------------------
(* The channel and the loops.                                               *)

\* emitLog.
HubEmit ==
    /\ hubCount < HubEntries
    /\ hubCount' = hubCount + 1
    /\ hubChan' = IF Len(hubChan) < HubCap THEN Append(hubChan, hubCount') ELSE hubChan
    /\ UNCHANGED <<hubSet, hubConn, hubPumps, hubLoops, hubSeen>>

\* Variant: a handler registers its console in the loop.
HubTakeRegisters(h) ==
    /\ h \in HubHandlers /\ hubTook[h] = 0
    /\ hubChan # <<>>
    /\ hubTook' = [hubTook EXCEPT ![h] = Head(hubChan)]
    /\ hubSet' = hubSet \cup {h}
    /\ hubTodo' = [hubTodo EXCEPT ![h] = hubSet']
    /\ hubChan' = Tail(hubChan)
    /\ UNCHANGED <<hubCount, hubConn, hubPumps, hubSeen>>

\* A handler takes an entry ...
HubTake(h) ==
    /\ h \in HubHandlers /\ hubTook[h] = 0
    /\ hubChan # <<>>
    /\ hubTook' = [hubTook EXCEPT ![h] = Head(hubChan)]
    /\ hubTodo' = [hubTodo EXCEPT ![h] = hubSet]
    /\ hubChan' = Tail(hubChan)
    /\ UNCHANGED <<hubCount, hubSet, hubConn, hubPumps, hubSeen>>

\* Variant: the offer is repeated until the console takes it, and after.
HubOfferAgain(h, c) ==
    /\ c \in hubTodo[h]
    /\ IF hubPump[c] = 0
       THEN hubPump' = [hubPump EXCEPT ![c] = hubTook[h]] /\ UNCHANGED hubTodo
       ELSE hubTodo' = [hubTodo EXCEPT ![h] = @ \ {c}] /\ UNCHANGED hubPump
    /\ UNCHANGED <<hubChan, hubCount, hubSet, hubConn, hubRead, hubTook, hubSeen>>

\* ... and offers it to each console, without waiting: it is taken only by a
\* pump that stands at its select.
HubOffer(h, c) ==
    /\ c \in hubTodo[h]
    /\ hubTodo' = [hubTodo EXCEPT ![h] = @ \ {c}]
    /\ hubPump' = IF hubPump[c] = 0 THEN [hubPump EXCEPT ![c] = hubTook[h]] ELSE hubPump
    /\ UNCHANGED <<hubChan, hubCount, hubSet, hubConn, hubRead, hubTook, hubSeen>>

HubOffered(h) ==
    /\ hubTook[h] # 0 /\ hubTodo[h] = {}
    /\ hubTook' = [hubTook EXCEPT ![h] = 0]
    /\ UNCHANGED <<hubChan, hubCount, hubSet, hubConn, hubPumps, hubTodo, hubSeen>>

-----------------------------------------------------------------------------
(* The consoles.  Changing wsClients takes the lock the loops read under.   *)

HubConnect(c) ==
    /\ hubConn[c] = "none" /\ ~HubOffering
    /\ hubConn' = [hubConn EXCEPT ![c] = "open"]
    /\ hubSet' = hubSet \cup {c}
    /\ hubRead' = [hubRead EXCEPT ![c] = TRUE]
    /\ hubPump' = [hubPump EXCEPT ![c] = 0]
    /\ UNCHANGED <<hubChan, hubCount, hubLoops, hubSeen>>

\* The browser goes, or is not heard of for 60 seconds.
HubLeave(c) ==
    /\ hubConn[c] = "open"
    /\ hubConn' = [hubConn EXCEPT ![c] = "cut"]
    /\ UNCHANGED <<hubChan, hubCount, hubSet, hubPumps, hubLoops, hubSeen>>

HubShow(c) ==
    /\ hubPump[c] \in 1 .. HubEntries /\ hubConn[c] = "open"
    /\ hubSeen' = [hubSeen EXCEPT ![c] = Append(@, hubPump[c])]
    /\ hubPump' = [hubPump EXCEPT ![c] = 0]
    /\ UNCHANGED <<hubChan, hubCount, hubSet, hubConn, hubRead, hubLoops>>

\* Each pump ends on an error of its own, forgets the console and closes the
\* connection.
HubReadEnds(c) ==
    /\ hubRead[c] /\ hubConn[c] = "cut" /\ ~HubOffering
    /\ hubRead' = [hubRead EXCEPT ![c] = FALSE]
    /\ hubSet' = hubSet \ {c}
    /\ UNCHANGED <<hubChan, hubCount, hubConn, hubPump, hubLoops, hubSeen>>

\* A write fails on a broken connection, and on one too slow.
HubWriteEnds(c) ==
    /\ hubPump[c] # HubEnded /\ hubConn[c] # "none" /\ ~HubOffering
    /\ hubConn[c] = "open" => hubPump[c] # 0
    /\ hubPump' = [hubPump EXCEPT ![c] = HubEnded]
    /\ hubConn' = [hubConn EXCEPT ![c] = "cut"]
    /\ hubSet' = hubSet \ {c}
    /\ UNCHANGED <<hubChan, hubCount, hubRead, hubLoops, hubSeen>>

HubNext == \/ HubEmit
           \/ \E h \in HubConsoles : \/ HubTake(h) \/ HubOffered(h)
                                     \/ \E c \in HubConsoles : HubOffer(h, c)
           \/ \E c \in HubConsoles : HubConnect(c) \/ HubLeave(c) \/ HubShow(c)
                                     \/ HubReadEnds(c) \/ HubWriteEnds(c)

\* Loops and pumps are goroutines that run on; the lock is handed to a pump
\* that waits for it before another loop may read, so a pump that is held up
\* again and again gets it (strong fairness).
HubFairness ==
    \A c \in HubConsoles : /\ WF_hubVars(HubOffered(c) \/ \E o \in HubConsoles : HubOffer(c, o))
                           /\ SF_hubVars(HubReadEnds(c))
                           /\ SF_hubVars(HubWriteEnds(c))

HubSpec == HubInit /\ [][HubNext]_hubVars /\ HubFairness

-----------------------------------------------------------------------------
(* Properties.                                                              *)

HubTypeOK ==
    /\ hubChan \in Seq(1 .. HubEntries) /\ hubCount \in 0 .. HubEntries
    /\ hubSet \subseteq HubConsoles
    /\ hubConn \in [HubConsoles -> {"none", "open", "cut"}]
    /\ hubRead \in [HubConsoles -> BOOLEAN]
    /\ hubPump \in [HubConsoles -> 0 .. HubEnded]
    /\ hubTook \in [HubConsoles -> 0 .. HubEntries]
    /\ hubTodo \in [HubConsoles -> SUBSET HubConsoles]
    /\ hubSeen \in [HubConsoles -> Seq(1 .. HubEntries)]

\* However many handlers share the channel, a console never shows an entry
\* twice; and as long as only one handler has ever been started it shows them
\* in the order they were logged.  (With two, one may overtake the other.)
LogSeenOnce ==
    \A c \in HubConsoles :
        /\ IsInjective(hubSeen[c])
        /\ HubHandlers \subseteq {c} =>
              \A i, j \in DOMAIN hubSeen[c] : i < j => hubSeen[c][i] < hubSeen[c][j]

\* A console whose connection is gone is forgotten for good, although its
\* handler goes on: the set the loops offer to does not keep the dead.  (A
\* connection that is cut stays cut.)
GoneIsForgotten == <>[](\A c \in HubConsoles : hubConn[c] = "cut" => c \notin hubSet)
=============================================================================
