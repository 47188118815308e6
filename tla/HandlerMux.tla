------------------------------ MODULE HandlerMux ------------------------------
(****************************************************************************)
(* ServeMux routes messages and events to chains of handlers: middlewares   *)
(* of the kind first, then the handlers of the type, or the default ones.   *)
(* Chains are Go slices, and a chain is made by appending to the slice of   *)
(* the middlewares: when that has room its array is written to, so arrays   *)
(* are part of the state.  Registration ends with the first message; after  *)
(* it, and for whatever else the methods refuse, they panic, which ends the *)
(* program that is starting.                                                *)
(*                                                                          *)
(* A context runs its chain with Next; a handler may call Next itself, to   *)
(* run the rest before it returns, or Abort.                                *)
(****************************************************************************)
EXTENDS Naturals, Sequences

CONSTANTS
    MuxTypes,    \* names of types in lower case, as they are looked up
    MuxDefault,  \* the place of the default chain among them
    MuxSizes,    \* how many handlers one call may register
    MuxMax,      \* maxHandlerChainSize
    MuxCalls     \* bound: registering calls

ASSUME MuxAssumption == /\ MuxDefault \notin MuxTypes
                        /\ MuxSizes \subseteq Nat \ {0} /\ MuxMax \in Nat /\ MuxCalls \in Nat

MuxKinds == {"msg", "event"}
MuxSlots == MuxTypes \cup {MuxDefault}

VARIABLES
    muxHeap,      \* the arrays: sequences of handlers, as long as there is room
    muxMids,      \* muxMids[k]: the slice of the middlewares of kind k
    muxChain,     \* muxChain[k][t]: the slice of the chain for type t
    muxWant,      \* history: the handlers that chain was made of
    muxHandlers,  \* handlers so far; a handler is a number
    muxCalls,     \* calls so far
    muxStarted, muxPanicked,
    muxCtx        \* the message served last: its chain, how far Next got and
                  \*   how deep it is nested, the handlers run, who aborted

muxTables == <<muxHeap, muxMids, muxChain, muxWant, muxHandlers, muxCalls>>
muxVars == <<muxTables, muxStarted, muxPanicked, muxCtx>>

MuxNil == [arr |-> 0, len |-> 0]
MuxNoCtx == [kind |-> "msg", slot |-> MuxDefault, at |-> 0, depth |-> 0,
             ran |-> <<>>, aborted |-> FALSE]

MuxInit == /\ muxHeap = <<>>
           /\ muxMids = [k \in MuxKinds |-> MuxNil]
           /\ muxChain = [k \in MuxKinds |-> [t \in MuxSlots |-> MuxNil]]
           /\ muxWant = [k \in MuxKinds |-> [t \in MuxSlots |-> <<>>]]
           /\ muxHandlers = 0 /\ muxCalls = 0
           /\ muxStarted = FALSE /\ muxPanicked = FALSE
           /\ muxCtx = MuxNoCtx

MuxContent(heap, s) == IF s.arr = 0 THEN <<>> ELSE SubSeq(heap[s.arr], 1, s.len)

-----------------------------------------------------------------------------
(* Registering handlers.                                                    *)

\* Go's append of hs to the slice s: in place when the array has room, else to
\* a new array, twice as large as the old one or as large as needed.
MuxAppend(heap, s, hs) ==
    LET held == MuxContent(heap, s)
        old == IF s.arr = 0 THEN 0 ELSE Len(heap[s.arr])
        need == s.len + Len(hs)
        room == IF need > 2 * old THEN need ELSE 2 * old
    IN IF s.arr # 0 /\ need <= old
       THEN [heap |-> [heap EXCEPT ![s.arr] =
                          held \o hs \o SubSeq(heap[s.arr], need + 1, old)],
             slice |-> [s EXCEPT !.len = need]]
       ELSE [heap |-> Append(heap, held \o hs \o [i \in 1 .. room - need |-> 0]),
             slice |-> [arr |-> Len(heap) + 1, len |-> need]]

\* combineHandlerChain, without the limit.
MuxCombine(k, hs) == MuxAppend(muxHeap, muxMids[k], hs)

MuxRegistered(k) == \E t \in MuxSlots : muxChain[k][t].len > 0

MuxCall(n) == /\ ~muxPanicked /\ muxCtx.depth = 0
              /\ muxCalls < MuxCalls /\ muxCalls' = muxCalls + 1
              /\ muxHandlers' = muxHandlers + n

MuxFresh(n) == [i \in 1 .. n |-> muxHandlers + i]

\* Variant: middlewares may be added at any time.
MuxUseLate(k, n) ==
    LET made == MuxCombine(k, MuxFresh(n)) IN
    /\ MuxCall(n)
    /\ ~muxStarted /\ muxMids[k].len + n <= MuxMax
    /\ muxHeap' = made.heap
    /\ muxMids' = [muxMids EXCEPT ![k] = made.slice]
    /\ UNCHANGED <<muxChain, muxWant, muxStarted, muxPanicked, muxCtx>>

\* UseForMsg, UseForEvent; Use is one after the other.
MuxUse(k, n) ==
    LET made == MuxCombine(k, MuxFresh(n)) IN
    /\ MuxCall(n)
    /\ ~muxStarted /\ ~MuxRegistered(k) /\ muxMids[k].len + n <= MuxMax
    /\ muxHeap' = made.heap
    /\ muxMids' = [muxMids EXCEPT ![k] = made.slice]
    /\ UNCHANGED <<muxChain, muxWant, muxStarted, muxPanicked, muxCtx>>

\* MsgHandle, EventHandle and DefaultMsgHandle, DefaultEventHandle.
MuxHandle(k, t, n) ==
    LET made == MuxCombine(k, MuxFresh(n)) IN
    /\ MuxCall(n)
    /\ ~muxStarted /\ muxMids[k].len + n <= MuxMax
    /\ muxHeap' = made.heap
    /\ muxChain' = [muxChain EXCEPT ![k][t] = made.slice]
    /\ muxWant' = [muxWant EXCEPT ![k][t] = MuxContent(muxHeap, muxMids[k]) \o MuxFresh(n)]
    /\ UNCHANGED <<muxMids, muxStarted, muxPanicked, muxCtx>>

\* startedChecker.check, a nil handler (n = 0 here), a chain too long, or a
\* middleware that comes after handlers.
MuxPanic(k, n, middleware) ==
    /\ MuxCall(n)
    /\ \/ muxStarted \/ n = 0 \/ muxMids[k].len + n > MuxMax
       \/ middleware /\ MuxRegistered(k)
    /\ muxPanicked' = TRUE
    /\ UNCHANGED <<muxHeap, muxMids, muxChain, muxWant, muxStarted, muxCtx>>

-----------------------------------------------------------------------------
(* Serving.                                                                 *)

\* getMsgHandlerChain, getEventHandlerChain.
MuxFind(k, t) == IF muxChain[k][t].len > 0 THEN t ELSE MuxDefault

\* ServeMsg.  Without a chain "success" is answered and nothing runs.  A type
\* nobody registered is looked up under the place of the default chain here.
MuxServe(k, t) ==
    LET found == MuxFind(k, t) IN
    /\ ~muxPanicked /\ muxCtx.depth = 0
    /\ muxStarted' = TRUE
    /\ muxCtx' = [MuxNoCtx EXCEPT !.kind = k, !.slot = found,
                                  !.depth = IF muxChain[k][found].len = 0 THEN 0 ELSE 1]
    /\ UNCHANGED <<muxTables, muxPanicked>>

MuxServing == muxChain[muxCtx.kind][muxCtx.slot]

\* Where a handler leaves the context: Abort puts it behind any chain.
MuxPlace(does, at) == IF does = "abort" THEN MuxMax ELSE at + 1

\* Next runs the next handler of the chain, which returns, calls Next in its
\* turn, or Abort.
MuxRun(does) ==
    /\ muxCtx.depth > 0 /\ muxCtx.at < MuxServing.len
    /\ LET h == MuxContent(muxHeap, MuxServing)[muxCtx.at + 1] IN
       muxCtx' = [muxCtx EXCEPT !.ran = Append(@, h),
                                !.at = MuxPlace(does, @),
                                !.depth = IF does = "next" THEN @ + 1 ELSE @,
                                !.aborted = @ \/ does = "abort"]
    /\ UNCHANGED <<muxTables, muxStarted, muxPanicked>>

\* Next finds no further handler.  The handler that called it returns.
MuxReturn ==
    /\ muxCtx.depth > 0 /\ muxCtx.at >= MuxServing.len
    /\ muxCtx' = [muxCtx EXCEPT !.depth = @ - 1]
    /\ UNCHANGED <<muxTables, muxStarted, muxPanicked>>

MuxNext == \/ \E k \in MuxKinds, n \in MuxSizes :
                  \/ MuxUse(k, n)
                  \/ \E t \in MuxSlots : MuxHandle(k, t, n)
           \/ \E k \in MuxKinds, n \in MuxSizes \cup {0}, m \in BOOLEAN : MuxPanic(k, n, m)
           \/ \E k \in MuxKinds, t \in MuxSlots : MuxServe(k, t)
           \/ \E does \in {"return", "next", "abort"} : MuxRun(does)
           \/ MuxReturn

MuxSpec == MuxInit /\ [][MuxNext]_muxVars

-----------------------------------------------------------------------------
(* Properties.                                                              *)

MuxTypeOK ==
    /\ muxHeap \in Seq(Seq(Nat))
    /\ muxMids \in [MuxKinds -> [arr : Nat, len : Nat]]
    /\ muxChain \in [MuxKinds -> [MuxSlots -> [arr : Nat, len : Nat]]]
    /\ muxWant \in [MuxKinds -> [MuxSlots -> Seq(Nat)]]
    /\ muxHandlers \in Nat /\ muxCalls \in 0 .. MuxCalls
    /\ muxStarted \in BOOLEAN /\ muxPanicked \in BOOLEAN
    /\ muxCtx \in [kind : MuxKinds, slot : MuxSlots, at : Nat, depth : Nat,
                   ran : Seq(Nat), aborted : BOOLEAN]

\* The array of the middlewares has room, which the next chain will write to.
MuxRoom(k) == muxMids[k].arr # 0 /\ muxMids[k].len < Len(muxHeap[muxMids[k].arr])

\* Whatever the handlers do with Next and Abort, a message passes all the
\* middlewares of its kind first, in the order they were registered, and when
\* nobody aborts as many handlers run as its chain was made of, each once.
\* They are the ones it was made of, unless the middlewares have room: then the
\* chain registered last has overwritten those before it.  (The program itself
\* registers no middlewares.)
ServedInFull ==
    LET mids == MuxContent(muxHeap, muxMids[muxCtx.kind])
        want == muxWant[muxCtx.kind][muxCtx.slot]
        ran == muxCtx.ran
    IN muxCtx.depth > 0 \/ ran # <<>> =>
        /\ \A i \in 1 .. Len(ran) :
               /\ i <= Len(mids) => ran[i] = mids[i]
               /\ ~MuxRoom(muxCtx.kind) => ran[i] = want[i]
               /\ \A j \in 1 .. i - 1 : ran[j] # ran[i]
        /\ muxCtx.depth = 0 /\ ~muxCtx.aborted
              => Len(ran) >= Len(mids) /\ Len(ran) = Len(want)
=============================================================================
