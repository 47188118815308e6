----------------------------- MODULE UploadServer -----------------------------
(* server/uploadpic.go: each request to the picture and voice host is       *)
(* counted in a sliding window of its address, without a lock; a picture    *)
(* that is let through is saved under its digest unless a file of that name *)
(* exists, and answered with the file's link.  Requests run at once; the    *)
(* files stay across restarts, the counts do not.                           *)
(* One address; addresses have windows of their own.                        *)
EXTENDS Naturals, Sequences, FiniteSets

CONSTANTS
    UpReqs,      \* requests of the address
    UpFiles,     \* digests of what is uploaded
    UpMax,       \* config image_limit
    UpInterval,  \* RequestInterval
    UpBurst,     \* bound: requests counted in a window
    UpTime       \* bound: the time

ASSUME UpAssumption == /\ UpMax \in Nat /\ UpInterval \in Nat
                       /\ UpBurst \in Nat /\ UpTime \in Nat

VARIABLES
    upNow,      \* the time
    upTimes,    \* Counts[address]
    upPc,       \* upPc[r]: what request r is about
    upAt,       \* upAt[r]: the time it read
    upRead,     \* upRead[r]: the times it read
    upName,     \* upName[r]: the digest of its content
    upFile,     \* upFile[f]: absent, torn (begun, not whole) or whole
    upLet,      \* history: the times of the requests let through of late
    upRaced,    \* history: two requests were counted at once
    upFailed    \* history: the files a write of which was cut short

upWindow == <<upTimes, upAt, upRead, upLet, upRaced>>
upStore == <<upName, upFile, upFailed>>
upVars == <<upNow, upWindow, upPc, upStore>>

UpInit == /\ upNow = 0
          /\ upTimes = <<>>
          /\ upPc = [r \in UpReqs |-> "idle"]
          /\ upAt = [r \in UpReqs |-> 0]
          /\ upRead = [r \in UpReqs |-> <<>>]
          /\ upName \in [UpReqs -> UpFiles]
          /\ upFile = [f \in UpFiles |-> "absent"]
          /\ upLet = <<>> /\ upRaced = FALSE /\ upFailed = {}

UpTick == /\ upNow < UpTime
          /\ upNow' = upNow + 1
          /\ UNCHANGED <<upWindow, upPc, upStore>>

-----------------------------------------------------------------------------
(* CheckAndUpdateRateLimit.                                                 *)

\* The time and the times are read ...
UpBegin(r) ==
    /\ upPc[r] = "idle" /\ Len(upTimes) < UpBurst
    /\ upPc' = [upPc EXCEPT ![r] = "count"]
    /\ upAt' = [upAt EXCEPT ![r] = upNow]
    /\ upRead' = [upRead EXCEPT ![r] = upTimes]
    /\ upRaced' = (upRaced \/ \E o \in UpReqs : upPc[o] = "count")
    /\ UNCHANGED <<upNow, upTimes, upLet, upStore>>

UpCounted(r) == upAt' = [upAt EXCEPT ![r] = 0] /\ upRead' = [upRead EXCEPT ![r] = <<>>]

\* What is left of s at time t: the expired times at the front are removed.
UpExpired(x, t) == x + UpInterval < t
UpFresh(s, t) ==
    LET n == CHOOSE k \in 0 .. Len(s) : /\ \A j \in 1 .. k : UpExpired(s[j], t)
                                        /\ k < Len(s) => ~UpExpired(s[k + 1], t)
    IN SubSeq(s, n + 1, Len(s))

\* The requests let through of late; once two were counted at once no more.
UpNoteLet(let, t) == IF upRaced THEN <<>>
                     ELSE UpFresh(IF let THEN Append(upLet, t) ELSE upLet, t)

\* Variant: a time as old as the interval is out of the window.
UpCountStrict(r) ==
    LET s == UpFresh(Append(upRead[r], upAt[r]), upAt[r] + 1)
        let == Len(s) <= UpMax
    IN /\ upPc[r] = "count"
       /\ upTimes' = s
       /\ upPc' = [upPc EXCEPT ![r] = IF let THEN "stat" ELSE "idle"]
       /\ upLet' = UpNoteLet(let, upAt[r])
       /\ UpCounted(r)
       /\ UNCHANGED <<upNow, upRaced, upStore>>

\* ... and written with the request's own time, without the expired ones at
\* the front; a request that is refused stays counted.  (With two requests at
\* it one write undoes the other, or the process dies: UpCrash.)
UpCount(r) ==
    LET s == UpFresh(Append(upRead[r], upAt[r]), upAt[r])
        let == Len(s) <= UpMax
    IN /\ upPc[r] = "count"
       /\ upTimes' = s
       /\ upPc' = [upPc EXCEPT ![r] = IF let THEN "stat" ELSE "idle"]
       /\ upLet' = UpNoteLet(let, upAt[r])
       /\ UpCounted(r)
       /\ UNCHANGED <<upNow, upRaced, upStore>>

-----------------------------------------------------------------------------
(* The handler goes on.                                                     *)

\* Content that cannot be decoded is refused.
UpRefuse(r) ==
    /\ upPc[r] = "stat"
    /\ upPc' = [upPc EXCEPT ![r] = "idle"]
    /\ UNCHANGED <<upNow, upWindow, upStore>>

\* os.Stat: a file that exists is not written again.
UpStat(r) ==
    /\ upPc[r] = "stat"
    /\ upPc' = [upPc EXCEPT ![r] = IF upFile[upName[r]] = "absent" THEN "write" ELSE "link"]
    /\ UNCHANGED <<upNow, upWindow, upStore>>

\* Variant: the error of the write is ignored and the link answered.
UpFillIgnored(r) ==
    /\ upPc[r] = "fill"
    /\ upPc' = [upPc EXCEPT ![r] = "link"]
    /\ UNCHANGED <<upNow, upWindow, upStore>>

\* os.WriteFile creates or empties the file ...
UpCreate(r) ==
    /\ upPc[r] = "write"
    /\ upFile' = [upFile EXCEPT ![upName[r]] = "torn"]
    /\ upPc' = [upPc EXCEPT ![r] = "fill"]
    /\ UNCHANGED <<upNow, upWindow, upName, upFailed>>

\* ... and writes all of it, or fails and leaves what there is.
UpFill(r) ==
    /\ upPc[r] = "fill"
    /\ upFile' = [upFile EXCEPT ![upName[r]] = "whole"]
    /\ upPc' = [upPc EXCEPT ![r] = "link"]
    /\ UNCHANGED <<upNow, upWindow, upName, upFailed>>

UpFillFails(r) ==
    /\ upPc[r] = "fill"
    /\ upFailed' = upFailed \cup {upName[r]}
    /\ upPc' = [upPc EXCEPT ![r] = "idle"]
    /\ UNCHANGED <<upNow, upWindow, upName, upFile>>

\* The link is answered; the request's goroutine takes another one.
UpLink(r) ==
    /\ upPc[r] = "link"
    /\ upPc' = [upPc EXCEPT ![r] = "idle"]
    /\ UNCHANGED <<upNow, upWindow, upStore>>

\* The process dies, of the unguarded map too, and starts again.
UpCrash ==
    /\ upTimes' = <<>> /\ upLet' = <<>> /\ upRaced' = FALSE
    /\ upPc' = [r \in UpReqs |-> "idle"]
    /\ upFailed' = upFailed \cup {upName[r] : r \in {q \in UpReqs : upPc[q] = "fill"}}
    /\ upAt' = [r \in UpReqs |-> 0] /\ upRead' = [r \in UpReqs |-> <<>>]
    /\ UNCHANGED <<upNow, upName, upFile>>

\* Voices take the same steps as pictures, through a handler of their own.
UpNext == \/ UpTick \/ UpCrash
          \/ \E r \in UpReqs : \/ UpBegin(r) \/ UpCount(r) \/ UpRefuse(r) \/ UpStat(r)
                               \/ UpCreate(r) \/ UpFill(r) \/ UpFillFails(r) \/ UpLink(r)

UpSpec == UpInit /\ [][UpNext]_upVars

-----------------------------------------------------------------------------
(* Properties.                                                              *)

UpTypeOK ==
    /\ upNow \in 0 .. UpTime
    /\ upTimes \in Seq(0 .. UpTime)
    /\ upPc \in [UpReqs -> {"idle", "count", "stat", "write", "fill", "link"}]
    /\ upAt \in [UpReqs -> 0 .. UpTime]
    /\ upRead \in [UpReqs -> Seq(0 .. UpTime)]
    /\ upName \in [UpReqs -> UpFiles]
    /\ upFile \in [UpFiles -> {"absent", "torn", "whole"}]
    /\ upLet \in Seq(0 .. UpTime) /\ upRaced \in BOOLEAN
    /\ upFailed \subseteq UpFiles

\* Whatever the pattern of requests, refused ones included, no span of the
\* interval's length sees more requests let through than the limit, as long
\* as no two of them were counted at once.
WindowKept ==
    upRaced \/ \A t \in 0 .. UpTime :
        Cardinality({i \in DOMAIN upLet : upLet[i] \in t .. t + UpInterval}) <= UpMax

\* A link that is answered leads to the whole file, unless another request is
\* writing it just now, or a write of it was once cut short: such a file is
\* never repaired, as it exists.
LinkedIsWhole ==
    \A r \in UpReqs :
        upPc[r] = "link" =>
            \/ upFile[upName[r]] = "whole"
            \/ \E o \in UpReqs : upPc[o] = "fill" /\ upName[o] = upName[r]
            \/ upName[r] \in upFailed
=============================================================================
