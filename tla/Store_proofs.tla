---------------------------- MODULE Store_proofs ----------------------------
(****************************************************************************)
(* What is kept: stored replies, identifiers, the configuration file, short *)
(* links, uploaded files and media; for every value of the constants, of    *)
(* each its inductive invariant, that every step keeps it, and what         *)
(* follows.                                                                 *)
(****************************************************************************)
EXTENDS PendingQueue, LotusMap, ConfigFile, ShortLinks, UploadServer, MediaUpload,
        PendingHistory_proofs, SequenceTheorems, FiniteSetTheorems, TLAPS

-----------------------------------------------------------------------------
(* Sequences: where the parts of a joined sequence and of a cut one are.    *)

\* Where the parts of a joined sequence are.
LEMMA Joins ==
    ASSUME NEW T, NEW s \in Seq(T), NEW t \in Seq(T)
    PROVE  /\ s \o t \in Seq(T) /\ Len(s \o t) = Len(s) + Len(t)
           /\ \A i \in 1 .. Len(s) : (s \o t)[i] = s[i]
           /\ \A i \in 1 .. Len(t) : (s \o t)[Len(s) + i] = t[i]
<1>1. /\ s \o t \in Seq(T) /\ Len(s \o t) = Len(s) + Len(t)
      /\ \A i \in 1 .. Len(s) + Len(t) : (s \o t)[i] = IF i <= Len(s) THEN s[i] ELSE t[i - Len(s)]
  BY ConcatProperties
<1>2. Len(s) \in Nat /\ Len(t) \in Nat
  OBVIOUS
<1> DEFINE q == s \o t
           m == Len(s)
           n == Len(t)
<1>3. /\ q \in Seq(T) /\ Len(q) = m + n /\ m \in Nat /\ n \in Nat
      /\ \A i \in 1 .. m + n : q[i] = IF i <= m THEN s[i] ELSE t[i - m]
  BY <1>1, <1>2
<1> HIDE DEF q, m, n
<1>4. \A i \in 1 .. m : q[i] = s[i]
  BY <1>3
<1>5. \A i \in 1 .. n : q[m + i] = t[i]
  <2> SUFFICES ASSUME NEW i \in 1 .. n PROVE q[m + i] = t[i]
    OBVIOUS
  <2>1. m + i \in 1 .. m + n /\ ~(m + i <= m) /\ (m + i) - m = i
    BY <1>3
  <2> QED BY <1>3, <2>1
<1> QED BY <1>3, <1>4, <1>5 DEF q, m, n

\* What is cut out of a sequence: k elements, behind the first m.
LEMMA Cuts ==
    ASSUME NEW T, NEW s \in Seq(T), NEW m \in Nat, NEW k \in Nat, m + k <= Len(s),
           NEW from, from = m + 1, NEW to, to = m + k
    PROVE  /\ SubSeq(s, from, to) \in Seq(T) /\ Len(SubSeq(s, from, to)) = k
           /\ \A i \in 1 .. k : SubSeq(s, from, to)[i] = s[m + i]
<1>1. Len(s) \in Nat /\ from \in Int /\ to \in Int
  OBVIOUS
<1>2. \A i \in from .. to : s[i] \in T
  OBVIOUS
<1>3. /\ SubSeq(s, from, to) \in Seq(T)
      /\ Len(SubSeq(s, from, to)) = IF from <= to THEN to - from + 1 ELSE 0
      /\ \A i \in 1 .. to - from + 1 : SubSeq(s, from, to)[i] = s[from + i - 1]
  BY <1>1, <1>2, SubSeqProperties
<1> DEFINE q == SubSeq(s, from, to)
<1>4. /\ q \in Seq(T) /\ Len(q) = IF from <= to THEN to - from + 1 ELSE 0
      /\ \A i \in 1 .. to - from + 1 : q[i] = s[from + i - 1]
  BY <1>3
<1> HIDE DEF q
<1>5. Len(q) = k
  BY <1>1, <1>4
<1>6. \A i \in 1 .. k : q[i] = s[m + i]
  <2> SUFFICES ASSUME NEW i \in 1 .. k PROVE q[i] = s[m + i]
    OBVIOUS
  <2>1. i \in 1 .. to - from + 1 /\ from + i - 1 = m + i
    BY <1>1
  <2> QED BY <1>4, <2>1
<1> QED BY <1>4, <1>5, <1>6 DEF q

\* Both for sequences of numbers.
LEMMA JoinsNat ==
    \A s, t \in Seq(Nat) : /\ s \o t \in Seq(Nat) /\ Len(s \o t) = Len(s) + Len(t)
                           /\ \A i \in 1 .. Len(s) : (s \o t)[i] = s[i]
                           /\ \A i \in 1 .. Len(t) : (s \o t)[Len(s) + i] = t[i]
  BY Joins

\* The same for what is cut out.
LEMMA CutsNat ==
    \A s \in Seq(Nat) : \A m, k \in Nat : \A from, to :
        m + k <= Len(s) /\ from = m + 1 /\ to = m + k =>
            /\ SubSeq(s, from, to) \in Seq(Nat) /\ Len(SubSeq(s, from, to)) = k
            /\ \A i \in 1 .. k : SubSeq(s, from, to)[i] = s[m + i]
  BY Cuts

\* That q is what is cut out, named so that it can be cited as one fact.
IsCut(q, s, m, k) == /\ q \in Seq(Nat) /\ Len(q) = k
                     /\ \A i \in 1 .. k : q[i] = s[m + i]

\* So a cut is one.
LEMMA CutsAre ==
    \A s \in Seq(Nat) : \A m, k \in Nat : \A from, to :
        m + k <= Len(s) /\ from = m + 1 /\ to = m + k => IsCut(SubSeq(s, from, to), s, m, k)
  BY CutsNat DEF IsCut

\* Sequences that agree everywhere are one.
LEMMA Agree ==
    ASSUME NEW T, NEW s \in Seq(T), NEW t \in Seq(T),
           Len(s) = Len(t), \A i \in 1 .. Len(s) : s[i] = t[i]
    PROVE  s = t
  BY SeqEqual

-----------------------------------------------------------------------------
(* Stored replies.  What is left: the queue behind the history without its  *)
(* first element, and the last one again.                                   *)

\* What is left: the queue behind the history without its first element, and
\* the last one again.
LEMMA LeftShape ==
    ASSUME NEW msgs \in Seq(Replies), NEW cur, NEW i \in DOMAIN Left(msgs, cur)
    PROVE  LET ii == TakenCount(msgs, cur)
           IN  Left(msgs, cur)[i] = IF ii + i = Len(msgs) THEN msgs[ii + i] ELSE msgs[ii + i + 1]
<1> DEFINE ii == TakenCount(msgs, cur)
           s == ShiftedDown(msgs, ii + 1)
<1>1. ii \in 0 .. Len(msgs)
  BY TakenCountType
<1>2. ii # Len(msgs)
  BY DEF Left
<1>3. s \in Seq(Replies) /\ Len(s) = Len(msgs)
  BY <1>1, <1>2 DEF ShiftedDown
<1>4. \A j \in 1 .. Len(msgs) :
          s[j] = IF j < ii + 1 \/ j = Len(msgs) THEN msgs[j] ELSE msgs[j + 1]
  BY DEF ShiftedDown
<1>5. Left(msgs, cur) = SubSeq(s, ii + 1, Len(msgs))
  BY <1>2 DEF Left
<1> HIDE DEF s
<1>6. i \in 1 .. Len(msgs) - ii /\ Left(msgs, cur)[i] = s[ii + i]
  BY <1>1, <1>2, <1>3, <1>5
<1>7. QED
  BY <1>1, <1>4, <1>6

\* Nothing newer than the newest stored reply is queued or was shown.
OnlyStored == /\ \A i \in DOMAIN queue : queue[i] <= stored
              /\ \A i \in DOMAIN history : history[i] <= stored
QueueInv == PqTypeOK /\ OnlyStored /\ InOrder /\ NothingOvertaken /\ NewestOnTop

\* A reply that is stored is newer than all others.
LEMMA StoreStep ==
    ASSUME QueueInv, Store
    PROVE  QueueInv'
<1> USE QueueAssumption DEF QueueInv, PqTypeOK
<1>1. stored \in Nat /\ stored + 1 \in Replies
  BY DEF Store
<1>2. /\ queue' = Append(queue, stored + 1) /\ stored' = stored + 1
      /\ history' = history /\ body' = body
  BY DEF Store
<1>3. /\ queue' \in Seq(Replies) /\ Len(queue') = Len(queue) + 1
      /\ queue'[Len(queue) + 1] = stored + 1
      /\ \A i \in DOMAIN queue : queue'[i] = queue[i]
  BY <1>1, <1>2
<1>4. PqTypeOK'
  BY <1>1, <1>2, <1>3 DEF Store
<1>5. OnlyStored'
  BY <1>1, <1>2, <1>3 DEF OnlyStored
<1>6. InOrder'
  BY <1>1, <1>2, <1>3 DEF InOrder, OnlyStored
<1>7. NothingOvertaken'
  <2> SUFFICES ASSUME NEW i \in DOMAIN history, NEW j \in DOMAIN queue'
               PROVE  history[i] <= queue'[j]
    BY <1>2 DEF NothingOvertaken
  <2>1. history[i] \in Nat /\ history[i] <= stored
    BY <1>1 DEF OnlyStored
  <2>2. CASE j \in DOMAIN queue
    BY <1>3, <2>2 DEF NothingOvertaken
  <2>3. CASE j = Len(queue) + 1
    BY <1>1, <1>3, <2>1, <2>3
  <2>4. QED
    BY <1>3, <2>2, <2>3
<1>8. NewestOnTop'
  BY <1>2 DEF NewestOnTop
<1>9. QED
  BY <1>4, <1>5, <1>6, <1>7, <1>8

\* A fetch shows the oldest replies and leaves the order of the others.
LEMMA FetchStep ==
    ASSUME QueueInv, NEW cur \in BodySizes, Fetch(cur)
    PROVE  QueueInv'
<1> DEFINE ii == TakenCount(queue, cur)
<1>0. queue \in Seq(Replies) /\ stored \in 0 .. MaxMsgs /\ Replies \subseteq Nat
  BY QueueAssumption DEF QueueInv, PqTypeOK
<1>1. ii \in 0 .. Len(queue)
  BY <1>0, TakenCountType
<1>2. /\ history' \in Seq(Replies) /\ Len(history') = ii
      /\ \A i \in DOMAIN history' : /\ ii + 1 - i \in 1 .. ii /\ ii + 1 - i \in DOMAIN queue
                                   /\ history'[i] = queue[ii + 1 - i]
  <2>1. /\ history' \in Seq(Replies) /\ Len(history') = ii
        /\ \A i \in 1 .. ii : history'[i] = queue[ii + 1 - i]
    BY <1>0, ShownIsReverse DEF Fetch
  <2> HIDE DEF ii
  <2>2. \A i \in 1 .. ii : ii + 1 - i \in 1 .. ii /\ ii + 1 - i \in DOMAIN queue
    BY <1>0, <1>1
  <2> QED BY <1>1, <2>1, <2>2
<1>3. CASE queue = <<>>
  <2>1. queue' = <<>> /\ stored' = stored /\ body' = cur /\ Len(history') = 0
    BY <1>0, <1>1, <1>2, <1>3 DEF Fetch
  <2>2. QED
    BY <1>0, <1>2, <1>3, <2>1 DEF QueueInv, PqTypeOK, OnlyStored, InOrder, NothingOvertaken, NewestOnTop
<1>4. CASE queue # <<>>
  <2>1. queue' = Left(queue, cur) /\ stored' = stored /\ body' = cur
    BY <1>4 DEF Fetch
  <2>2. queue' \in Seq(Replies) /\ Len(queue') = Len(queue) - ii
    BY <1>0, <2>1, LeftComesFromQueue
  <2>3. \A i \in DOMAIN queue' :
            queue'[i] = IF ii + i = Len(queue) THEN queue[ii + i] ELSE queue[ii + i + 1]
    BY <1>0, <2>1, LeftShape
  <2> HIDE DEF ii
  <2>4. \A i \in DOMAIN queue' : \E j \in DOMAIN queue : ii < j /\ queue'[i] = queue[j]
    <3> SUFFICES ASSUME NEW i \in DOMAIN queue'
                 PROVE  \E j \in DOMAIN queue : ii < j /\ queue'[i] = queue[j]
      OBVIOUS
    <3>1. i \in Nat /\ i >= 1 /\ i <= Len(queue) - ii
      BY <1>0, <1>1, <2>2
    <3>2. ii + i \in DOMAIN queue /\ ii < ii + i /\ ii < ii + i + 1
      BY <1>0, <1>1, <3>1
    <3>3. ii + i # Len(queue) => ii + i + 1 \in DOMAIN queue
      BY <1>0, <1>1, <3>1
    <3> QED BY <2>3, <3>2, <3>3
  <2>5. PqTypeOK'
    BY <1>0, <1>1, <1>2, <2>1, <2>2 DEF QueueInv, PqTypeOK
  <2>6. OnlyStored'
    <3>1. \A j \in DOMAIN queue : queue[j] <= stored
      BY DEF QueueInv, OnlyStored
    <3>2. QED
      BY <1>2, <2>1, <2>4, <3>1 DEF OnlyStored
  <2>7. InOrder'
    <3> SUFFICES ASSUME NEW i \in DOMAIN queue', NEW j \in DOMAIN queue', i < j
                 PROVE  queue'[i] <= queue'[j]
      BY DEF InOrder
    <3> DEFINE p == IF ii + i = Len(queue) THEN ii + i ELSE ii + i + 1
               q == IF ii + j = Len(queue) THEN ii + j ELSE ii + j + 1
    <3>1. p \in DOMAIN queue /\ q \in DOMAIN queue /\ p <= q
      BY <1>0, <1>1, <2>2
    <3>2. queue'[i] = queue[p] /\ queue'[j] = queue[q]
      BY <2>3
    <3> HIDE DEF p, q
    <3>3. CASE p = q
      <4>1. queue[p] \in Replies
        BY <1>0, <3>1
      <4>2. \A x \in Replies : x <= x
        BY QueueAssumption
      <4>3. QED
        BY <3>2, <3>3, <4>1, <4>2
    <3>4. CASE p # q
      <4>1. p < q
        BY <1>0, <3>1, <3>4
      <4>2. QED
        BY <3>1, <3>2, <4>1 DEF QueueInv, InOrder
    <3>5. QED
      BY <3>3, <3>4
  <2>8. NothingOvertaken'
    <3> SUFFICES ASSUME NEW i \in DOMAIN history', NEW j \in DOMAIN queue'
                 PROVE  history'[i] <= queue'[j]
      BY DEF NothingOvertaken
    <3>1. PICK k \in DOMAIN queue : ii < k /\ queue'[j] = queue[k]
      BY <2>4
    <3> DEFINE h == ii + 1 - i
    <3>2. h \in 1 .. ii /\ h \in DOMAIN queue /\ history'[i] = queue[h]
      BY <1>2
    <3> HIDE DEF h
    <3>3. h < k
      BY <1>0, <1>1, <3>1, <3>2
    <3>4. QED
      BY <3>1, <3>2, <3>3 DEF QueueInv, InOrder
  <2>9. NewestOnTop'
    <3> SUFFICES ASSUME NEW i \in DOMAIN history', NEW j \in DOMAIN history', i < j
                 PROVE  history'[j] <= history'[i]
      BY DEF NewestOnTop
    <3> DEFINE h == ii + 1 - i
               g == ii + 1 - j
    <3>1. /\ h \in DOMAIN queue /\ history'[i] = queue[h]
          /\ g \in DOMAIN queue /\ history'[j] = queue[g]
      BY <1>2
    <3>2. g < h
      BY <1>1, <1>2
    <3> HIDE DEF h, g
    <3>3. QED
      BY <3>1, <3>2 DEF QueueInv, InOrder
  <2>10. QED
    BY <2>5, <2>6, <2>7, <2>8, <2>9 DEF QueueInv
<1>5. QED
  BY <1>3, <1>4

\* The invariant holds in every reachable state.
LEMMA QueueInvInvariant == PqSpec => []QueueInv
<1>1. PqInit => QueueInv
  BY QueueAssumption DEF PqInit, QueueInv, PqTypeOK, OnlyStored, InOrder, NothingOvertaken, NewestOnTop
<1>2. QueueInv /\ [PqNext]_pqVars => QueueInv'
  <2>1. ASSUME QueueInv, UNCHANGED pqVars PROVE QueueInv'
    BY <2>1 DEF pqVars, QueueInv, PqTypeOK, OnlyStored, InOrder, NothingOvertaken, NewestOnTop
  <2>2. QED
    BY <2>1, StoreStep, FetchStep DEF PqNext
<1>3. QED
  BY <1>1, <1>2, PTL DEF PqSpec

\* Types: every reachable state has every variable in its set.
THEOREM QueueTypeCorrect == PqSpec => []PqTypeOK
<1>1. QueueInv => PqTypeOK
  BY DEF QueueInv
<1>2. QED
  BY <1>1, QueueInvInvariant, PTL

\* Replies wait in the order in which they came, although the slice is cut in
\* place; no reply that is queued is older than the history shown last, and the
\* history of one answer stands newest on top (main.go:632).
THEOREM StaysInOrder == PqSpec => []QueueOrder
<1>1. QueueInv => QueueOrder
  BY DEF QueueInv, QueueOrder
<1>2. QED
  BY <1>1, QueueInvInvariant, PTL

\* A fetch loses at most the reply at which the history overflowed.
THEOREM OnlyTheOverlongIsLost == PqSpec => LosesOnlyTheOverlong
<1> DEFINE Kept == \A i \in DOMAIN queue :
          \/ stored' # stored
          \/ \E j \in DOMAIN history' : history'[j] = queue[i]
          \/ \E j \in DOMAIN queue' : queue'[j] = queue[i]
          \/ /\ \A j \in 1 .. i - 1 : \E h \in DOMAIN history' : history'[h] = queue[j]
             /\ Used(queue, body')[i] > Limit
<1>1. ASSUME QueueInv, Store PROVE Kept
  BY <1>1 DEF Store, QueueInv, PqTypeOK
<1>2. ASSUME QueueInv, NEW cur \in BodySizes, Fetch(cur), NEW i \in DOMAIN queue
      PROVE  \/ \E j \in DOMAIN history' : history'[j] = queue[i]
             \/ \E j \in DOMAIN queue' : queue'[j] = queue[i]
             \/ /\ \A j \in 1 .. i - 1 : \E h \in DOMAIN history' : history'[h] = queue[j]
                /\ Used(queue, body')[i] > Limit
  <2>1. queue \in Seq(Replies)
    BY <1>2 DEF QueueInv, PqTypeOK
  <2>2. history' = Shown(queue, cur) /\ queue' = Left(queue, cur) /\ body' = cur
    BY <1>2, <2>1 DEF Fetch
  <2>3. CASE i # TakenCount(queue, cur) + 1
    BY <2>1, <2>2, <2>3, FetchLosesAtMostOne
  <2>4. CASE i = TakenCount(queue, cur) + 1
    <3>1. TakenCount(queue, cur) \in 0 .. Len(queue)
      BY <2>1, TakenCountType
    <3>2. Overflows(queue, cur) # {}
      BY <2>1, <2>4 DEF TakenCount
    <3>3. Overflows(queue, cur) \in SUBSET Nat
      BY DEF Overflows
    <3>4. Min(Overflows(queue, cur)) \in Overflows(queue, cur)
      BY <3>2, <3>3, MinExists
    <3>5. i = Min(Overflows(queue, cur))
      BY <2>4, <3>2, <3>3, <3>4 DEF TakenCount
    <3>6. Used(queue, cur)[i] > Limit
      BY <3>4, <3>5 DEF Overflows
    <3>7. \A j \in 1 .. i - 1 : \E h \in DOMAIN history' : history'[h] = queue[j]
      BY <2>1, <2>2, <2>4, <3>1, TakenIsShown
    <3>8. QED
      BY <2>2, <3>6, <3>7
  <2>5. QED
    BY <2>3, <2>4
<1>3. ASSUME QueueInv, NEW cur \in BodySizes, Fetch(cur) PROVE Kept
  BY <1>2, <1>3
<1>4. QueueInv /\ [PqNext]_pqVars => [Kept]_pqVars
  BY <1>1, <1>3 DEF PqNext
<1>5. QED
  BY <1>4, QueueInvInvariant, PTL DEF PqSpec, LosesOnlyTheOverlong

-----------------------------------------------------------------------------
(* Identifiers.  Reversible is not inductive in counting mode alone: it     *)
(* needs that StoreID has given out nothing above currentRow                *)
(* (CounterBounds).                                                         *)

\* The tables start empty.
LEMMA MapInit == IdInit => IdMapInv /\ PairResolvesBack
<1> SUFFICES ASSUME IdInit PROVE IdMapInv /\ PairResolvesBack
  OBVIOUS
<1>1. IdTypeOK
  BY DEF IdInit, IdTypeOK
<1>2. RoundTrip /\ CounterBounds /\ PairResolvesBack
  BY DEF IdInit, RoundTrip, Reversible, CounterBounds, PairResolvesBack
<1> QED BY <1>1, <1>2 DEF IdMapInv

\* A hashed number is a free one, so writing it takes it from nobody.
LEMMA StoreHashedKeeps ==
    ASSUME NEW i \in Ids, IdMapInv, StoreHashed(i) PROVE IdMapInv'
<1>1. PICK n \in Rows : /\ hashId /\ row[i] = None
                        /\ idOf[n] = None
                        /\ row' = [row EXCEPT ![i] = n]
                        /\ idOf' = [idOf EXCEPT ![n] = i]
                        /\ UNCHANGED <<hashId, counter, renumbered, idDouble>>
  BY DEF StoreHashed, FreeHash
<1>2. IdTypeOK'
  BY <1>1 DEF IdMapInv, IdTypeOK, idDouble
<1>3. Reversible'
  <2> SUFFICES ASSUME NEW j \in Ids, row'[j] # None PROVE idOf'[row'[j]] = j
    BY DEF Reversible
  <2>1. CASE j = i
    BY <1>1, <2>1 DEF IdMapInv, IdTypeOK
  <2>2. CASE j # i
    <3>1. row'[j] = row[j] /\ idOf[row[j]] = j /\ row[j] \in Rows
      BY <1>1, <2>2 DEF IdMapInv, IdTypeOK, RoundTrip, Reversible
    <3>2. row[j] # n
      BY <3>1, <1>1, IdMapAssumption
    <3> QED BY <1>1, <3>1, <3>2 DEF IdMapInv, IdTypeOK
  <2> QED BY <2>1, <2>2
<1> QED BY <1>1, <1>2, <1>3 DEF IdMapInv, RoundTrip, CounterBounds

\* Before anybody is renumbered, the next number is above all in use.
LEMMA StoreCountedKeeps ==
    ASSUME NEW i \in Ids, IdMapInv, StoreCounted(i) PROVE IdMapInv'
<1> DEFINE n == counter + 1
<1>1. /\ ~hashId /\ row[i] = None /\ n \in Rows
      /\ counter' = n
      /\ row' = [row EXCEPT ![i] = n]
      /\ idOf' = [idOf EXCEPT ![n] = i]
      /\ UNCHANGED <<hashId, renumbered, idDouble>>
  BY DEF StoreCounted
<1>2. IdTypeOK'
  BY <1>1 DEF IdMapInv, IdTypeOK, idDouble
<1>3. ASSUME ~renumbered, NEW j \in Ids, row'[j] # None
      PROVE idOf'[row'[j]] = j /\ row'[j] <= counter'
  <2>1. CASE j = i
    BY <1>1, <2>1, IdMapAssumption DEF IdMapInv, IdTypeOK
  <2>2. CASE j # i
    <3>1. row'[j] = row[j] /\ idOf[row[j]] = j /\ row[j] <= counter /\ row[j] \in Rows
      BY <1>1, <1>3, <2>2 DEF IdMapInv, IdTypeOK, RoundTrip, Reversible, CounterBounds
    <3>2. row[j] \in Nat /\ counter \in Nat
      BY <3>1, IdMapAssumption DEF IdMapInv, IdTypeOK
    <3>3. row[j] # n /\ row[j] <= n
      BY <3>1, <3>2
    <3> QED BY <1>1, <3>1, <3>3 DEF IdMapInv, IdTypeOK
  <2> QED BY <2>1, <2>2
<1> QED BY <1>1, <1>2, <1>3 DEF IdMapInv, RoundTrip, Reversible, CounterBounds

\* Only the reverse entry is written, of a number nobody has.
LEMMA SimplifiedKeeps ==
    ASSUME NEW i \in Ids, IdMapInv, SimplifiedStoreID(i) PROVE IdMapInv'
<1>1. PICK n \in Rows : /\ idOf[n] = None
                        /\ idOf' = [idOf EXCEPT ![n] = i]
                        /\ UNCHANGED <<hashId, row, counter, renumbered, idDouble>>
  BY DEF SimplifiedStoreID, FreeHash
<1>2. IdTypeOK'
  BY <1>1 DEF IdMapInv, IdTypeOK, idDouble
<1>3. Reversible => Reversible'
  BY <1>1, IdMapAssumption DEF IdMapInv, IdTypeOK, Reversible
<1> QED BY <1>1, <1>2, <1>3 DEF IdMapInv, RoundTrip, CounterBounds

\* The id of the old number moves to a free one.
LEMMA UpdateKeeps ==
    ASSUME NEW o \in Rows, NEW n \in Rows, IdMapInv, UpdateVirtualValue(o, n)
    PROVE IdMapInv'
<1>1. /\ idOf[o] \in Ids /\ idOf[n] = None /\ o # n
      /\ row' = [row EXCEPT ![idOf[o]] = n]
      /\ idOf' = [idOf EXCEPT ![o] = None, ![n] = idOf[o]]
      /\ renumbered' = TRUE
      /\ UNCHANGED <<hashId, counter, idDouble>>
  BY DEF UpdateVirtualValue, IdMapInv, IdTypeOK
<1>2. IdTypeOK'
  BY <1>1 DEF IdMapInv, IdTypeOK, idDouble
<1>3. ASSUME hashId PROVE Reversible'
  <2> SUFFICES ASSUME NEW j \in Ids, row'[j] # None PROVE idOf'[row'[j]] = j
    BY DEF Reversible
  <2>1. CASE j = idOf[o]
    BY <1>1, <2>1 DEF IdMapInv, IdTypeOK
  <2>2. CASE j # idOf[o]
    <3>1. row'[j] = row[j] /\ idOf[row[j]] = j /\ row[j] \in Rows
      BY <1>1, <1>3, <2>2 DEF IdMapInv, IdTypeOK, RoundTrip, Reversible
    <3>2. row[j] # o /\ row[j] # n
      BY <3>1, <2>2, <1>1, IdMapAssumption
    <3> QED BY <1>1, <3>1, <3>2 DEF IdMapInv, IdTypeOK
  <2> QED BY <2>1, <2>2
<1> QED BY <1>1, <1>2, <1>3 DEF IdMapInv, RoundTrip, CounterBounds

\* The pair table is a matter of its own.
LEMMA PairsKeep ==
    ASSUME IdMapInv,
           \/ \E p \in Pairs : StoreIDPro(p)
           \/ \E o, n \in RowPairs : UpdateVirtualValuePro(o, n)
    PROVE IdMapInv'
<1>1. UNCHANGED <<hashId, idSimple>>
  BY DEF StoreIDPro, UpdateVirtualValuePro
<1>2. ASSUME NEW p \in Pairs, StoreIDPro(p) PROVE IdTypeOK'
  BY <1>2, IdMapAssumption DEF StoreIDPro, IdMapInv, IdTypeOK, idSimple
<1>3. ASSUME NEW o \in RowPairs, NEW n \in RowPairs, UpdateVirtualValuePro(o, n)
      PROVE IdTypeOK'
  BY <1>3, IdMapAssumption DEF UpdateVirtualValuePro, IdMapInv, IdTypeOK, idSimple
<1>4. RoundTrip' /\ CounterBounds'
  BY <1>1 DEF IdMapInv, RoundTrip, Reversible, CounterBounds, idSimple
<1> QED BY <1>2, <1>3, <1>4 DEF IdMapInv

\* Every operation keeps the invariant.
LEMMA MapStep == IdMapInv /\ [IdNext]_idVars => IdMapInv'
<1> SUFFICES ASSUME IdMapInv, [IdNext]_idVars PROVE IdMapInv'
  OBVIOUS
<1>1. CASE \E i \in Ids : StoreHashed(i) \/ StoreCounted(i) \/ SimplifiedStoreID(i)
  BY <1>1, StoreHashedKeeps, StoreCountedKeeps, SimplifiedKeeps
<1>2. CASE \E o, n \in Rows : UpdateVirtualValue(o, n)
  BY <1>2, UpdateKeeps
<1>3. CASE \/ \E p \in Pairs : StoreIDPro(p)
           \/ \E o, n \in RowPairs : UpdateVirtualValuePro(o, n)
  BY <1>3, PairsKeep
<1>4. CASE UNCHANGED idVars
  BY <1>4 DEF IdMapInv, IdTypeOK, RoundTrip, Reversible, CounterBounds, idVars, idSimple, idDouble
<1> QED BY <1>1, <1>2, <1>3, <1>4 DEF IdNext

\* The tables keep their types, for any ids, numbers and hash functions.
THEOREM MapTypeCorrect == IdSpec => []IdTypeOK
<1>1. IdMapInv => IdTypeOK
  BY DEF IdMapInv
<1> QED BY <1>1, MapInit, MapStep, PTL DEF IdSpec

\* A user's number leads back to the user: with hashed numbers always, with
\* counted ones until an operator has changed a number.
THEOREM NumbersLeadBack == IdSpec => []RoundTrip
<1>1. IdMapInv => RoundTrip
  BY DEF IdMapInv
<1> QED BY <1>1, MapInit, MapStep, PTL DEF IdSpec

\* With hashed numbers no operation makes a number in use mean another id.
THEOREM NumberIsKept == IdSpec => NumberKeepsItsId
<1> DEFINE Kept == hashId => \A n \in Rows : idOf[n] # None => idOf'[n] \in {idOf[n], None}
<1>1. IdMapInv /\ [IdNext]_idVars => [Kept]_idVars
  <2> SUFFICES ASSUME IdMapInv, IdNext, hashId, NEW m \in Rows, idOf[m] # None
               PROVE idOf'[m] \in {idOf[m], None}
    BY DEF Kept
  <2>1. CASE \E i \in Ids : StoreHashed(i) \/ SimplifiedStoreID(i)
    <3>1. PICK i \in Ids, n \in Rows : idOf[n] = None /\ idOf' = [idOf EXCEPT ![n] = i]
      BY <2>1 DEF StoreHashed, SimplifiedStoreID, FreeHash
    <3> QED BY <3>1 DEF IdMapInv, IdTypeOK
  <2>2. CASE \E i \in Ids : StoreCounted(i)
    BY <2>2 DEF StoreCounted
  <2>3. CASE \E o, n \in Rows : UpdateVirtualValue(o, n)
    <3>1. PICK o \in Rows, n \in Rows :
              idOf[n] = None /\ idOf' = [idOf EXCEPT ![o] = None, ![n] = idOf[o]]
      BY <2>3 DEF UpdateVirtualValue
    <3> QED BY <3>1 DEF IdMapInv, IdTypeOK
  <2>4. CASE \/ \E p \in Pairs : StoreIDPro(p)
             \/ \E o, n \in RowPairs : UpdateVirtualValuePro(o, n)
    BY <2>4 DEF StoreIDPro, UpdateVirtualValuePro, idSimple
  <2> QED BY <2>1, <2>2, <2>3, <2>4 DEF IdNext
<1> QED BY <1>1, MapInit, MapStep, PTL DEF IdSpec, NumberKeepsItsId

\* Every operation keeps the pair entries matched.
LEMMA PairStep == IdMapInv /\ PairResolvesBack /\ [IdNext]_idVars => PairResolvesBack'
<1> SUFFICES ASSUME IdMapInv, PairResolvesBack, [IdNext]_idVars,
                    NEW r \in RowPairs, pairOf'[r] # None
             PROVE rowPair'[pairOf'[r]] = r
  BY DEF PairResolvesBack
<1>1. CASE \E p \in Pairs : StoreIDPro(p)
  <2>1. PICK p \in Pairs : StoreIDPro(p)
    BY <1>1
  <2> DEFINE q == <<Hash9[p[1]], Hash9[p[2]]>>
  <2>2. /\ q \in RowPairs /\ rowPair[p] = None
        /\ rowPair' = [rowPair EXCEPT ![p] = q]
        /\ pairOf' = [pairOf EXCEPT ![q] = p]
    BY <2>1, IdMapAssumption DEF StoreIDPro
  <2>3. CASE r = q
    BY <2>2, <2>3 DEF IdMapInv, IdTypeOK
  <2>4. CASE r # q
    <3>1. pairOf'[r] = pairOf[r] /\ rowPair[pairOf[r]] = r /\ pairOf[r] \in Pairs
      BY <2>2, <2>4 DEF IdMapInv, IdTypeOK, PairResolvesBack
    <3>2. pairOf[r] # p
      BY <3>1, <2>2, IdMapAssumption
    <3> QED BY <2>2, <3>1, <3>2 DEF IdMapInv, IdTypeOK
  <2> QED BY <2>3, <2>4
<1>2. CASE \E o, n \in RowPairs : UpdateVirtualValuePro(o, n)
  <2>1. PICK o \in RowPairs, n \in RowPairs : UpdateVirtualValuePro(o, n)
    BY <1>2
  <2>2. /\ pairOf[o] \in Pairs /\ pairOf[n] = None /\ o # n
        /\ rowPair' = [rowPair EXCEPT ![pairOf[o]] = n]
        /\ pairOf' = [pairOf EXCEPT ![o] = None, ![n] = pairOf[o]]
    BY <2>1 DEF UpdateVirtualValuePro, IdMapInv, IdTypeOK
  <2>3. CASE r = n
    BY <2>2, <2>3 DEF IdMapInv, IdTypeOK
  <2>4. CASE r # n
    <3>1. r # o
      BY <2>2, <2>4 DEF IdMapInv, IdTypeOK
    <3>2. pairOf'[r] = pairOf[r] /\ rowPair[pairOf[r]] = r /\ pairOf[r] \in Pairs
      BY <2>2, <2>4, <3>1 DEF IdMapInv, IdTypeOK, PairResolvesBack
    <3>3. pairOf[r] # pairOf[o]
      BY <3>1, <3>2, <2>2 DEF PairResolvesBack
    <3> QED BY <2>2, <3>2, <3>3 DEF IdMapInv, IdTypeOK
  <2> QED BY <2>3, <2>4
<1>3. CASE UNCHANGED idDouble
  BY <1>3 DEF PairResolvesBack, idDouble
<1> QED BY <1>1, <1>2, <1>3 DEF IdNext, StoreHashed, StoreCounted, SimplifiedStoreID,
                                UpdateVirtualValue, idVars

\* A pair of numbers that resolves to a pair of ids is that pair's own number,
\* although StoreIDPro overwrites entries without looking.
THEOREM PairsLeadBack == IdSpec => []PairResolvesBack
BY MapInit, MapStep, PairStep, PTL DEF IdSpec

-----------------------------------------------------------------------------
(* Lotus mode: the tables at the server, and what other processes were told *)
(* of them.                                                                 *)

\* What the number n says that was answered to request r.
LotMeans(r, n) ==
    /\ r[1] = 1 => row[r[2]] = n /\ idOf[n] = r[2]
    /\ r[1] = 13 => ~hashId \/ idOf[n] = r[2]

\* The same, of the tables after the step.
LotWillMean(r, n) ==
    /\ r[1] = 1 => row'[r[2]] = n /\ idOf'[n] = r[2]
    /\ r[1] = 13 => ~hashId' \/ idOf'[n] = r[2]

\* The answer to a request for a number: one, or a pair of them.
LotNumber(r, n) == IF r[1] = 8 THEN n \in RowPairs ELSE n \in Rows

LotAnswered(c) == /\ lotCall[c] = "answered" /\ lotAnswer[c] # LotError
                  /\ lotReq[c] \in LotStores \cup LotHalves

\* An answer on its way is a number that still means what was asked.
LotSound(c) ==
    LotAnswered(c) => /\ LotNumber(lotReq[c], lotAnswer[c])
                      /\ ~renumbered => LotMeans(lotReq[c], lotAnswer[c])

OnItsWay == \A c \in LotCallers : LotSound(c)

WasGiven == \A g \in lotGiven :
    /\ g[1] \in LotStores \cup LotHalves
    /\ LotNumber(g[1], g[2])
    /\ ~renumbered => LotMeans(g[1], g[2])

LotShape == /\ lotMix \in LotMixes
            /\ lotCall \in [LotCallers -> {"idle", "asked", "answered"}]
            /\ DOMAIN lotReq = LotCallers /\ DOMAIN lotAnswer = LotCallers
            /\ \A c \in LotCallers : lotReq[c] \in lotMix \cup {None}
            /\ lotConfig \in LotValues \cup {None}

LotInv == IdMapInv /\ LotShape /\ OnItsWay /\ WasGiven

\* What can be asked for numbers.
LEMMA LotRequests ==
    ASSUME NEW r \in LotStores \cup LotHalves
    PROVE  \/ r[1] = 1 /\ r[2] \in Ids /\ r = <<1, r[2]>>
           \/ r[1] = 8 /\ r[2] \in Pairs /\ r = <<8, r[2]>>
           \/ r[1] = 13 /\ r[2] \in Ids /\ r = <<13, r[2]>>
BY DEF LotStores, LotHalves

\* Before anybody is renumbered, no operation takes a number away.
LEMMA NumbersStay ==
    ASSUME IdMapInv, IdMapInv', [IdNext]_idVars, ~renumbered',
           NEW i \in Ids, NEW n \in Rows
    PROVE  /\ hashId' = hashId /\ ~renumbered
           /\ row[i] = n => row'[i] = n /\ idOf'[n] = i
           /\ hashId /\ idOf[n] = i => idOf'[n] = i
<1>1. CASE \E j \in Ids : StoreHashed(j)
  <2>1. PICK j \in Ids, m \in Rows :
            /\ hashId /\ row[j] = None /\ idOf[m] = None
            /\ row' = [row EXCEPT ![j] = m]
            /\ idOf' = [idOf EXCEPT ![m] = j]
            /\ UNCHANGED <<hashId, counter, renumbered, idDouble>>
    BY <1>1 DEF StoreHashed, FreeHash
  <2> QED BY <2>1, IdMapAssumption DEF IdMapInv, IdTypeOK, RoundTrip, Reversible
<1>2. CASE \E j \in Ids : StoreCounted(j)
  <2>1. PICK j \in Ids :
            /\ ~hashId /\ row[j] = None
            /\ row' = [row EXCEPT ![j] = counter + 1]
            /\ UNCHANGED <<hashId, renumbered, idDouble>>
    BY <1>2 DEF StoreCounted
  <2> QED BY <2>1, IdMapAssumption DEF IdMapInv, IdTypeOK, RoundTrip, Reversible
<1>3. CASE \E j \in Ids : SimplifiedStoreID(j)
  <2>1. PICK j \in Ids, m \in Rows :
            /\ idOf[m] = None
            /\ idOf' = [idOf EXCEPT ![m] = j]
            /\ UNCHANGED <<hashId, row, counter, renumbered, idDouble>>
    BY <1>3 DEF SimplifiedStoreID, FreeHash
  <2> QED BY <2>1, IdMapAssumption DEF IdMapInv, IdTypeOK, RoundTrip, Reversible
<1>4. CASE \E o, m \in Rows : UpdateVirtualValue(o, m)
  BY <1>4 DEF UpdateVirtualValue
<1>5. CASE UNCHANGED <<hashId, idSimple>>
  BY <1>5, IdMapAssumption DEF IdMapInv, IdTypeOK, RoundTrip, Reversible, idSimple
<1> QED BY <1>1, <1>2, <1>3, <1>4, <1>5 DEF IdNext, StoreIDPro, UpdateVirtualValuePro, idVars

\* So what a number says stays true.
LEMMA MeansStays ==
    ASSUME IdMapInv, IdMapInv', [IdNext]_idVars, ~renumbered',
           NEW r \in LotStores \cup LotHalves, NEW n, LotNumber(r, n),
           ~renumbered => LotMeans(r, n)
    PROVE  LotMeans(r, n)'
<1>1. CASE r[1] = 8
  BY <1>1 DEF LotMeans
<1>2. CASE r[1] # 8
  <2>1. r[2] \in Ids /\ n \in Rows
    BY <1>2, LotRequests DEF LotNumber
  <2>2. ~renumbered /\ LotMeans(r, n)
    BY <2>1, NumbersStay
  <2> QED BY <2>1, <2>2, NumbersStay DEF LotMeans
<1> QED BY <1>1, <1>2

\* The tables at the server take the steps of IdMap, one request at a time.
LEMMA LotusSteps == [LotNext]_lotVars => [IdNext]_idVars
<1> SUFFICES ASSUME LotNext PROVE [IdNext]_idVars
  BY DEF lotVars
<1>1. PICK c \in LotCallers :
          \/ LotAsk(c) \/ LotLose(c) \/ LotAgain(c) \/ LotTake(c) \/ LotRead(c)
          \/ \E i \in Ids : LotStore(c, i) \/ LotStoreHalf(c, i)
          \/ \E p \in Pairs : LotStorePair(c, p)
          \/ \E o, n \in Rows : LotUpdate(c, o, n)
          \/ \E o, n \in RowPairs : LotUpdatePair(c, o, n)
          \/ \E v \in LotValues : LotWriteConfig(c, v)
  BY DEF LotNext
<1>2. CASE \/ LotAsk(c) \/ LotLose(c) \/ LotAgain(c) \/ LotTake(c) \/ LotRead(c)
           \/ \E v \in LotValues : LotWriteConfig(c, v)
  BY <1>2 DEF LotAsk, LotLose, LotAgain, LotTake, LotRead, LotWriteConfig
<1>3. CASE \E i \in Ids : LotStore(c, i) \/ LotStoreHalf(c, i)
  BY <1>3 DEF LotStore, LotStoreHalf, IdNext
<1>4. CASE \E p \in Pairs : LotStorePair(c, p)
  BY <1>4 DEF LotStorePair, IdNext
<1>5. CASE \E o, n \in Rows : LotUpdate(c, o, n)
  BY <1>5 DEF LotUpdate, IdNext
<1>6. CASE \E o, n \in RowPairs : LotUpdatePair(c, o, n)
  BY <1>6 DEF LotUpdatePair, IdNext
<1> QED BY <1>1, <1>2, <1>3, <1>4, <1>5, <1>6

\* A step at one caller's request makes no difference to those of the others.
LEMMA OthersStay ==
    ASSUME LotInv, IdMapInv', [IdNext]_idVars, NEW c \in LotCallers,
           LotShape', LotSound(c)', WasGiven',
           \A d \in LotCallers \ {c} : /\ lotCall'[d] = lotCall[d] /\ lotReq'[d] = lotReq[d]
                                       /\ lotAnswer'[d] = lotAnswer[d]
    PROVE  LotInv'
<1> SUFFICES ASSUME NEW d \in LotCallers, d # c, LotAnswered(d)'
             PROVE  LotSound(d)'
  BY DEF LotInv, OnItsWay, LotSound
<1>1. LotAnswered(d) /\ lotReq'[d] = lotReq[d] /\ lotAnswer'[d] = lotAnswer[d]
  BY DEF LotAnswered, LotStores, LotHalves
<1>2. /\ lotReq[d] \in LotStores \cup LotHalves /\ LotNumber(lotReq[d], lotAnswer[d])
      /\ ~renumbered => LotMeans(lotReq[d], lotAnswer[d])
  BY <1>1 DEF LotInv, OnItsWay, LotSound, LotAnswered
<1> DEFINE r == lotReq[d]
           n == lotAnswer[d]
<1>3. ASSUME ~renumbered' PROVE /\ r[1] = 1 => row'[r[2]] = n /\ idOf'[n] = r[2]
                                /\ r[1] = 13 => ~hashId' \/ idOf'[n] = r[2]
  BY <1>3, <1>2, MeansStays DEF LotInv, LotMeans
<1> QED BY <1>1, <1>2, <1>3 DEF LotSound, LotMeans, LotNumber

\* Numbers that were given out keep their meaning.
LEMMA GivenStay ==
    ASSUME LotInv, IdMapInv', [IdNext]_idVars, UNCHANGED lotGiven PROVE WasGiven'
<1> SUFFICES ASSUME NEW g \in lotGiven
             PROVE  /\ g[1] \in LotStores \cup LotHalves
                    /\ LotNumber(g[1], g[2])
                    /\ ~renumbered' => LotMeans(g[1], g[2])'
  BY DEF WasGiven, LotStores, LotHalves, LotNumber
<1>1. /\ g[1] \in LotStores \cup LotHalves /\ LotNumber(g[1], g[2])
      /\ ~renumbered => LotMeans(g[1], g[2])
  BY DEF LotInv, WasGiven
<1> QED BY <1>1, MeansStays DEF LotInv

\* The server answers request r of c with v.
LEMMA ReplyKeeps ==
    ASSUME LotInv, IdMapInv', [IdNext]_idVars, NEW c \in LotCallers, NEW v,
           LotReply(c, v), lotConfig' \in LotValues \cup {None},
           /\ v # LotError /\ lotReq[c] \in LotStores \cup LotHalves
           => /\ LotNumber(lotReq[c], v)
              /\ ~renumbered' => LotWillMean(lotReq[c], v)
    PROVE  LotInv'
<1>1. /\ lotCall[c] = "asked" /\ lotCall' = [lotCall EXCEPT ![c] = "answered"]
      /\ lotAnswer' = [lotAnswer EXCEPT ![c] = v] /\ lotAnswer'[c] = v
      /\ lotMix' = lotMix /\ lotReq' = lotReq /\ lotGiven' = lotGiven
  BY DEF LotReply, LotInv, LotShape
<1>2. LotShape'
  BY <1>1 DEF LotInv, LotShape
<1>3. ASSUME LotAnswered(c)' PROVE LotSound(c)'
  <2>1. v # LotError /\ lotReq[c] \in LotStores \cup LotHalves
    BY <1>1, <1>3 DEF LotAnswered, LotStores, LotHalves
  <2>2. LotNumber(lotReq[c], v) /\ (~renumbered' => LotWillMean(lotReq[c], v))
    BY <2>1
  <2> QED BY <2>2, <1>1 DEF LotSound, LotNumber, LotMeans, LotWillMean
<1>4. \A d \in LotCallers \ {c} : /\ lotCall'[d] = lotCall[d] /\ lotReq'[d] = lotReq[d]
                                  /\ lotAnswer'[d] = lotAnswer[d]
  BY <1>1 DEF LotInv, LotShape
<1>5. WasGiven'
  BY <1>1, GivenStay
<1> QED BY <1>2, <1>3, <1>4, <1>5, OthersStay DEF LotSound

\* What callers do by themselves: ask, lose, ask again.
LEMMA CallersKeep ==
    ASSUME LotInv, NEW c \in LotCallers, LotAsk(c) \/ LotLose(c) \/ LotAgain(c)
    PROVE  LotInv'
<1>1. IdMapInv' /\ [IdNext]_idVars /\ UNCHANGED idVars
  BY MapStep DEF LotInv, LotAsk, LotLose, LotAgain
<1>2. /\ lotMix' = lotMix /\ lotConfig' = lotConfig /\ lotGiven' = lotGiven
      /\ lotCall' \in [LotCallers -> {"idle", "asked", "answered"}]
      /\ DOMAIN lotReq' = LotCallers /\ DOMAIN lotAnswer' = LotCallers
      /\ lotCall'[c] # "answered"
      /\ lotReq'[c] \in lotMix \cup {None}
      /\ \A d \in LotCallers \ {c} : /\ lotCall'[d] = lotCall[d] /\ lotReq'[d] = lotReq[d]
                                     /\ lotAnswer'[d] = lotAnswer[d]
  BY DEF LotInv, LotShape, LotAsk, LotLose, LotAgain, LotOver
<1>3. LotShape'
  BY <1>2 DEF LotInv, LotShape
<1>4. LotSound(c)'
  BY <1>2 DEF LotSound, LotAnswered
<1>5. WasGiven'
  BY <1>1, <1>2, GivenStay
<1> QED BY <1>1, <1>2, <1>3, <1>4, <1>5, OthersStay

\* A caller takes a number.
LEMMA TakeKeeps == ASSUME LotInv, NEW c \in LotCallers, LotTake(c) PROVE LotInv'
<1>1. IdMapInv' /\ [IdNext]_idVars /\ UNCHANGED idVars
  BY MapStep DEF LotInv, LotTake
<1>2. /\ lotMix' = lotMix /\ lotConfig' = lotConfig
      /\ lotCall' \in [LotCallers -> {"idle", "asked", "answered"}]
      /\ DOMAIN lotReq' = LotCallers /\ DOMAIN lotAnswer' = LotCallers
      /\ lotCall'[c] # "answered"
      /\ lotReq'[c] \in lotMix \cup {None}
      /\ \A d \in LotCallers \ {c} : /\ lotCall'[d] = lotCall[d] /\ lotReq'[d] = lotReq[d]
                                     /\ lotAnswer'[d] = lotAnswer[d]
  BY DEF LotInv, LotShape, LotTake, LotOver
<1>3. LotShape'
  BY <1>2 DEF LotInv, LotShape
<1>4. LotSound(c)'
  BY <1>2 DEF LotSound, LotAnswered
<1>5. WasGiven'
  <2> SUFFICES ASSUME NEW g \in lotGiven'
               PROVE  /\ g[1] \in LotStores \cup LotHalves
                      /\ LotNumber(g[1], g[2])
                      /\ ~renumbered => LotMeans(g[1], g[2])
    BY <1>1 DEF WasGiven, LotStores, LotHalves, LotNumber, LotMeans, idVars, idSimple
  <2>1. CASE g \in lotGiven
    BY <2>1 DEF LotInv, WasGiven
  <2>2. CASE g \notin lotGiven
    <3>1. LotAnswered(c) /\ g = <<lotReq[c], lotAnswer[c]>>
      BY <2>2 DEF LotTake, LotAnswered
    <3>2. g[1] = lotReq[c] /\ g[2] = lotAnswer[c]
      BY <3>1
    <3> QED BY <3>1, <3>2 DEF LotInv, OnItsWay, LotSound, LotAnswered
  <2> QED BY <2>1, <2>2
<1> QED BY <1>1, <1>2, <1>3, <1>4, <1>5, OthersStay

\* The operations of the server that are not asked for a number.
LEMMA OtherRepliesKeep ==
    ASSUME LotInv, IdMapInv', [IdNext]_idVars, NEW c \in LotCallers,
           \/ LotRead(c)
           \/ \E o, n \in Rows : LotUpdate(c, o, n)
           \/ \E o, n \in RowPairs : LotUpdatePair(c, o, n)
           \/ \E v \in LotValues : LotWriteConfig(c, v)
    PROVE  LotInv'
<1>1. lotReq[c] \notin LotStores \cup LotHalves
  <2> SUFFICES ASSUME lotReq[c] \in LotStores \cup LotHalves PROVE FALSE
    OBVIOUS
  <2>1. lotReq[c][1] \in {1, 8, 13}
    BY LotRequests
  <2>2. CASE LotRead(c)
    <3>1. lotReq[c][1] \in {2, 4, 6, 7, 9, 11, 14}
      BY <2>2 DEF LotRead
    <3> QED BY <2>1, <3>1
  <2>3. CASE \E o, n \in Rows : LotUpdate(c, o, n)
    BY <2>1, <2>3 DEF LotUpdate
  <2>4. CASE \E o, n \in RowPairs : LotUpdatePair(c, o, n)
    BY <2>1, <2>4 DEF LotUpdatePair
  <2>5. CASE \E v \in LotValues : LotWriteConfig(c, v)
    BY <2>1, <2>5 DEF LotWriteConfig
  <2> QED BY <2>2, <2>3, <2>4, <2>5
<1>2. PICK v : LotReply(c, v)
  BY DEF LotRead, LotUpdate, LotUpdatePair, LotWriteConfig
<1>3. lotConfig' \in LotValues \cup {None}
  BY DEF LotInv, LotShape, LotRead, LotUpdate, LotUpdatePair, LotWriteConfig
<1> QED BY <1>1, <1>2, <1>3, ReplyKeeps

\* A number is stored, or was.
LEMMA StoreKeeps ==
    ASSUME LotInv, IdMapInv', [IdNext]_idVars, NEW c \in LotCallers,
           NEW i \in Ids, LotStore(c, i)
    PROVE  LotInv'
<1>1. lotReq[c] = <<1, i>> /\ lotReq[c][1] = 1 /\ lotReq[c][2] = i
  BY DEF LotStore
<1>2. lotConfig' \in LotValues \cup {None}
  BY DEF LotInv, LotShape, LotStore
<1>3. CASE LotReply(c, LotError)
  BY <1>2, <1>3, ReplyKeeps
<1>4. CASE row'[i] # None /\ LotReply(c, row'[i])
  <2>1. row'[i] \in Rows /\ (~renumbered' => idOf'[row'[i]] = i)
    BY <1>4 DEF IdMapInv, IdTypeOK, RoundTrip, Reversible
  <2>2. LotNumber(lotReq[c], row'[i]) /\ (~renumbered' => LotWillMean(lotReq[c], row'[i]))
    BY <1>1, <2>1 DEF LotNumber, LotWillMean
  <2> QED BY <1>2, <1>4, <2>2, ReplyKeeps
<1>5. \/ LotReply(c, LotError)
      \/ row'[i] # None /\ LotReply(c, row'[i])
  <2>1. CASE row[i] # None /\ LotReply(c, row[i]) /\ UNCHANGED idVars
    BY <2>1 DEF idVars, idSimple
  <2>2. CASE (StoreHashed(i) \/ StoreCounted(i)) /\ LotReply(c, row'[i])
    <3>1. row'[i] \in Rows
      BY <2>2 DEF StoreHashed, StoreCounted, LotInv, IdMapInv, IdTypeOK
    <3> QED BY <2>2, <3>1, IdMapAssumption
  <2> QED BY <2>1, <2>2 DEF LotStore
<1> QED BY <1>3, <1>4, <1>5

\* A pair of numbers is.
LEMMA StorePairKeeps ==
    ASSUME LotInv, IdMapInv', [IdNext]_idVars, NEW c \in LotCallers,
           NEW p \in Pairs, LotStorePair(c, p)
    PROVE  LotInv'
<1>1. lotReq[c] = <<8, p>> /\ lotReq[c][1] = 8 /\ lotReq[c][2] = p
  BY DEF LotStorePair
<1>2. lotConfig' \in LotValues \cup {None}
  BY DEF LotInv, LotShape, LotStorePair
<1>3. \/ LotReply(c, LotError)
      \/ rowPair'[p] \in RowPairs /\ LotReply(c, rowPair'[p])
  <2>1. CASE rowPair[p] # None /\ LotReply(c, rowPair[p]) /\ UNCHANGED idVars
    BY <2>1 DEF LotInv, IdMapInv, IdTypeOK, idVars, idDouble
  <2>2. CASE StoreIDPro(p) /\ LotReply(c, rowPair'[p])
    BY <2>2, IdMapAssumption DEF StoreIDPro, LotInv, IdMapInv, IdTypeOK
  <2> QED BY <2>1, <2>2 DEF LotStorePair
<1>4. CASE LotReply(c, LotError)
  BY <1>2, <1>4, ReplyKeeps
<1>5. CASE rowPair'[p] \in RowPairs /\ LotReply(c, rowPair'[p])
  <2>1. LotNumber(lotReq[c], rowPair'[p]) /\ LotWillMean(lotReq[c], rowPair'[p])
    BY <1>1, <1>5 DEF LotNumber, LotWillMean
  <2> QED BY <1>2, <1>5, <2>1, ReplyKeeps
<1> QED BY <1>3, <1>4, <1>5

\* Half an id gets a number each time.
LEMMA StoreHalfKeeps ==
    ASSUME LotInv, IdMapInv', [IdNext]_idVars, NEW c \in LotCallers,
           NEW i \in Ids, LotStoreHalf(c, i)
    PROVE  LotInv'
<1> DEFINE n == CHOOSE m \in Rows : idOf[m] = None /\ idOf'[m] = i
<1>1. lotReq[c] = <<13, i>> /\ lotReq[c][1] = 13 /\ lotReq[c][2] = i
  BY DEF LotStoreHalf
<1>2. lotConfig' \in LotValues \cup {None}
  BY DEF LotInv, LotShape, LotStoreHalf
<1>3. CASE LotReply(c, LotError)
  BY <1>2, <1>3, ReplyKeeps
<1>4. CASE SimplifiedStoreID(i) /\ LotReply(c, n)
  <2>1. \E m \in Rows : idOf[m] = None /\ idOf'[m] = i
    BY <1>4 DEF SimplifiedStoreID, FreeHash, LotInv, IdMapInv, IdTypeOK
  <2>2. n \in Rows /\ idOf'[n] = i
    BY <2>1
  <2> HIDE DEF n
  <2>3. LotNumber(lotReq[c], n) /\ LotWillMean(lotReq[c], n)
    BY <1>1, <2>2 DEF LotNumber, LotWillMean
  <2> QED BY <1>2, <1>4, <2>3, ReplyKeeps
<1> QED BY <1>3, <1>4 DEF LotStoreHalf

\* Nothing is stored, nothing was asked.
LEMMA LotInvInit == LotInit => LotInv
BY MapInit DEF LotInit, LotInv, LotShape, OnItsWay, LotSound, LotAnswered, WasGiven

\* Every step keeps the invariant.
LEMMA LotInvNext == LotInv /\ [LotNext]_lotVars => LotInv'
<1> SUFFICES ASSUME LotInv, [LotNext]_lotVars PROVE LotInv'
  OBVIOUS
<1>1. [IdNext]_idVars /\ IdMapInv'
  BY LotusSteps, MapStep DEF LotInv
<1>2. CASE UNCHANGED lotVars
  <2>1. LotShape'
    BY <1>2 DEF LotInv, LotShape, lotVars, lotOwn
  <2>2. OnItsWay'
    BY <1>2 DEF LotInv, OnItsWay, LotSound, LotAnswered, LotNumber, LotMeans, LotStores,
                LotHalves, lotVars, lotOwn, idVars, idSimple
  <2>3. WasGiven'
    BY <1>1, <1>2, GivenStay DEF lotVars, lotOwn
  <2> QED BY <1>1, <2>1, <2>2, <2>3 DEF LotInv
<1>3. CASE LotNext
  BY <1>1, <1>3, CallersKeep, TakeKeeps, OtherRepliesKeep, StoreKeeps, StorePairKeeps,
     StoreHalfKeeps DEF LotNext
<1> QED BY <1>2, <1>3

\* The invariant says what the requests and answers are ...
LEMMA LotInvTypes == LotInv => LotTypeOK
BY LotRequests DEF LotInv, LotShape, LotTypeOK, WasGiven, LotNumber

\* ... and that the numbers hold.
LEMMA LotInvMeans == LotInv => GivenNumbersHold
BY DEF LotInv, WasGiven, LotMeans, GivenNumbersHold

\* The server of the lotus mode runs idmap, whatever is asked of it, by how many
\* processes and however often: so what holds of IdMap holds there.
THEOREM LotusIsIdMap == LotSpec => IdSpec
<1>1. LotInit => IdInit
  BY DEF LotInit
<1> QED BY <1>1, LotusSteps, PTL DEF LotSpec, IdSpec

\* A number a process was given in lotus mode leads back to its id as long as
\* nobody is renumbered, for any processes, requests, losses and repetitions.
THEOREM GivenNumbersStay == LotSpec => []GivenNumbersHold
BY LotInvInit, LotInvNext, LotInvMeans, PTL DEF LotSpec

\* What lotus mode stores and answers has its type.
THEOREM LotusTypeCorrect == LotSpec => []LotTypeOK
BY LotInvInit, LotInvNext, LotInvTypes, PTL DEF LotSpec

-----------------------------------------------------------------------------
(* The configuration file: completing it and starting again.                *)

\* A file is a sequence of lines.
CfgFiles == Seq(CfgLines)

\* Lines and their keys.
LEMMA CfgLineFacts ==
    /\ CfgStructure \cup CfgPlain \subseteq CfgLines
    /\ \A k \in CfgPlain : k \notin CfgStructure /\ CfgKeyOf(k) = k
    /\ \A k \in CfgStructure : CfgKeyOf(k) = k
    /\ \A l \in CfgLines : CfgKeyOf(l) \in CfgStructure \cup CfgPlain
<1>1. CfgStructure \cup CfgPlain \subseteq CfgLines
  BY DEF CfgLines
<1>2. \A k \in CfgPlain : k \notin CfgStructure /\ CfgKeyOf(k) = k
  BY CfgAssumption DEF CfgKeyOf, CfgStructure
<1>3. \A k \in CfgStructure : CfgKeyOf(k) = k
  BY DEF CfgKeyOf, CfgStructure
<1>4. \A l \in CfgLines : CfgKeyOf(l) \in CfgStructure \cup CfgPlain
  BY DEF CfgKeyOf, CfgStructure, CfgLines
<1> QED BY <1>1, <1>2, <1>3, <1>4

\* A line at the end adds its key ...
LEMMA CfgAppendKeys ==
    ASSUME NEW f \in CfgFiles, NEW k \in CfgStructure \cup CfgPlain
    PROVE  /\ Append(f, k) \in CfgFiles
           /\ CfgMissing(Append(f, k)) = CfgMissing(f) \ {k}
<1> DEFINE g == Append(f, k)
<1>1. /\ k \in CfgLines /\ CfgKeyOf(k) = k
  BY CfgLineFacts
<1>2. /\ g \in Seq(CfgLines) /\ Len(g) = Len(f) + 1 /\ g[Len(f) + 1] = k /\ Len(f) \in Nat
      /\ \A i \in 1 .. Len(f) : g[i] = f[i]
      /\ DOMAIN f = 1 .. Len(f) /\ DOMAIN g = 1 .. Len(f) + 1
  BY <1>1 DEF CfgFiles
<1> HIDE DEF g
<1>3. \A i : i \in DOMAIN g <=> i \in DOMAIN f \/ i = Len(f) + 1
  BY <1>2
<1>4. CfgKeys(g) = CfgKeys(f) \cup {k}
  <2>1. \A x : x \in CfgKeys(g) <=> \E i \in DOMAIN g : x = CfgKeyOf(g[i])
    BY DEF CfgKeys
  <2>2. \A x : x \in CfgKeys(f) <=> \E i \in DOMAIN f : x = CfgKeyOf(f[i])
    BY DEF CfgKeys
  <2>3. \A i \in DOMAIN f : g[i] = f[i]
    BY <1>2
  <2>4. CfgKeyOf(g[Len(f) + 1]) = k
    BY <1>1, <1>2
  <2> QED BY <1>3, <2>1, <2>2, <2>3, <2>4
<1> QED BY <1>2, <1>4 DEF CfgMissing, g, CfgFiles

\* ... and, when it is a plain setting that is missing, leaves the file loadable.
LEMMA CfgAppendKeepsSkeleton ==
    ASSUME NEW f \in CfgFiles, NEW k \in CfgMissing(f), CfgSkeleton(f)
    PROVE  CfgSkeleton(Append(f, k))
<1> DEFINE g == Append(f, k)
           n == Len(f)
<1>1. k \in CfgPlain /\ k \notin CfgKeys(f) /\ k \notin CfgStructure /\ CfgKeyOf(k) = k
  BY CfgLineFacts DEF CfgSkeleton, CfgMissing
<1>2. /\ k \notin {"version", "settings", "item", "white"}
  BY <1>1 DEF CfgStructure
<1>3. /\ Len(g) = n + 1 /\ g[n + 1] = k /\ n \in Nat
      /\ \A i \in 1 .. n : g[i] = f[i]
      /\ DOMAIN f = 1 .. n /\ DOMAIN g = 1 .. n + 1
  BY <1>1 DEF CfgFiles, CfgLines
<1> HIDE DEF g, n
<1>4. \A i \in 1 .. n + 1 : CfgInSettings(f, i) => CfgInSettings(g, i)
  <2> SUFFICES ASSUME NEW i \in 1 .. n + 1, CfgInSettings(f, i) PROVE CfgInSettings(g, i)
    OBVIOUS
  <2>1. PICK h \in 1 .. i - 1 : f[h] = "settings" /\ \A m \in h .. i - 1 : f[m] # "version"
    BY DEF CfgInSettings
  <2>2. \A m \in h .. i - 1 : m \in 1 .. n
    BY <1>3
  <2>3. h \in 1 .. n
    BY <1>3
  <2> QED BY <1>3, <2>1, <2>2, <2>3 DEF CfgInSettings
<1>5. CfgInSettings(f, n + 1)
  BY DEF CfgSkeleton, n
<1>6. CfgInSettings(g, n + 2)
  <2>1. PICK h \in 1 .. n : g[h] = "settings" /\ \A m \in h .. n : g[m] # "version"
    <3>1. n + 1 \in 1 .. n + 1 /\ (n + 1) - 1 = n
      BY <1>3
    <3>2. CfgInSettings(g, n + 1)
      BY <1>4, <1>5, <3>1
    <3>3. \E h \in 1 .. (n + 1) - 1 : g[h] = "settings" /\ \A m \in h .. (n + 1) - 1 : g[m] # "version"
      BY <3>2, Zenon DEF CfgInSettings
    <3> QED BY <3>1, <3>3, Zenon
  <2>2. \A m \in h .. n + 1 : g[m] # "version"
    <3>1. \A m \in h .. n + 1 : m \in h .. n \/ m = n + 1
      BY <1>3
    <3> QED BY <1>2, <1>3, <2>1, <3>1
  <2>3. (n + 2) - 1 = n + 1 /\ h \in 1 .. n + 1
    BY <1>3
  <2>4. \E x \in 1 .. (n + 2) - 1 : g[x] = "settings" /\ \A m \in x .. (n + 2) - 1 : g[m] # "version"
    BY <2>1, <2>2, <2>3, Zenon
  <2> QED BY <2>4, Zenon DEF CfgInSettings
<1>7. CfgParses(f)
  BY DEF CfgSkeleton
<1>8. \A i \in DOMAIN g : i \in 1 .. n \/ (i = n + 1 /\ g[i] = k)
  BY <1>3
<1>9. \A i \in 1 .. n : CfgKeyOf(g[i]) # k
  <2>1. \A i \in 1 .. n : CfgKeyOf(f[i]) \in CfgKeys(f)
    BY <1>3 DEF CfgKeys
  <2> QED BY <1>1, <1>3, <2>1
<1>10. \A i, j \in DOMAIN g :
          (CfgKeyOf(g[i]) = CfgKeyOf(g[j]) /\ g[i] \notin {"item", "white"}) => i = j
  <2> SUFFICES ASSUME NEW i \in DOMAIN g, NEW j \in DOMAIN g,
                      CfgKeyOf(g[i]) = CfgKeyOf(g[j]), g[i] \notin {"item", "white"}
               PROVE  i = j
    OBVIOUS
  <2>1. CASE i \in 1 .. n /\ j \in 1 .. n
    <3>1. g[i] = f[i] /\ g[j] = f[j] /\ i \in DOMAIN f /\ j \in DOMAIN f
      BY <1>3, <2>1
    <3> QED BY <1>7, <3>1 DEF CfgParses
  <2>2. CASE i = n + 1 /\ j = n + 1
    BY <2>2
  <2>3. CASE i = n + 1 /\ j \in 1 .. n
    BY <1>1, <1>3, <1>9, <2>3
  <2>4. CASE j = n + 1 /\ i \in 1 .. n
    BY <1>1, <1>3, <1>9, <2>4
  <2> QED BY <1>8, <2>1, <2>2, <2>3, <2>4
<1>11. \A i \in DOMAIN g :
          /\ g[i] \notin {"version", "settings"} => CfgInSettings(g, i)
          /\ g[i] = "item" => g[i - 1] \in {"visual", "item", "white"}
          /\ g[i] = "white" => g[i - 1] = "item"
  <2> SUFFICES ASSUME NEW i \in DOMAIN g
               PROVE  /\ g[i] \notin {"version", "settings"} => CfgInSettings(g, i)
                      /\ g[i] = "item" => g[i - 1] \in {"visual", "item", "white"}
                      /\ g[i] = "white" => g[i - 1] = "item"
    OBVIOUS
  <2>1. CASE i = n + 1
    <3>1. CfgInSettings(g, n + 1)
      BY <1>3, <1>4, <1>5
    <3> QED BY <1>2, <1>3, <2>1, <3>1
  <2>2. CASE i \in 1 .. n
    <3>1. g[i] = f[i] /\ i \in DOMAIN f /\ i \in 1 .. n + 1
      BY <1>3, <2>2
    <3>2. /\ f[i] \notin {"version", "settings"} => CfgInSettings(f, i)
          /\ f[i] = "item" => f[i - 1] \in {"visual", "item", "white"}
          /\ f[i] = "white" => f[i - 1] = "item"
      BY <1>7, <3>1 DEF CfgParses
    <3>3. f[i] \in {"item", "white"} => g[i - 1] = f[i - 1]
      <4>1. f[i] \in {"item", "white"} => CfgInSettings(f, i)
        BY <3>2
      <4>2. CfgInSettings(f, i) => i - 1 \in 1 .. n
        BY <1>3, <2>2 DEF CfgInSettings
      <4> QED BY <1>3, <4>1, <4>2
    <3> QED BY <1>4, <3>1, <3>2, <3>3
  <2> QED BY <1>8, <2>1, <2>2
<1>12. CfgStructure \subseteq CfgKeys(g)
  <2>1. \A i \in DOMAIN f : i \in DOMAIN g /\ g[i] = f[i]
    BY <1>3
  <2>2. CfgKeys(f) \subseteq CfgKeys(g)
    BY <2>1 DEF CfgKeys
  <2> QED BY <2>2 DEF CfgSkeleton
<1>13. CfgParses(g)
  BY <1>10, <1>11 DEF CfgParses
<1>14. CfgInSettings(g, Len(g) + 1)
  <2>1. n + 1 + 1 = n + 2
    BY <1>3
  <2> QED BY <1>3, <1>6, <2>1
<1> QED BY <1>12, <1>13, <1>14 DEF CfgSkeleton, g

\* The list that replaces an outdated one has its key: no key gets lost.
LEMMA CfgHealKeys ==
    ASSUME NEW f \in CfgFiles, CfgOutdated(f)
    PROVE  CfgHeal(f) \in CfgFiles /\ CfgMissing(CfgHeal(f)) \subseteq CfgMissing(f)
<1> DEFINE i == CHOOSE k \in DOMAIN f : f[k] = "visualOld"
           n == Len(f)
           front == SubSeq(f, 1, i - 1)
           list == <<"visual", "item", "white">>
           back == SubSeq(f, i + 1, n)
           head == front \o list
           all == head \o back
<1>1. i \in DOMAIN f /\ f[i] = "visualOld"
  BY DEF CfgOutdated
<1> HIDE DEF i
<1>2. f \in Seq(CfgLines) /\ n \in Nat /\ i \in 1 .. n /\ DOMAIN f = 1 .. n
  BY <1>1 DEF CfgFiles
<1>3. /\ front \in Seq(CfgLines) /\ Len(front) = i - 1
      /\ \A j \in 1 .. i - 1 : front[j] = f[j]
  <2> DEFINE m == i - 1
  <2>1. m \in Nat /\ 0 \in Nat /\ 0 + m <= Len(f) /\ 1 = 0 + 1 /\ m = 0 + m
    BY <1>2
  <2> HIDE DEF m
  <2>2. /\ SubSeq(f, 0 + 1, 0 + m) \in Seq(CfgLines) /\ Len(SubSeq(f, 0 + 1, 0 + m)) = m
        /\ \A j \in 1 .. m : SubSeq(f, 0 + 1, 0 + m)[j] = f[0 + j]
    BY <1>2, <2>1, Cuts
  <2>3. \A j \in 1 .. m : 0 + j = j
    OBVIOUS
  <2>4. front = SubSeq(f, 0 + 1, 0 + m)
    BY <2>1 DEF m
  <2> HIDE DEF front
  <2> QED BY <2>2, <2>3, <2>4 DEF m
<1>4. /\ back \in Seq(CfgLines) /\ Len(back) = n - i
      /\ \A j \in 1 .. n - i : back[j] = f[i + j]
  <2> DEFINE m == n - i
  <2>1. m \in Nat /\ i \in Nat /\ i + m <= Len(f) /\ n = i + m
    BY <1>2
  <2> HIDE DEF m
  <2>2. /\ SubSeq(f, i + 1, i + m) \in Seq(CfgLines) /\ Len(SubSeq(f, i + 1, i + m)) = m
        /\ \A j \in 1 .. m : SubSeq(f, i + 1, i + m)[j] = f[i + j]
    BY <1>2, <2>1, Cuts
  <2>4. back = SubSeq(f, i + 1, i + m)
    BY <2>1
  <2> HIDE DEF back
  <2> QED BY <2>2, <2>4 DEF m
<1>5. list \in Seq(CfgLines) /\ Len(list) = 3 /\ list[1] = "visual" /\ DOMAIN list = 1 .. 3
  BY DEF CfgLines, CfgStructure
<1> HIDE DEF front, list, back
<1>j. \A s, t \in Seq(CfgLines) : /\ s \o t \in Seq(CfgLines) /\ Len(s \o t) = Len(s) + Len(t)
                                  /\ \A j \in 1 .. Len(s) : (s \o t)[j] = s[j]
                                  /\ \A j \in 1 .. Len(t) : (s \o t)[Len(s) + j] = t[j]
  BY Joins
<1>6. /\ head \in Seq(CfgLines) /\ Len(head) = i - 1 + 3
      /\ \A j \in 1 .. Len(front) : head[j] = front[j]
      /\ \A j \in 1 .. Len(list) : head[Len(front) + j] = list[j]
  <2>1. /\ head \in Seq(CfgLines) /\ Len(head) = Len(front) + Len(list)
        /\ \A j \in 1 .. Len(front) : head[j] = front[j]
        /\ \A j \in 1 .. Len(list) : head[Len(front) + j] = list[j]
    BY <1>3, <1>5, <1>j
  <2> QED BY <1>3, <1>5, <2>1
<1> HIDE DEF head
<1>7. /\ all \in Seq(CfgLines) /\ Len(all) = Len(head) + Len(back)
      /\ \A j \in 1 .. Len(head) : all[j] = head[j]
      /\ \A j \in 1 .. Len(back) : all[Len(head) + j] = back[j]
  BY <1>4, <1>6, <1>j
<1> HIDE DEF all
<1>8. DOMAIN all = 1 .. n + 2
  BY <1>2, <1>4, <1>6, <1>7
<1>9. \A j \in 1 .. n : \E m \in DOMAIN all : CfgKeyOf(all[m]) = CfgKeyOf(f[j])
  <2> SUFFICES ASSUME NEW j \in 1 .. n PROVE \E m \in DOMAIN all : CfgKeyOf(all[m]) = CfgKeyOf(f[j])
    OBVIOUS
  <2>1. CASE j < i
    <3>1. j \in 1 .. i - 1 /\ j \in 1 .. Len(front) /\ j \in 1 .. Len(head) /\ j \in DOMAIN all
      BY <1>2, <1>3, <1>6, <1>8, <2>1
    <3>2. all[j] = f[j]
      BY <1>3, <1>6, <1>7, <3>1
    <3> QED BY <3>1, <3>2
  <2>2. CASE j = i
    <3>1. Len(front) + 1 = i /\ i \in 1 .. Len(head) /\ i \in DOMAIN all /\ 1 \in 1 .. Len(list)
      BY <1>2, <1>3, <1>5, <1>6, <1>8
    <3>2. all[i] = "visual"
      BY <1>5, <1>6, <1>7, <3>1
    <3>3. CfgKeyOf("visual") = CfgKeyOf("visualOld")
      BY DEF CfgKeyOf
    <3> QED BY <1>1, <2>2, <3>1, <3>2, <3>3
  <2>3. CASE j > i
    <3>1. j - i \in 1 .. n - i /\ i + (j - i) = j /\ Len(head) + (j - i) \in DOMAIN all
      BY <1>2, <1>6, <1>8, <2>3
    <3>2. all[Len(head) + (j - i)] = f[j]
      BY <1>4, <1>7, <3>1
    <3> QED BY <3>1, <3>2
  <2> QED BY <1>2, <2>1, <2>2, <2>3
<1>10. CfgKeys(f) \subseteq CfgKeys(all)
  BY <1>2, <1>9 DEF CfgKeys
<1>11. CfgHeal(f) = all
  BY DEF CfgHeal, all, head, front, list, back, i
<1> QED BY <1>7, <1>10, <1>11 DEF CfgMissing, CfgFiles
-----------------------------------------------------------------------------
\* The inductive invariant.

\* The content the file has, or will have when it is written.
CfgContent == IF cfgPc \in {"writing", "healing"} THEN cfgBuf ELSE cfgFile

CfgWholeMeans == cfgWhole => CfgContent # CfgNoFile /\ CfgSkeleton(CfgContent) /\ cfgPc # "refused"

\* A completion left no key to be missed, until somebody changed the file.
CfgRunsMeans ==
    /\ cfgRuns <= 1
    /\ cfgRuns > 0 => /\ cfgPc \notin {"writing", "deleting", "filling"}
                      /\ CfgContent # CfgNoFile /\ CfgMissing(CfgContent) = {}

\* What is still to be appended is what the file misses.
CfgFilling ==
    /\ cfgPc \in {"loaded", "filling"} => cfgFile # CfgNoFile
    /\ cfgPc = "filling" => cfgTodo = CfgMissing(cfgFile)

CfgInv == CfgTypeOK /\ CfgWholeMeans /\ CfgRunsMeans /\ CfgFilling

\* What the lemmas below say of the parts of the invariant.
LEMMA CfgContents ==
    ASSUME CfgTypeOK
    PROVE  /\ CfgNoFile \notin CfgFiles /\ cfgBuf \in CfgFiles /\ cfgBuf # CfgNoFile /\ <<>> \in CfgFiles
           /\ cfgFile # CfgNoFile => cfgFile \in CfgFiles
           /\ CfgTemplate \in CfgFiles /\ CfgOutside \subseteq CfgFiles
  BY CfgAssumption DEF CfgTypeOK, CfgFiles

\* Initially no completion has run.
LEMMA CfgInvInit == CfgInit => CfgInv
<1> SUFFICES ASSUME CfgInit PROVE CfgInv
  OBVIOUS
<1>1. /\ cfgFile \in CfgOutside \cup {CfgNoFile} /\ cfgPc = "down" /\ cfgBuf = <<>> /\ cfgTodo = {} /\ cfgRuns = 0
      /\ cfgWhole = (cfgFile # CfgNoFile /\ CfgSkeleton(cfgFile))
  BY DEF CfgInit
<1>2. CfgTypeOK
  <2>1. <<>> \in Seq(CfgLines) /\ cfgFile \in Seq(CfgLines) \cup {CfgNoFile}
    BY <1>1, CfgAssumption
  <2> QED BY <1>1, <2>1 DEF CfgTypeOK
<1>3. CfgWholeMeans
  BY <1>1 DEF CfgWholeMeans, CfgContent
<1>4. CfgRunsMeans /\ CfgFilling
  BY <1>1 DEF CfgRunsMeans, CfgFilling
<1> QED BY <1>2, <1>3, <1>4 DEF CfgInv

\* A write of content f from outside, or of the template.
LEMMA CfgWritesKeep ==
    ASSUME CfgInv, NEW f \in CfgFiles, CfgWrite(f, "writing"), cfgRuns' = 0, cfgWhole' = CfgSkeleton(f)
    PROVE  CfgInv'
<1>1. /\ cfgFile' = <<>> /\ cfgBuf' = f /\ cfgPc' = "writing" /\ cfgTodo' = cfgTodo
  BY DEF CfgWrite
<1>2. CfgTypeOK /\ f # CfgNoFile /\ <<>> \in CfgFiles
  BY CfgContents DEF CfgInv
<1>3. CfgTypeOK'
  BY <1>1, <1>2 DEF CfgTypeOK, CfgFiles, CfgSkeleton
<1>4. CfgWholeMeans'
  BY <1>1, <1>2 DEF CfgWholeMeans, CfgContent
<1>5. CfgRunsMeans' /\ CfgFilling'
  BY <1>1 DEF CfgRunsMeans, CfgFilling
<1> QED BY <1>3, <1>4, <1>5 DEF CfgInv

\* Loading replaces an outdated line, if there is one.
LEMMA CfgLoadKeeps == CfgInv /\ CfgLoad => CfgInv'
<1> SUFFICES ASSUME CfgInv, CfgLoad PROVE CfgInv'
  OBVIOUS
<1>0. CfgTypeOK /\ CfgWholeMeans /\ CfgRunsMeans /\ cfgFile \in CfgFiles /\ CfgNoFile \notin CfgFiles /\ <<>> \in CfgFiles
  BY CfgContents DEF CfgInv, CfgLoad
<1>1. cfgPc = "down" /\ cfgFile # CfgNoFile /\ cfgRuns' = cfgRuns
  BY DEF CfgLoad
<1>2. CASE CfgOutdated(cfgFile)
  <2> DEFINE f == CfgHeal(cfgFile)
  <2>1. /\ cfgFile' = <<>> /\ cfgBuf' = f /\ cfgPc' = "healing" /\ cfgTodo' = cfgTodo /\ cfgWhole' = CfgSkeleton(f)
    BY <1>2 DEF CfgLoad, CfgWrite
  <2>2. f \in CfgFiles /\ CfgMissing(f) \subseteq CfgMissing(cfgFile)
    BY <1>0, <1>2, CfgHealKeys
  <2> HIDE DEF f
  <2>3. CfgTypeOK'
    BY <1>0, <1>1, <2>1, <2>2 DEF CfgTypeOK, CfgFiles, CfgSkeleton
  <2>4. CfgWholeMeans'
    BY <1>0, <2>1, <2>2 DEF CfgWholeMeans, CfgContent
  <2>5. CfgRunsMeans'
    <3>1. cfgRuns > 0 => CfgMissing(cfgFile) = {}
      BY <1>0, <1>1 DEF CfgRunsMeans, CfgContent
    <3>2. cfgRuns > 0 => CfgMissing(f) = {} /\ f # CfgNoFile
      BY <1>0, <2>2, <3>1
    <3>3. CfgContent' = f
      BY <2>1 DEF CfgContent
    <3>4. cfgRuns <= 1
      BY <1>0 DEF CfgRunsMeans
    <3> QED BY <1>1, <2>1, <3>2, <3>3, <3>4 DEF CfgRunsMeans
  <2>6. CfgFilling'
    BY <2>1 DEF CfgFilling
  <2> QED BY <2>3, <2>4, <2>5, <2>6 DEF CfgInv
<1>3. CASE ~CfgOutdated(cfgFile)
  <2>1. /\ cfgFile' = cfgFile /\ cfgBuf' = cfgBuf /\ cfgPc' = "loaded" /\ cfgTodo' = cfgTodo /\ cfgWhole' = cfgWhole
    BY <1>3 DEF CfgLoad
  <2>2. CfgTypeOK'
    BY <1>0, <1>1, <2>1 DEF CfgTypeOK
  <2>3. CfgContent' = CfgContent
    BY <1>1, <2>1 DEF CfgContent
  <2>4. CfgWholeMeans' /\ CfgRunsMeans' /\ CfgFilling'
    BY <1>0, <1>1, <2>1, <2>3 DEF CfgWholeMeans, CfgRunsMeans, CfgFilling
  <2> QED BY <2>2, <2>4 DEF CfgInv
<1> QED BY <1>2, <1>3

\* A write that is done leaves its content in the file.
LEMMA CfgWrittenKeeps == CfgInv /\ CfgWritten => CfgInv'
<1> SUFFICES ASSUME CfgInv, CfgWritten PROVE CfgInv'
  OBVIOUS
<1>0. CfgTypeOK /\ CfgWholeMeans /\ CfgRunsMeans /\ cfgBuf \in CfgFiles /\ CfgNoFile \notin CfgFiles /\ <<>> \in CfgFiles
  BY CfgContents DEF CfgInv
<1>1. /\ cfgPc \in {"writing", "healing"} /\ cfgFile' = cfgBuf /\ cfgBuf' = <<>> /\ cfgPc' \in {"loaded", "down"}
      /\ cfgTodo' = cfgTodo /\ cfgRuns' = cfgRuns /\ cfgWhole' = cfgWhole
  BY DEF CfgWritten
<1>2. CfgTypeOK'
  BY <1>0, <1>1 DEF CfgTypeOK, CfgFiles
<1>3. CfgContent' = CfgContent
  BY <1>1 DEF CfgContent
<1>4. CfgWholeMeans' /\ CfgRunsMeans'
  BY <1>0, <1>1, <1>3 DEF CfgWholeMeans, CfgRunsMeans
<1>5. CfgFilling'
  BY <1>0, <1>1 DEF CfgFilling
<1> QED BY <1>2, <1>4, <1>5 DEF CfgInv

\* A whole file passes, and when a completion has run nothing is missing.
LEMMA CfgCheckKeeps == CfgInv /\ CfgCheck => CfgInv'
<1> SUFFICES ASSUME CfgInv, CfgCheck PROVE CfgInv'
  OBVIOUS
<1>0. CfgTypeOK /\ CfgWholeMeans /\ CfgRunsMeans /\ CfgFilling
  BY DEF CfgInv
<1>1. cfgPc = "loaded" /\ cfgFile # CfgNoFile /\ UNCHANGED <<cfgFile, cfgBuf, cfgRuns, cfgWhole>>
  BY <1>0 DEF CfgCheck, CfgFilling
<1>2. CASE ~CfgParses(cfgFile)
  <2>1. cfgPc' = "refused" /\ cfgTodo' = cfgTodo
    BY <1>2 DEF CfgCheck
  <2>2. ~cfgWhole
    BY <1>0, <1>1, <1>2 DEF CfgWholeMeans, CfgContent, CfgSkeleton
  <2>3. CfgContent' = CfgContent
    BY <1>1, <2>1 DEF CfgContent
  <2>4. CfgTypeOK'
    BY <1>0, <1>1, <2>1 DEF CfgTypeOK
  <2>5. CfgWholeMeans' /\ CfgRunsMeans' /\ CfgFilling'
    BY <1>0, <1>1, <2>1, <2>2, <2>3 DEF CfgWholeMeans, CfgRunsMeans, CfgFilling
  <2> QED BY <2>4, <2>5 DEF CfgInv
<1>3. CASE CfgParses(cfgFile)
  <2>1. cfgTodo' = CfgMissing(cfgFile) /\ cfgPc' = IF cfgTodo' = {} THEN "up" ELSE "filling"
    BY <1>3 DEF CfgCheck
  <2>2. CfgContent' = CfgContent /\ CfgContent = cfgFile
    BY <1>1, <2>1 DEF CfgContent
  <2>3. CfgTypeOK'
    BY <1>0, <1>1, <2>1 DEF CfgTypeOK, CfgMissing
  <2>4. CfgWholeMeans' /\ CfgFilling'
    BY <1>0, <1>1, <2>1, <2>2 DEF CfgWholeMeans, CfgFilling
  <2>5. CfgRunsMeans'
    BY <1>0, <1>1, <2>1, <2>2 DEF CfgRunsMeans
  <2> QED BY <2>3, <2>4, <2>5 DEF CfgInv
<1> QED BY <1>2, <1>3

\* A missing key is appended.
LEMMA CfgAppendKeeps ==
    ASSUME CfgInv, NEW k \in cfgTodo, CfgAppend(k)
    PROVE  CfgInv'
<1>0. CfgTypeOK /\ CfgWholeMeans /\ CfgRunsMeans /\ CfgFilling
  BY DEF CfgInv
<1>1. /\ cfgPc = "filling" /\ cfgTodo' = cfgTodo \ {k} /\ cfgFile' = Append(cfgFile, k)
      /\ UNCHANGED <<cfgPc, cfgBuf, cfgRuns, cfgWhole>>
  BY DEF CfgAppend
<1>2. cfgFile \in CfgFiles /\ CfgNoFile \notin CfgFiles /\ k \in CfgMissing(cfgFile) /\ cfgTodo = CfgMissing(cfgFile)
  BY <1>0, <1>1, CfgContents DEF CfgFilling
<1>3. cfgFile' \in CfgFiles /\ CfgMissing(cfgFile') = CfgMissing(cfgFile) \ {k}
  BY <1>1, <1>2, CfgAppendKeys DEF CfgMissing
<1>4. CfgSkeleton(cfgFile) => CfgSkeleton(cfgFile')
  BY <1>1, <1>2, CfgAppendKeepsSkeleton
<1>5. CfgTypeOK'
  BY <1>0, <1>1, <1>3 DEF CfgTypeOK, CfgFiles
<1>6. CfgContent = cfgFile /\ CfgContent' = cfgFile'
  BY <1>1 DEF CfgContent
<1>7. CfgWholeMeans'
  BY <1>0, <1>1, <1>2, <1>3, <1>4, <1>6 DEF CfgWholeMeans
<1>8. CfgRunsMeans'
  BY <1>0, <1>1 DEF CfgRunsMeans
<1>9. CfgFilling'
  BY <1>1, <1>2, <1>3 DEF CfgFilling
<1> QED BY <1>5, <1>7, <1>8, <1>9 DEF CfgInv

\* The restart comes when nothing is missing any more.
LEMMA CfgRestartKeeps == CfgInv /\ CfgRestart => CfgInv'
<1> SUFFICES ASSUME CfgInv, CfgRestart PROVE CfgInv'
  OBVIOUS
<1>0. CfgTypeOK /\ CfgWholeMeans /\ CfgRunsMeans /\ CfgFilling
  BY DEF CfgInv
<1>1. /\ cfgPc = "filling" /\ cfgTodo = {} /\ cfgPc' = "down" /\ cfgRuns' = cfgRuns + 1
      /\ UNCHANGED <<cfgFile, cfgBuf, cfgTodo, cfgWhole>>
  BY DEF CfgRestart
<1>2. cfgRuns = 0 /\ cfgFile # CfgNoFile /\ CfgMissing(cfgFile) = {}
  BY <1>0, <1>1 DEF CfgRunsMeans, CfgFilling, CfgTypeOK
<1>3. CfgTypeOK'
  BY <1>0, <1>1 DEF CfgTypeOK
<1>4. CfgContent' = cfgFile /\ CfgContent = cfgFile
  BY <1>1 DEF CfgContent
<1>5. CfgWholeMeans'
  BY <1>0, <1>1, <1>4 DEF CfgWholeMeans
<1>6. CfgRunsMeans'
  BY <1>1, <1>2, <1>4 DEF CfgRunsMeans
<1>7. CfgFilling'
  BY <1>1 DEF CfgFilling
<1> QED BY <1>3, <1>5, <1>6, <1>7 DEF CfgInv

\* The console removes the file ...
LEMMA CfgRemoveKeeps == CfgInv /\ CfgRemove => CfgInv'
<1> SUFFICES ASSUME CfgInv, CfgRemove PROVE CfgInv'
  OBVIOUS
<1>0. CfgTypeOK
  BY DEF CfgInv
<1>1. /\ cfgFile' = CfgNoFile /\ cfgPc' = "deleting" /\ cfgRuns' = 0 /\ cfgWhole' = FALSE
      /\ UNCHANGED <<cfgBuf, cfgTodo>>
  BY DEF CfgRemove
<1>2. CfgTypeOK'
  BY <1>0, <1>1 DEF CfgTypeOK
<1>3. CfgWholeMeans' /\ CfgRunsMeans' /\ CfgFilling'
  BY <1>1 DEF CfgWholeMeans, CfgRunsMeans, CfgFilling
<1> QED BY <1>2, <1>3 DEF CfgInv

\* ... and writes the template, or goes on.
LEMMA CfgRenewKeeps == CfgInv /\ CfgRenew => CfgInv'
<1> SUFFICES ASSUME CfgInv, CfgRenew PROVE CfgInv'
  OBVIOUS
<1>0. CfgTypeOK /\ CfgWholeMeans /\ CfgRunsMeans
  BY DEF CfgInv
<1>1. cfgPc = "deleting" /\ cfgRuns' = cfgRuns /\ cfgRuns = 0
  BY <1>0 DEF CfgRenew, CfgRunsMeans, CfgTypeOK
<1>2. CASE CfgWrite(CfgTemplate, "writing") /\ cfgWhole' = CfgSkeleton(CfgTemplate)
  BY <1>0, <1>1, <1>2, CfgContents, CfgWritesKeep
<1>3. CASE cfgPc' = "up" /\ UNCHANGED <<cfgFile, cfgBuf, cfgTodo, cfgWhole>>
  <2>1. CfgTypeOK'
    BY <1>0, <1>1, <1>3 DEF CfgTypeOK
  <2>2. CfgContent' = CfgContent
    BY <1>1, <1>3 DEF CfgContent
  <2>3. CfgWholeMeans' /\ CfgRunsMeans' /\ CfgFilling'
    BY <1>0, <1>1, <1>3, <2>2 DEF CfgWholeMeans, CfgRunsMeans, CfgFilling
  <2> QED BY <2>1, <2>3 DEF CfgInv
<1> QED BY <1>2, <1>3 DEF CfgRenew

\* A crash tears the file that is being written, and no other.
LEMMA CfgCrashKeeps == CfgInv /\ CfgCrash => CfgInv'
<1> SUFFICES ASSUME CfgInv, CfgCrash PROVE CfgInv'
  OBVIOUS
<1>0. CfgTypeOK /\ CfgWholeMeans /\ CfgRunsMeans /\ cfgBuf \in CfgFiles /\ CfgNoFile \notin CfgFiles /\ <<>> \in CfgFiles
  BY CfgContents DEF CfgInv
<1>1. cfgPc' = "down" /\ cfgBuf' = <<>> /\ cfgTodo' = {}
  BY DEF CfgCrash
<1>2. CfgContent' = cfgFile' /\ CfgFilling'
  BY <1>1 DEF CfgContent, CfgFilling
<1>3. CASE cfgPc \in {"writing", "healing"}
  <2>1. PICK n \in 0 .. Len(cfgBuf) : cfgFile' = SubSeq(cfgBuf, 1, n)
    BY <1>3 DEF CfgCrash
  <2>2. cfgWhole' = CfgSkeleton(cfgFile') /\ cfgRuns' = 0
    BY <1>3 DEF CfgCrash
  <2>3. cfgFile' \in CfgFiles
    <3>1. /\ n \in Nat /\ 0 \in Nat /\ 0 + n <= Len(cfgBuf) /\ 1 = 0 + 1 /\ n = 0 + n /\ cfgBuf \in Seq(CfgLines)
      BY <1>0, <2>1 DEF CfgFiles
    <3>2. SubSeq(cfgBuf, 1, n) \in Seq(CfgLines)
      BY <3>1, Cuts
    <3> QED BY <2>1, <3>2 DEF CfgFiles
  <2>4. CfgTypeOK'
    BY <1>0, <1>1, <2>2, <2>3 DEF CfgTypeOK, CfgFiles, CfgSkeleton
  <2>5. CfgWholeMeans' /\ CfgRunsMeans'
    BY <1>0, <1>1, <1>2, <2>2, <2>3 DEF CfgWholeMeans, CfgRunsMeans
  <2> QED BY <1>2, <2>4, <2>5 DEF CfgInv
<1>4. CASE cfgPc \notin {"writing", "healing"}
  <2>1. UNCHANGED <<cfgFile, cfgWhole, cfgRuns>>
    BY <1>4 DEF CfgCrash
  <2>2. CfgTypeOK'
    BY <1>0, <1>1, <2>1 DEF CfgTypeOK, CfgFiles
  <2>3. CfgContent = cfgFile /\ CfgContent' = cfgFile
    BY <1>2, <1>4, <2>1 DEF CfgContent
  <2>4. CfgWholeMeans' /\ CfgRunsMeans'
    BY <1>0, <1>1, <2>1, <2>3 DEF CfgWholeMeans, CfgRunsMeans
  <2> QED BY <1>2, <2>2, <2>4 DEF CfgInv
<1> QED BY <1>3, <1>4

\* The operator may write anything.
LEMMA CfgEditKeeps ==
    ASSUME CfgInv, NEW f \in CfgOutside, CfgEdit(f)
    PROVE  CfgInv'
<1>0. CfgTypeOK /\ f \in CfgFiles /\ f # CfgNoFile
  BY CfgContents DEF CfgInv
<1>1. /\ cfgFile' = f /\ cfgRuns' = 0 /\ cfgWhole' = CfgSkeleton(f) /\ cfgPc' \in {"up", "down"}
      /\ UNCHANGED <<cfgBuf, cfgTodo>>
  BY DEF CfgEdit
<1>2. CfgTypeOK'
  BY <1>0, <1>1 DEF CfgTypeOK, CfgFiles, CfgSkeleton
<1>3. CfgContent' = f
  BY <1>1 DEF CfgContent
<1>4. CfgWholeMeans' /\ CfgRunsMeans' /\ CfgFilling'
  BY <1>0, <1>1, <1>3 DEF CfgWholeMeans, CfgRunsMeans, CfgFilling
<1> QED BY <1>2, <1>4 DEF CfgInv

\* Every step keeps the invariant.
LEMMA CfgInvNext == CfgInv /\ [CfgNext]_cfgVars => CfgInv'
<1> SUFFICES ASSUME CfgInv, [CfgNext]_cfgVars PROVE CfgInv'
  OBVIOUS
<1>1. CASE CfgFirstStart
  BY <1>1, CfgContents, CfgWritesKeep DEF CfgFirstStart, CfgInv
<1>2. CASE CfgLoad
  BY <1>2, CfgLoadKeeps
<1>3. CASE CfgWritten
  BY <1>3, CfgWrittenKeeps
<1>4. CASE CfgCheck
  BY <1>4, CfgCheckKeeps
<1>5. CASE CfgRestart
  BY <1>5, CfgRestartKeeps
<1>6. CASE CfgRemove
  BY <1>6, CfgRemoveKeeps
<1>7. CASE CfgRenew
  BY <1>7, CfgRenewKeeps
<1>8. CASE CfgCrash
  BY <1>8, CfgCrashKeeps
<1>9. ASSUME NEW k \in cfgTodo, CfgAppend(k) PROVE CfgInv'
  BY <1>9, CfgAppendKeeps
<1>10. ASSUME NEW f \in CfgOutside, CfgPatch(f) PROVE CfgInv'
  BY <1>10, CfgContents, CfgWritesKeep DEF CfgPatch, CfgInv
<1>11. ASSUME NEW f \in CfgOutside, CfgEdit(f) PROVE CfgInv'
  BY <1>11, CfgEditKeeps
<1>12. CASE UNCHANGED cfgVars
  BY <1>12 DEF CfgInv, cfgVars, CfgTypeOK, CfgWholeMeans, CfgRunsMeans, CfgFilling, CfgContent
<1> QED BY <1>1, <1>2, <1>3, <1>4, <1>5, <1>6, <1>7, <1>8, <1>9, <1>10, <1>11, <1>12 DEF CfgNext

\* A file that loads and has the structural lines is never refused by a later
\* start, for any plain settings it lacks, and one completion is enough
\* (ensureConfigComplete and the restart after it).
THEOREM CompletionsSettle == CfgSpec => []CompletionSettles
<1>1. CfgInv => CompletionSettles
  BY DEF CfgInv, CfgWholeMeans, CfgRunsMeans, CompletionSettles
<1> QED BY <1>1, CfgInvInit, CfgInvNext, PTL DEF CfgSpec

-----------------------------------------------------------------------------
(* Short links.                                                             *)

\* At most one maker stores a code that nobody raced for, which is then free;
\* and a code that was given out keeps its link.
LnkOne(c) == c \notin lnkRaced =>
    \A m \in LnkMakers : lnkPc[m] = "store" /\ lnkCode[m] = c =>
        /\ lnkDb[c] = LnkNone
        /\ \A o \in LnkMakers : lnkPc[o] = "store" /\ lnkCode[o] = c => o = m
LnkKept(g) == g[1] \in LnkCodes \ lnkRaced => lnkDb[g[1]] = g[2]
LnkBusy(m) == lnkPc[m] # "idle" => lnkLong[m] \in LnkLongs /\ lnkCode[m] \in LnkCodes
LnkInv == /\ LnkTypeOK
          /\ \A m \in LnkMakers : LnkBusy(m)
          /\ \A c \in LnkCodes : LnkOne(c)
          /\ \A g \in lnkGiven : LnkKept(g)

\* Initially there are no links.
LEMMA LnkInvInit == LnkInit => LnkInv
BY DEF LnkInit, LnkInv, LnkTypeOK, LnkBusy, LnkOne, LnkKept

\* A maker that ends is idle, and the others go on.
LEMMA LnkEndFacts ==
    ASSUME LnkTypeOK, NEW m \in LnkMakers, LnkEnd(m)
    PROVE  /\ lnkPc' \in [LnkMakers -> {"idle", "look", "store"}]
           /\ lnkLong' \in [LnkMakers -> LnkLongs \cup {LnkNone}]
           /\ lnkCode' \in [LnkMakers -> LnkCodes \cup {LnkNone}]
           /\ lnkPc'[m] = "idle"
           /\ \A o \in LnkMakers : o # m => /\ lnkPc'[o] = lnkPc[o] /\ lnkLong'[o] = lnkLong[o]
                                            /\ lnkCode'[o] = lnkCode[o]
BY DEF LnkTypeOK, LnkEnd

\* A code that is given out, stored or drawn again keeps what was promised.
LEMMA LnkInvStep == LnkInv /\ [LnkNext]_lnkVars => LnkInv'
<1> SUFFICES ASSUME LnkInv, [LnkNext]_lnkVars PROVE LnkInv'
  OBVIOUS
<1>0. /\ LnkTypeOK /\ \A m \in LnkMakers : LnkBusy(m)
      /\ \A c \in LnkCodes : LnkOne(c)
      /\ \A g \in lnkGiven : LnkKept(g)
  BY DEF LnkInv
<1>1. CASE LnkClose
  BY <1>0, <1>1 DEF LnkClose, lnkLocal, LnkInv, LnkTypeOK, LnkBusy, LnkOne, LnkKept
<1>2. CASE LnkRestart
  BY <1>0, <1>2 DEF LnkRestart, LnkInv, LnkTypeOK, LnkBusy, LnkOne, LnkKept
<1>3. ASSUME NEW m \in LnkMakers, NEW l \in LnkLongs, LnkAsk(m, l) PROVE LnkInv'
  <2>1. LnkTypeOK'
    BY <1>0, <1>3, LnkAssumption DEF LnkAsk, LnkTypeOK
  <2>2. /\ lnkPc'[m] = "look" /\ lnkLong'[m] \in LnkLongs /\ lnkCode'[m] \in LnkCodes
        /\ lnkDb' = lnkDb /\ lnkGiven' = lnkGiven /\ lnkRaced' = lnkRaced
        /\ \A o \in LnkMakers : o # m => /\ lnkPc'[o] = lnkPc[o] /\ lnkLong'[o] = lnkLong[o]
                                         /\ lnkCode'[o] = lnkCode[o]
    BY <1>0, <1>3, LnkAssumption DEF LnkAsk, LnkTypeOK
  <2> QED BY <1>0, <2>1, <2>2 DEF LnkInv, LnkBusy, LnkOne, LnkKept
<1>4. ASSUME NEW m \in LnkMakers, LnkLook(m) PROVE LnkInv'
  <2>0. lnkPc[m] = "look" /\ lnkCode[m] \in LnkCodes
    BY <1>0, <1>4 DEF LnkLook, LnkBusy
  <2>1. CASE lnkDb[lnkCode[m]] = LnkNone
    <3>1. /\ lnkPc' = [lnkPc EXCEPT ![m] = "store"] /\ lnkCode' = lnkCode
          /\ UNCHANGED <<lnkDb, lnkOpen, lnkLong, lnkGiven>>
      BY <1>4, <2>1 DEF LnkLook
    <3>2. lnkRaced' = IF \E o \in LnkMakers : lnkPc[o] = "store" /\ lnkCode[o] = lnkCode[m]
                      THEN lnkRaced \cup {lnkCode[m]} ELSE lnkRaced
      BY <1>4, <2>1 DEF LnkLook
    <3>3. LnkTypeOK'
      BY <1>0, <2>0, <3>1, <3>2 DEF LnkTypeOK
    <3>4. \A o \in LnkMakers : lnkPc'[o] = IF o = m THEN "store" ELSE lnkPc[o]
      BY <1>0, <3>1 DEF LnkTypeOK
    <3>5. \A c \in LnkCodes : LnkOne(c)'
      BY <1>0, <2>0, <2>1, <3>1, <3>2, <3>4 DEF LnkOne
    <3> QED BY <1>0, <2>0, <3>1, <3>2, <3>3, <3>4, <3>5 DEF LnkInv, LnkBusy, LnkKept
  <2>2. CASE lnkDb[lnkCode[m]] # LnkNone
    <3>1. PICK c \in LnkCodes : lnkCode' = [lnkCode EXCEPT ![m] = c]
      BY <1>4, <2>2 DEF LnkLook
    <3>2. UNCHANGED <<lnkDb, lnkOpen, lnkPc, lnkLong, lnkGiven, lnkRaced>>
      BY <1>4, <2>2 DEF LnkLook
    <3>3. LnkTypeOK'
      BY <1>0, <3>1, <3>2 DEF LnkTypeOK
    <3>4. \A o \in LnkMakers : lnkCode'[o] = IF o = m THEN c ELSE lnkCode[o]
      BY <1>0, <3>1 DEF LnkTypeOK
    <3> QED BY <1>0, <2>0, <3>2, <3>3, <3>4 DEF LnkInv, LnkBusy, LnkOne, LnkKept
  <2> QED BY <2>1, <2>2
<1>5. ASSUME NEW m \in LnkMakers, LnkStore(m) PROVE LnkInv'
  <2> DEFINE c == lnkCode[m]
             a == LnkAnswer(m, c)
  <2>0. lnkPc[m] = "store" /\ c \in LnkCodes /\ lnkLong[m] \in LnkLongs
    BY <1>0, <1>5 DEF LnkStore, LnkBusy
  <2>1. /\ lnkDb' = [lnkDb EXCEPT ![c] = lnkLong[m]]
        /\ lnkGiven' = lnkGiven \cup {<<a, lnkLong[m]>>}
        /\ lnkOpen' = lnkOpen /\ lnkRaced' = lnkRaced /\ LnkEnd(m)
    BY <1>5 DEF LnkStore
  <2>2. a = c \/ a \notin LnkCodes
    BY LnkAssumption DEF LnkAnswer
  <2>3. a \in LnkCodes \cup {LnkNested}
    BY <2>0 DEF LnkAnswer
  <2> HIDE DEF a
  <2>4. LnkTypeOK'
    BY <1>0, <2>0, <2>1, <2>3, LnkEndFacts DEF LnkTypeOK
  <2>5. \A d \in LnkCodes : lnkDb'[d] = IF d = c THEN lnkLong[m] ELSE lnkDb[d]
    BY <1>0, <2>1 DEF LnkTypeOK
  <2>6. \A d \in LnkCodes : LnkOne(d)'
    BY <1>0, <2>0, <2>1, <2>5, LnkEndFacts DEF LnkOne
  <2>7. \A o \in LnkMakers : LnkBusy(o)'
    BY <1>0, <2>1, LnkEndFacts DEF LnkBusy
  <2>8. ASSUME NEW g \in lnkGiven' PROVE LnkKept(g)'
    <3>1. CASE g = <<a, lnkLong[m]>>
      BY <2>0, <2>2, <2>5, <3>1 DEF LnkKept
    <3>2. CASE g \in lnkGiven
      <4>1. c \notin lnkRaced => lnkDb[c] = LnkNone
        BY <1>0, <2>0 DEF LnkOne
      <4>2. g[2] \in LnkLongs
        BY <1>0, <3>2 DEF LnkTypeOK
      <4> QED BY <1>0, <2>0, <2>1, <2>5, <3>2, <4>1, <4>2, LnkAssumption DEF LnkKept
    <3> QED BY <2>1, <3>1, <3>2
  <2> QED BY <2>4, <2>6, <2>7, <2>8 DEF LnkInv
<1>6. ASSUME NEW m \in LnkMakers, LnkFail(m) PROVE LnkInv'
  <2> DEFINE a == LnkAnswer(m, LnkNone)
  <2>0. lnkLong[m] \in LnkLongs
    BY <1>0, <1>6 DEF LnkFail, LnkBusy
  <2>1. /\ lnkGiven' = lnkGiven \cup {<<a, lnkLong[m]>>}
        /\ lnkDb' = lnkDb /\ lnkOpen' = lnkOpen /\ lnkRaced' = lnkRaced /\ LnkEnd(m)
    BY <1>6 DEF LnkFail
  <2>2. a \in {LnkNone, LnkNested} /\ a \notin LnkCodes
    BY LnkAssumption DEF LnkAnswer
  <2> HIDE DEF a
  <2>3. LnkTypeOK'
    BY <1>0, <2>0, <2>1, <2>2, LnkEndFacts DEF LnkTypeOK
  <2> QED BY <1>0, <2>1, <2>2, <2>3, LnkEndFacts DEF LnkInv, LnkBusy, LnkOne, LnkKept
<1>7. CASE UNCHANGED lnkVars
  BY <1>0, <1>7 DEF lnkVars, lnkLocal, LnkInv, LnkTypeOK, LnkBusy, LnkOne, LnkKept
<1> QED BY <1>1, <1>2, <1>3, <1>4, <1>5, <1>6, <1>7 DEF LnkNext

\* So a link that was given out opens what it was made for.
LEMMA LnkInvOpens == LnkInv => LinkOpens
<1> SUFFICES ASSUME LnkInv, NEW g \in lnkGiven, g[1] \in LnkCodes \ lnkRaced, g[2].scheme = "http"
             PROVE  LnkTarget(g[1]) = g[2] \/ (~lnkOpen /\ LnkTarget(g[1]) = LnkNone)
  BY DEF LinkOpens
<1>1. lnkDb[g[1]] = g[2]
  BY DEF LnkInv, LnkKept
<1> QED BY <1>1 DEF LnkTarget, LnkFound

\* A short link that was given out opens its long link, in every restart, unless
\* two makers drew its code at once.
THEOREM LinksOpen == LnkSpec => []LinkOpens
BY LnkInvInit, LnkInvStep, LnkInvOpens, PTL DEF LnkSpec

-----------------------------------------------------------------------------
(* Uploads: times in a window, and files.                                   *)

\* The trimming loop stops at a first time that has not expired, or at the end.
LEMMA UpFreshCuts ==
    ASSUME NEW s \in Seq(Nat), NEW t \in Nat
    PROVE  \E k \in 0 .. Len(s) : /\ \A j \in 1 .. k : UpExpired(s[j], t)
                                  /\ k < Len(s) => ~UpExpired(s[k + 1], t)
                                  /\ UpFresh(s, t) = SubSeq(s, k + 1, Len(s))
<1> DEFINE P(k) == /\ \A j \in 1 .. k : UpExpired(s[j], t)
                   /\ k < Len(s) => ~UpExpired(s[k + 1], t)
           S == {k \in 0 .. Len(s) : k = Len(s) \/ ~UpExpired(s[k + 1], t)}
           n == CHOOSE k \in 0 .. Len(s) : P(k)
<1>1. Len(s) \in Nat
  OBVIOUS
<1>2. S \in SUBSET Nat /\ Len(s) \in S
  BY <1>1
<1>3. Min(S) \in S /\ \A y \in S : Min(S) =< y
  <2> HIDE DEF S
  <2> QED BY <1>2, MinExists
<1>4. Min(S) \in 0 .. Len(s) /\ (Min(S) < Len(s) => ~UpExpired(s[Min(S) + 1], t))
  BY <1>3
<1>5. ASSUME NEW j \in 1 .. Min(S)
      PROVE  UpExpired(s[j], t)
  <2>1. j - 1 \in 0 .. Len(s) /\ j - 1 < Min(S)
    BY <1>1, <1>4
  <2>2. j - 1 \notin S
    <3> HIDE DEF S
    <3>1. Min(S) \in Nat /\ j - 1 \in Nat /\ ~(Min(S) =< j - 1)
      BY <1>1, <1>4, <2>1
    <3> QED BY <1>3, <3>1
  <2>3. j - 1 # Len(s) /\ (j - 1) + 1 = j
    BY <1>1, <1>4, <2>1
  <2> QED BY <2>1, <2>2, <2>3
<1>6. P(Min(S)) /\ Min(S) \in 0 .. Len(s)
  BY <1>4, <1>5
<1>7. P(n) /\ n \in 0 .. Len(s)
  <2> HIDE DEF P, S
  <2> QED BY <1>6
<1>8. UpFresh(s, t) = SubSeq(s, n + 1, Len(s))
  BY DEF UpFresh
<1> HIDE DEF n
<1> QED BY <1>7, <1>8

\* The tail of a sequence.
LEMMA UpTail ==
    ASSUME NEW T, NEW s \in Seq(T), NEW k \in 0 .. Len(s)
    PROVE  /\ SubSeq(s, k + 1, Len(s)) \in Seq(T)
           /\ Len(SubSeq(s, k + 1, Len(s))) = Len(s) - k
           /\ \A i \in 1 .. Len(s) - k : SubSeq(s, k + 1, Len(s))[i] = s[k + i]
<1>1. Len(s) \in Nat /\ DOMAIN s = 1 .. Len(s) /\ k \in Nat
  OBVIOUS
<1>2. SubSeq(s, k + 1, Len(s)) = [i \in 1 .. (1 + Len(s) - (k + 1)) |-> s[i + (k + 1) - 1]]
  BY <1>1
<1>3. \A i \in 1 .. Len(s) - k : i + (k + 1) - 1 = k + i /\ k + i \in 1 .. Len(s)
  BY <1>1
<1>4. 1 .. (1 + Len(s) - (k + 1)) = 1 .. Len(s) - k /\ Len(s) - k \in Nat
  BY <1>1
<1>5. \A i \in 1 .. Len(s) - k : s[k + i] \in T
  BY <1>1, <1>3
<1> DEFINE q == [i \in 1 .. Len(s) - k |-> s[k + i]]
<1>6. SubSeq(s, k + 1, Len(s)) = q
  BY <1>2, <1>3, <1>4
<1>7. q \in Seq(T) /\ Len(q) = Len(s) - k
  BY <1>4, <1>5
<1> QED BY <1>6, <1>7

\* Sequence l is found in sequence s, in its order.
UpWithin(l, s) ==
    \E f \in [DOMAIN l -> DOMAIN s] :
        /\ \A i, j \in DOMAIN l : i < j => f[i] < f[j]
        /\ \A i \in DOMAIN l : s[f[i]] = l[i]

\* There are n numbers from 1 to n.
LEMMA UpUpTo ==
    ASSUME NEW n \in Nat
    PROVE  IsFiniteSet(1 .. n) /\ Cardinality(1 .. n) = n
<1>1. 1 \in Int /\ n \in Int
  OBVIOUS
<1>2. IsFiniteSet(1 .. n) /\ Cardinality(1 .. n) = IF 1 > n THEN 0 ELSE n - 1 + 1
  BY <1>1, FS_Interval
<1> QED BY <1>2

\* What is found in a sequence is no longer than it.
LEMMA UpWithinIsShorter ==
    ASSUME NEW l \in Seq(Nat), NEW s \in Seq(Nat), UpWithin(l, s)
    PROVE  Len(l) <= Len(s)
<1>1. PICK f \in [DOMAIN l -> DOMAIN s] : \A i, j \in DOMAIN l : i < j => f[i] < f[j]
  BY DEF UpWithin
<1>2. DOMAIN l = 1 .. Len(l) /\ DOMAIN s = 1 .. Len(s) /\ Len(l) \in Nat /\ Len(s) \in Nat
  OBVIOUS
<1>3. ASSUME NEW i \in DOMAIN l, NEW j \in DOMAIN l, f[i] = f[j]
      PROVE  i = j
  <2>1. i \in Nat /\ j \in Nat /\ f[i] \in Nat /\ f[j] \in Nat
    BY <1>2
  <2>2. ~(f[i] < f[j]) /\ ~(f[j] < f[i])
    BY <1>3, <2>1
  <2>3. ~(i < j) /\ ~(j < i)
    BY <1>1, <2>2
  <2> QED BY <2>1, <2>3
<1>4. f \in Injection(1 .. Len(l), 1 .. Len(s))
  BY <1>2, <1>3 DEF Injection, IsInjective
<1>5. /\ IsFiniteSet(1 .. Len(s)) /\ Cardinality(1 .. Len(s)) = Len(s)
      /\ Cardinality(1 .. Len(l)) = Len(l)
  BY <1>2, UpUpTo
<1>6. Cardinality(1 .. Len(l)) <= Cardinality(1 .. Len(s))
  BY <1>4, <1>5, FS_Injection
<1> QED BY <1>5, <1>6

\* A time both note is found again ...
LEMMA UpWithinAppend ==
    ASSUME NEW l \in Seq(Nat), NEW s \in Seq(Nat), NEW t \in Nat, UpWithin(l, s)
    PROVE  UpWithin(Append(l, t), Append(s, t)) /\ UpWithin(l, Append(s, t))
<1>1. PICK f \in [DOMAIN l -> DOMAIN s] : /\ \A i, j \in DOMAIN l : i < j => f[i] < f[j]
                                          /\ \A i \in DOMAIN l : s[f[i]] = l[i]
  BY DEF UpWithin
<1> DEFINE g == [i \in 1 .. Len(l) + 1 |-> IF i = Len(l) + 1 THEN Len(s) + 1 ELSE f[i]]
<1>2. /\ Len(l) \in Nat /\ DOMAIN l = 1 .. Len(l) /\ Len(s) \in Nat /\ DOMAIN s = 1 .. Len(s)
      /\ DOMAIN Append(l, t) = 1 .. Len(l) + 1 /\ DOMAIN Append(s, t) = 1 .. Len(s) + 1
      /\ \A i \in 1 .. Len(l) : Append(l, t)[i] = l[i] /\ f[i] \in 1 .. Len(s)
      /\ \A i \in 1 .. Len(s) : Append(s, t)[i] = s[i]
      /\ Append(l, t)[Len(l) + 1] = t /\ Append(s, t)[Len(s) + 1] = t
  OBVIOUS
<1>3. UpWithin(l, Append(s, t))
  <2>1. f \in [DOMAIN l -> DOMAIN Append(s, t)]
    BY <1>2
  <2>2. \A i \in DOMAIN l : Append(s, t)[f[i]] = l[i]
    BY <1>1, <1>2
  <2> QED BY <1>1, <2>1, <2>2 DEF UpWithin
<1>4. g \in [DOMAIN Append(l, t) -> DOMAIN Append(s, t)]
  BY <1>2
<1>5. \A i, j \in DOMAIN Append(l, t) : i < j => g[i] < g[j]
  <2> SUFFICES ASSUME NEW i \in 1 .. Len(l) + 1, NEW j \in 1 .. Len(l) + 1, i < j
               PROVE  g[i] < g[j]
    BY <1>2
  <2>0. i \in 1 .. Len(l)
    BY <1>2
  <2>1. i \in DOMAIN l /\ g[i] = f[i] /\ f[i] \in 1 .. Len(s)
    BY <1>2, <2>0
  <2>2. CASE j = Len(l) + 1
    BY <1>2, <2>1, <2>2
  <2>3. CASE j # Len(l) + 1
    <3>1. Len(l) \in Nat /\ j \in 1 .. Len(l) + 1
      BY <1>2
    <3>1a. j \in 1 .. Len(l)
      <4>1. \A n \in Nat : \A k \in 1 .. n + 1 : k # n + 1 => k \in 1 .. n
        OBVIOUS
      <4> QED BY <2>3, <3>1, <4>1, Zenon
    <3>2. j \in DOMAIN l /\ g[j] = f[j]
      BY <1>2, <3>1a
    <3> HIDE DEF g
    <3> QED BY <1>1, <2>1, <3>2
  <2> QED BY <2>2, <2>3
<1>6. \A i \in DOMAIN Append(l, t) : Append(s, t)[g[i]] = Append(l, t)[i]
  <2> SUFFICES ASSUME NEW i \in 1 .. Len(l) + 1
               PROVE  Append(s, t)[g[i]] = Append(l, t)[i]
    BY <1>2
  <2>1. CASE i = Len(l) + 1
    BY <1>2, <2>1
  <2>2. CASE i # Len(l) + 1
    <3>1. i \in DOMAIN l /\ g[i] = f[i]
      BY <1>2, <2>2
    <3> HIDE DEF g
    <3> QED BY <1>1, <1>2, <3>1
  <2> QED BY <2>1, <2>2
<1>7. UpWithin(Append(l, t), Append(s, t))
  <2> HIDE DEF g
  <2> QED BY <1>4, <1>5, <1>6 DEF UpWithin
<1> QED BY <1>3, <1>7

\* ... and what has not expired in the one has not in the other.
LEMMA UpWithinFresh ==
    ASSUME NEW l \in Seq(Nat), NEW s \in Seq(Nat), NEW t \in Nat, UpWithin(l, s)
    PROVE  /\ UpFresh(l, t) \in Seq(Nat) /\ UpFresh(s, t) \in Seq(Nat)
           /\ Len(UpFresh(l, t)) <= Len(l)
           /\ UpWithin(UpFresh(l, t), UpFresh(s, t))
<1>1. PICK f \in [DOMAIN l -> DOMAIN s] : /\ \A i, j \in DOMAIN l : i < j => f[i] < f[j]
                                          /\ \A i \in DOMAIN l : s[f[i]] = l[i]
  BY DEF UpWithin
<1>2. PICK m \in 0 .. Len(l) : /\ m < Len(l) => ~UpExpired(l[m + 1], t)
                               /\ UpFresh(l, t) = SubSeq(l, m + 1, Len(l))
  BY UpFreshCuts
<1>3. PICK k \in 0 .. Len(s) : /\ \A j \in 1 .. k : UpExpired(s[j], t)
                               /\ UpFresh(s, t) = SubSeq(s, k + 1, Len(s))
  BY UpFreshCuts
<1>4. /\ Len(l) \in Nat /\ DOMAIN l = 1 .. Len(l) /\ Len(s) \in Nat /\ DOMAIN s = 1 .. Len(s)
      /\ \A i \in 1 .. Len(l) : f[i] \in 1 .. Len(s)
  OBVIOUS
<1> DEFINE a == SubSeq(l, m + 1, Len(l))
           b == SubSeq(s, k + 1, Len(s))
           g == [i \in 1 .. Len(l) - m |-> f[m + i] - k]
<1>5. /\ a \in Seq(Nat) /\ Len(a) = Len(l) - m /\ DOMAIN a = 1 .. Len(l) - m
      /\ \A i \in 1 .. Len(l) - m : a[i] = l[m + i]
  <2>1. a \in Seq(Nat) /\ Len(a) = Len(l) - m /\ \A i \in 1 .. Len(l) - m : a[i] = l[m + i]
    BY UpTail
  <2> HIDE DEF a
  <2> QED BY <2>1
<1>6. /\ b \in Seq(Nat) /\ Len(b) = Len(s) - k /\ DOMAIN b = 1 .. Len(s) - k
      /\ \A i \in 1 .. Len(s) - k : b[i] = s[k + i]
  <2>1. b \in Seq(Nat) /\ Len(b) = Len(s) - k /\ \A i \in 1 .. Len(s) - k : b[i] = s[k + i]
    BY UpTail
  <2> HIDE DEF b
  <2> QED BY <2>1
<1>7. \A i \in 1 .. Len(l) - m : f[m + i] > k /\ f[m + i] \in 1 .. Len(s)
  <2> SUFFICES ASSUME NEW i \in 1 .. Len(l) - m
               PROVE  f[m + i] > k /\ f[m + i] \in 1 .. Len(s)
    OBVIOUS
  <2>1. m < Len(l) /\ m + 1 \in DOMAIN l /\ m + i \in DOMAIN l
    BY <1>4
  <2>2. ~UpExpired(s[f[m + 1]], t) /\ f[m + 1] \in 1 .. Len(s)
    BY <1>1, <1>2, <1>4, <2>1
  <2>3. f[m + 1] > k
    BY <1>3, <2>2
  <2>4. f[m + i] \in 1 .. Len(s)
    BY <1>4, <2>1
  <2>5. m + 1 = m + i \/ f[m + 1] < f[m + i]
    BY <1>1, <2>1
  <2> QED BY <2>2, <2>3, <2>4, <2>5
<1>8. g \in [DOMAIN a -> DOMAIN b]
  <2>1. \A i \in 1 .. Len(l) - m : f[m + i] - k \in 1 .. Len(s) - k
    <3> SUFFICES ASSUME NEW i \in 1 .. Len(l) - m PROVE f[m + i] - k \in 1 .. Len(s) - k
      OBVIOUS
    <3>1. f[m + i] > k /\ f[m + i] \in 1 .. Len(s)
      BY <1>7
    <3> QED BY <1>4, <3>1
  <2> HIDE DEF a, b
  <2> QED BY <1>5, <1>6, <2>1
<1>9. \A i, j \in DOMAIN a : i < j => g[i] < g[j]
  <2> SUFFICES ASSUME NEW i \in 1 .. Len(l) - m, NEW j \in 1 .. Len(l) - m, i < j
               PROVE  g[i] < g[j]
    BY <1>5
  <2>1. m + i \in DOMAIN l /\ m + j \in DOMAIN l /\ m + i < m + j
    BY <1>4
  <2>2. f[m + i] < f[m + j]
    BY <1>1, <2>1
  <2>3. f[m + i] \in 1 .. Len(s) /\ f[m + j] \in 1 .. Len(s)
    BY <1>4, <2>1
  <2>4. g[i] = f[m + i] - k /\ g[j] = f[m + j] - k
    OBVIOUS
  <2> HIDE DEF g
  <2> QED BY <1>4, <2>2, <2>3, <2>4
<1>10. \A i \in DOMAIN a : b[g[i]] = a[i]
  <2> SUFFICES ASSUME NEW i \in 1 .. Len(l) - m
               PROVE  b[g[i]] = a[i]
    BY <1>5
  <2>1. m + i \in DOMAIN l /\ g[i] = f[m + i] - k
    BY <1>4
  <2>2. g[i] \in 1 .. Len(s) - k /\ k + g[i] = f[m + i]
    <3>1. f[m + i] > k /\ f[m + i] \in 1 .. Len(s)
      BY <1>7
    <3> HIDE DEF g
    <3> QED BY <1>4, <2>1, <3>1
  <2>3. b[g[i]] = s[f[m + i]]
    BY <1>6, <2>2
  <2>4. a[i] = l[m + i]
    BY <1>5
  <2> QED BY <1>1, <2>1, <2>3, <2>4
<1>11. UpWithin(a, b)
  <2> HIDE DEF g, a, b
  <2> QED BY <1>8, <1>9, <1>10 DEF UpWithin
<1>12. Len(a) <= Len(l)
  <2> HIDE DEF a
  <2> QED BY <1>4, <1>5
<1> HIDE DEF a, b
<1>13. UpFresh(l, t) = a /\ UpFresh(s, t) = b
  BY <1>2, <1>3 DEF a, b
<1> QED BY <1>5, <1>6, <1>11, <1>12, <1>13

-----------------------------------------------------------------------------
\* A file that is not whole is being written, or a write of it failed; and a
\* file is there once a request writes it or answers its link.
UpFilesOk ==
    /\ \A f \in UpFiles : upFile[f] = "torn" =>
          (\E o \in UpReqs : upPc[o] = "fill" /\ upName[o] = f) \/ f \in upFailed
    /\ \A r \in UpReqs : upPc[r] \in {"fill", "link"} => upFile[upName[r]] # "absent"

\* As long as no two requests were counted at once, the one that is counted
\* has read what is stored, and stored is every request let through of late.
UpWindowOk ==
    upRaced \/ /\ \A r, o \in UpReqs : upPc[r] = "count" /\ upPc[o] = "count" => r = o
               /\ \A r \in UpReqs : upPc[r] = "count" => upRead[r] = upTimes
               /\ Len(upLet) <= UpMax
               /\ UpWithin(upLet, upTimes)
UpInv == UpTypeOK /\ UpFilesOk /\ UpWindowOk

\* Initially nothing is stored.
LEMMA UpInvInit == UpInit => UpInv
<1> SUFFICES ASSUME UpInit PROVE UpInv
  OBVIOUS
<1>1. UpTypeOK /\ UpFilesOk
  <2>1. 0 \in 0 .. UpTime /\ <<>> \in Seq(0 .. UpTime)
    BY UpAssumption
  <2>2. upAt \in [UpReqs -> 0 .. UpTime] /\ upRead \in [UpReqs -> Seq(0 .. UpTime)]
    BY <2>1 DEF UpInit
  <2>3. UpTypeOK
    BY <2>1, <2>2 DEF UpInit, UpTypeOK
  <2>4. UpFilesOk
    BY DEF UpInit, UpFilesOk
  <2> QED BY <2>3, <2>4
<1>2. UpWithin(<<>>, <<>>)
  <2>1. <<>> \in [DOMAIN <<>> -> DOMAIN <<>>] /\ DOMAIN <<>> = {}
    OBVIOUS
  <2> QED BY <2>1 DEF UpWithin
<1>3. UpWindowOk
  BY <1>2, UpAssumption DEF UpInit, UpWindowOk
<1> QED BY <1>1, <1>3 DEF UpInv

\* Trimming keeps the times within the bound of time.
LEMMA UpFreshType ==
    ASSUME NEW s \in Seq(0 .. UpTime), NEW t \in 0 .. UpTime
    PROVE  UpFresh(s, t) \in Seq(0 .. UpTime)
<1>1. s \in Seq(Nat) /\ t \in Nat
  BY UpAssumption
<1>2. PICK k \in 0 .. Len(s) : UpFresh(s, t) = SubSeq(s, k + 1, Len(s))
  BY <1>1, UpFreshCuts
<1> QED BY <1>2, UpTail

\* What is counted: the request's read and its own time, trimmed.
LEMMA UpCountKeeps ==
    ASSUME NEW r \in UpReqs, UpInv, UpCount(r)
    PROVE  UpInv'
<1>0. /\ UpTypeOK /\ UpFilesOk /\ UpWindowOk /\ upPc[r] = "count"
      /\ upRead[r] \in Seq(0 .. UpTime) /\ upAt[r] \in 0 .. UpTime
  BY DEF UpInv, UpCount, UpTypeOK
<1> DEFINE t == upAt[r]
           all == Append(upRead[r], t)
           s == UpFresh(all, t)
           let == Len(s) <= UpMax
           l == IF let THEN Append(upLet, t) ELSE upLet
<1>1. /\ upTimes' = s /\ upPc' = [upPc EXCEPT ![r] = IF let THEN "stat" ELSE "idle"]
      /\ upLet' = IF upRaced THEN <<>> ELSE UpFresh(l, t)
      /\ upAt' = [upAt EXCEPT ![r] = 0] /\ upRead' = [upRead EXCEPT ![r] = <<>>]
      /\ upNow' = upNow /\ upRaced' = upRaced /\ upName' = upName /\ upFile' = upFile /\ upFailed' = upFailed
  BY DEF UpCount, UpCounted, UpNoteLet, upStore
<1>2. all \in Seq(0 .. UpTime) /\ l \in Seq(0 .. UpTime) /\ t \in 0 .. UpTime
  <2>1. upLet \in Seq(0 .. UpTime)
    BY <1>0 DEF UpTypeOK
  <2>2. all \in Seq(0 .. UpTime) /\ Append(upLet, t) \in Seq(0 .. UpTime)
    BY <1>0, <2>1
  <2> HIDE DEF let, all, t
  <2>3. l \in Seq(0 .. UpTime)
    BY <2>1, <2>2, Zenon
  <2> QED BY <1>0, <2>2, <2>3 DEF t
<1>3. s \in Seq(0 .. UpTime) /\ UpFresh(l, t) \in Seq(0 .. UpTime)
  <2> HIDE DEF all, l, t
  <2> QED BY <1>2, UpFreshType
<1>4. UpTypeOK'
  <2>1. 0 \in 0 .. UpTime /\ <<>> \in Seq(0 .. UpTime)
    BY UpAssumption
  <2>2. upLet' \in Seq(0 .. UpTime) /\ upTimes' \in Seq(0 .. UpTime)
    <3> HIDE DEF s, l, t
    <3> QED BY <1>1, <1>3, <2>1
  <2>3. upAt' \in [UpReqs -> 0 .. UpTime] /\ upRead' \in [UpReqs -> Seq(0 .. UpTime)]
    BY <1>0, <1>1, <2>1 DEF UpTypeOK
  <2>4. upPc' \in [UpReqs -> {"idle", "count", "stat", "write", "fill", "link"}]
    <3> HIDE DEF s
    <3> QED BY <1>0, <1>1 DEF UpTypeOK
  <2> HIDE DEF s, l, t
  <2> QED BY <1>0, <1>1, <2>2, <2>3, <2>4 DEF UpTypeOK
<1>5. upPc'[r] \in {"stat", "idle"} /\ \A o \in UpReqs \ {r} : upPc'[o] = upPc[o] /\ upRead'[o] = upRead[o]
  BY <1>0, <1>1 DEF UpTypeOK
<1>6. UpFilesOk'
  BY <1>0, <1>1, <1>5 DEF UpFilesOk
<1>7. UpWindowOk'
  <2> SUFFICES ASSUME ~upRaced PROVE UpWindowOk'
    BY <1>1 DEF UpWindowOk
  <2>1. upRead[r] = upTimes /\ UpWithin(upLet, upTimes) /\ Len(upLet) <= UpMax
        /\ \A o \in UpReqs : upPc[o] = "count" => o = r
    BY <1>0 DEF UpWindowOk
  <2>2. upTimes \in Seq(Nat) /\ upLet \in Seq(Nat) /\ t \in Nat
    BY <1>0, UpAssumption DEF UpTypeOK
  <2>3. UpWithin(l, all)
    <3>1. all = Append(upTimes, t)
      BY <2>1
    <3> HIDE DEF all, t
    <3> QED BY <2>1, <2>2, <3>1, UpWithinAppend
  <2>4. l \in Seq(Nat) /\ all \in Seq(Nat)
    BY <2>1, <2>2
  <2>5. /\ UpFresh(l, t) \in Seq(Nat) /\ s \in Seq(Nat) /\ Len(UpFresh(l, t)) <= Len(l)
        /\ UpWithin(UpFresh(l, t), s)
    <3> HIDE DEF l, all, t
    <3> QED BY <2>2, <2>3, <2>4, UpWithinFresh
  <2>6. Len(UpFresh(l, t)) <= Len(s)
    <3> HIDE DEF l, s, t
    <3> QED BY <2>5, UpWithinIsShorter
  <2>7. Len(UpFresh(l, t)) <= UpMax
    <3>1. CASE let
      <4> HIDE DEF l, s, t
      <4> QED BY <2>5, <2>6, <3>1, UpAssumption
    <3>2. CASE ~let
      <4>1. l = upLet
        BY <3>2
      <4> HIDE DEF l, s, t
      <4> QED BY <2>1, <2>2, <2>5, <4>1, UpAssumption
    <3> QED BY <3>1, <3>2
  <2>8. upLet' = UpFresh(l, t) /\ \A o \in UpReqs : upPc'[o] # "count"
    BY <1>1, <1>5, <2>1
  <2> HIDE DEF l, s, t
  <2> QED BY <1>1, <2>5, <2>7, <2>8 DEF UpWindowOk
<1> QED BY <1>4, <1>6, <1>7 DEF UpInv

\* A new request has counted nothing yet.
LEMMA UpBeginKeeps ==
    ASSUME NEW r \in UpReqs, UpInv, UpBegin(r)
    PROVE  UpInv'
<1>0. UpTypeOK /\ UpFilesOk /\ UpWindowOk /\ upPc[r] = "idle"
  BY DEF UpInv, UpBegin
<1>1. /\ upPc' = [upPc EXCEPT ![r] = "count"] /\ upAt' = [upAt EXCEPT ![r] = upNow]
      /\ upRead' = [upRead EXCEPT ![r] = upTimes]
      /\ upRaced' = (upRaced \/ \E o \in UpReqs : upPc[o] = "count")
      /\ upNow' = upNow /\ upTimes' = upTimes /\ upLet' = upLet
      /\ upName' = upName /\ upFile' = upFile /\ upFailed' = upFailed
  BY DEF UpBegin, upStore
<1>2. UpTypeOK'
  BY <1>0, <1>1 DEF UpTypeOK
<1>3. /\ upPc'[r] = "count" /\ upRead'[r] = upTimes
      /\ \A o \in UpReqs \ {r} : upPc'[o] = upPc[o] /\ upRead'[o] = upRead[o]
  BY <1>0, <1>1 DEF UpTypeOK
<1>4. UpFilesOk'
  BY <1>0, <1>1, <1>3 DEF UpFilesOk
<1>5. UpWindowOk'
  <2> SUFFICES ASSUME ~upRaced' PROVE UpWindowOk'
    BY DEF UpWindowOk
  <2>1. ~upRaced /\ \A o \in UpReqs : upPc[o] # "count"
    BY <1>1
  <2>2. \A o \in UpReqs : upPc'[o] = "count" => o = r
    BY <1>3, <2>1
  <2>3. Len(upLet) <= UpMax /\ UpWithin(upLet, upTimes)
    BY <1>0, <2>1 DEF UpWindowOk
  <2> QED BY <1>1, <1>3, <2>2, <2>3 DEF UpWindowOk
<1> QED BY <1>2, <1>4, <1>5 DEF UpInv

\* What the handler does after the count touches no times.
UpBeyond(r) == /\ upPc[r] # "count" /\ upPc'[r] # "count"
               /\ \A o \in UpReqs \ {r} : upPc'[o] = upPc[o]
               /\ UNCHANGED <<upNow, upWindow, upName>>

\* So the window stays what it is.
LEMMA UpBeyondKeeps ==
    ASSUME NEW r \in UpReqs, UpWindowOk, UpBeyond(r)
    PROVE  UpWindowOk'
<1>1. \A o \in UpReqs : upPc'[o] = "count" => upPc[o] = "count"
  BY DEF UpBeyond
<1>2. upRaced' = upRaced /\ upTimes' = upTimes /\ upRead' = upRead /\ upLet' = upLet
  BY DEF UpBeyond, upWindow
<1> QED BY <1>1, <1>2 DEF UpWindowOk

\* The rest of the handler writes a file, or answers.
LEMMA UpStepsKeep ==
    ASSUME NEW r \in UpReqs, UpInv,
           \/ UpRefuse(r) \/ UpStat(r) \/ UpCreate(r)
           \/ UpFill(r) \/ UpFillFails(r) \/ UpLink(r)
    PROVE  UpInv'
<1>0. UpTypeOK /\ UpFilesOk /\ UpWindowOk
  BY DEF UpInv
<1>1. UpBeyond(r)
  BY <1>0 DEF UpTypeOK, UpBeyond, UpRefuse, UpStat, UpCreate, UpFill, UpFillFails, UpLink, upStore, upWindow
<1>2. UpTypeOK'
  BY <1>0 DEF UpTypeOK, UpRefuse, UpStat, UpCreate, UpFill, UpFillFails, UpLink, upStore, upWindow
<1>3. UpFilesOk'
  <2>1. \A o \in UpReqs \ {r} : upPc'[o] = upPc[o]
    BY <1>1 DEF UpBeyond
  <2>2. CASE UpRefuse(r) \/ UpStat(r) \/ UpLink(r)
    <3>1. /\ upPc[r] # "fill" /\ upPc'[r] # "fill" /\ upFile' = upFile /\ upName' = upName /\ upFailed' = upFailed
          /\ upPc'[r] = "link" => upFile[upName[r]] # "absent"
      BY <1>0, <2>2 DEF UpTypeOK, UpRefuse, UpStat, UpLink, upStore
    <3>2. \A o \in UpReqs : upPc'[o] = "fill" <=> upPc[o] = "fill"
      BY <2>1, <3>1
    <3> QED BY <1>0, <2>1, <3>1, <3>2 DEF UpFilesOk
  <2>3. CASE UpCreate(r)
    <3>1. /\ upPc'[r] = "fill" /\ upPc[r] = "write" /\ upName' = upName /\ upFailed' = upFailed
          /\ upFile'[upName[r]] = "torn" /\ \A f \in UpFiles \ {upName[r]} : upFile'[f] = upFile[f]
          /\ upName \in [UpReqs -> UpFiles]
      BY <1>0, <2>3 DEF UpTypeOK, UpCreate
    <3> QED BY <1>0, <2>1, <3>1 DEF UpFilesOk
  <2>4. CASE UpFill(r)
    <3>1. /\ upPc'[r] = "link" /\ upName' = upName /\ upFailed' = upFailed
          /\ upFile'[upName[r]] = "whole" /\ \A f \in UpFiles \ {upName[r]} : upFile'[f] = upFile[f]
          /\ upName \in [UpReqs -> UpFiles]
      BY <1>0, <2>4 DEF UpTypeOK, UpFill
    <3> QED BY <1>0, <2>1, <3>1 DEF UpFilesOk
  <2>5. CASE UpFillFails(r)
    <3>1. /\ upPc'[r] = "idle" /\ upName' = upName /\ upFile' = upFile
          /\ upFailed' = upFailed \cup {upName[r]} /\ upName \in [UpReqs -> UpFiles]
      BY <1>0, <2>5 DEF UpTypeOK, UpFillFails
    <3> QED BY <1>0, <2>1, <3>1 DEF UpFilesOk
  <2> QED BY <2>2, <2>3, <2>4, <2>5
<1>4. UpWindowOk'
  BY <1>0, <1>1, UpBeyondKeeps
<1> QED BY <1>2, <1>3, <1>4 DEF UpInv

\* A crash forgets the times and tears the files being written.
LEMMA UpCrashKeeps == UpInv /\ UpCrash => UpInv'
<1> SUFFICES ASSUME UpInv, UpCrash PROVE UpInv'
  OBVIOUS
<1>0. UpTypeOK /\ UpFilesOk
  BY DEF UpInv
<1>1. UpTypeOK' /\ \A r \in UpReqs : upPc'[r] = "idle"
  <2>1. \A r \in UpReqs : upPc'[r] = "idle"
    BY DEF UpCrash
  <2>2. upPc' \in [UpReqs -> {"idle", "count", "stat", "write", "fill", "link"}]
    BY DEF UpCrash
  <2>3. 0 \in 0 .. UpTime /\ <<>> \in Seq(0 .. UpTime)
    BY UpAssumption
  <2>4. upAt' \in [UpReqs -> 0 .. UpTime] /\ upRead' \in [UpReqs -> Seq(0 .. UpTime)]
    BY <2>3 DEF UpCrash
  <2>5. upFailed' \subseteq UpFiles
    BY <1>0 DEF UpTypeOK, UpCrash
  <2> QED BY <1>0, <2>1, <2>2, <2>3, <2>4, <2>5 DEF UpTypeOK, UpCrash
<1>2. UpFilesOk'
  BY <1>0, <1>1 DEF UpCrash, UpFilesOk
<1>3. UpWithin(<<>>, <<>>)
  <2>1. <<>> \in [DOMAIN <<>> -> DOMAIN <<>>] /\ DOMAIN <<>> = {}
    OBVIOUS
  <2> QED BY <2>1 DEF UpWithin
<1>4. UpWindowOk'
  BY <1>1, <1>3, UpAssumption DEF UpCrash, UpWindowOk
<1> QED BY <1>1, <1>2, <1>4 DEF UpInv

\* Every step keeps the invariant.
LEMMA UpInvNext == UpInv /\ [UpNext]_upVars => UpInv'
<1> SUFFICES ASSUME UpInv, [UpNext]_upVars PROVE UpInv'
  OBVIOUS
<1>1. CASE UpTick
  <2>1. UpTypeOK'
    BY <1>1, UpAssumption DEF UpInv, UpTypeOK, UpTick, upWindow, upStore
  <2> QED BY <1>1, <2>1 DEF UpInv, UpFilesOk, UpWindowOk, UpTick, upWindow, upStore
<1>2. CASE UpCrash
  BY <1>2, UpCrashKeeps
<1>3. CASE UNCHANGED upVars
  BY <1>3 DEF UpInv, UpTypeOK, UpFilesOk, UpWindowOk, upVars, upWindow, upStore
<1>4. ASSUME NEW r \in UpReqs, UpBegin(r) PROVE UpInv'
  BY <1>4, UpBeginKeeps
<1>5. ASSUME NEW r \in UpReqs, UpCount(r) PROVE UpInv'
  BY <1>5, UpCountKeeps
<1>6. ASSUME NEW r \in UpReqs, \/ UpRefuse(r) \/ UpStat(r) \/ UpCreate(r)
                               \/ UpFill(r) \/ UpFillFails(r) \/ UpLink(r)
      PROVE UpInv'
  BY <1>6, UpStepsKeep
<1> QED BY <1>1, <1>2, <1>3, <1>4, <1>5, <1>6 DEF UpNext

\* What it says of the window, and of files whose link was answered.
LEMMA UpInvMeans == UpInv => WindowKept /\ LinkedIsWhole
<1> SUFFICES ASSUME UpInv PROVE WindowKept /\ LinkedIsWhole
  OBVIOUS
<1>1. LinkedIsWhole
  BY DEF UpInv, UpTypeOK, UpFilesOk, LinkedIsWhole
<1>2. ASSUME ~upRaced, NEW t \in 0 .. UpTime
      PROVE  Cardinality({i \in DOMAIN upLet : upLet[i] \in t .. t + UpInterval}) <= UpMax
  <2> DEFINE S == {i \in DOMAIN upLet : upLet[i] \in t .. t + UpInterval}
  <2>1. upLet \in Seq(0 .. UpTime) /\ Len(upLet) <= UpMax
    BY <1>2 DEF UpInv, UpTypeOK, UpWindowOk
  <2>2. Len(upLet) \in Nat /\ DOMAIN upLet = 1 .. Len(upLet)
    BY <2>1
  <2>3. IsFiniteSet(1 .. Len(upLet)) /\ Cardinality(1 .. Len(upLet)) = Len(upLet)
    BY <2>2, UpUpTo
  <2>4. S \in SUBSET (1 .. Len(upLet))
    BY <2>2
  <2>5. IsFiniteSet(S) /\ Cardinality(S) <= Len(upLet)
    <3> HIDE DEF S
    <3> QED BY <2>3, <2>4, FS_Subset
  <2>6. Cardinality(S) \in Nat
    <3> HIDE DEF S
    <3> QED BY <2>5, FS_CardinalityType
  <2> HIDE DEF S
  <2>7. Cardinality(S) <= UpMax
    BY <2>1, <2>2, <2>5, <2>6, UpAssumption
  <2> QED BY <2>7 DEF S
<1>3. WindowKept
  BY <1>2 DEF WindowKept
<1> QED BY <1>1, <1>3

\* An address gets no more uploads through in a window than the limit, unless two of
\* its requests are counted at once; and a file whose link was answered is whole.
THEOREM UploadsStaySound == UpSpec => [](WindowKept /\ LinkedIsWhole)
BY UpInvInit, UpInvNext, UpInvMeans, PTL DEF UpSpec

-----------------------------------------------------------------------------
(* Media of replies: recordings that are converted, links that are given    *)
(* out.                                                                     *)

\* A callback that has met no other on its recording works on it alone, and
\* what the next conversion is to read is not torn.
MedSource(c) == CASE medPc[c] = "toPcm" -> medRaw[medItem[c]]
                  [] medPc[c] = "toMp3" -> medPcm[medItem[c]]
                  [] medPc[c] = "read" -> medMp3[medItem[c]]
                  [] medPc[c] \in {"pcm", "mp3"} -> medData[c]
                  [] OTHER -> "whole"
MedBusy(c) == medPc[c] \in MedWorking
MedOk(c) ==
    /\ medPc[c] = "upload" => medItem[c] \in MedItems
    /\ medPc[c] = "judge" => medItem[c] \in MedImages
    /\ medPc[c] = "upload" /\ medItem[c] \in MedRecords => medData[c] # "torn" \/ medMet[c]
    /\ MedBusy(c) => /\ medItem[c] \in MedRecords
                     /\ medMet[c] \/ /\ MedSource(c) # "torn"
                                     /\ \A o \in MedAt(medItem[c]) : o = c
MedInv == MedTypeOK /\ LinkedMediaIsSound /\ \A c \in MedCalls : MedOk(c)

\* Initially no callback is at work.
LEMMA MedInvInit == MedInit => MedInv
BY DEF MedInit, MedInv, MedTypeOK, MedOk, MedBusy, MedWorking, MedNothing, MedFiles, LinkedMediaIsSound,
   MedStores, MedAudits, MedClients

\* What a callback does touches the files of its own recording alone, and
\* leaves the other callbacks where they are.
MedOwn(o) ==
    /\ \A c \in MedCalls \ {o} : /\ medPc'[c] = medPc[c] /\ medItem'[c] = medItem[c]
                                 /\ medData'[c] = medData[c] /\ medMet'[c] = medMet[c]
    /\ MedBusy(o)' => MedBusy(o) /\ medItem'[o] = medItem[o] /\ medMet'[o] = medMet[o]
    /\ \A r \in MedRecords :
          \/ MedBusy(o) /\ medItem[o] = r
          \/ medRaw'[r] = medRaw[r] /\ medPcm'[r] = medPcm[r] /\ medMp3'[r] = medMp3[r]

\* The other callbacks keep what is said of them.
LEMMA MedOthers ==
    ASSUME NEW o \in MedCalls, NEW c \in MedCalls \ {o}, MedOk(c), MedOwn(o)
    PROVE  MedOk(c)'
<1>1. MedBusy(c)' <=> MedBusy(c)
  BY DEF MedOwn, MedBusy
<1>2. ASSUME MedBusy(c), ~medMet[c]
      PROVE  MedSource(c)' = MedSource(c) /\ \A p \in MedAt(medItem[c])' : p = c
  <2>1. medItem[c] \in MedRecords /\ ~(MedBusy(o) /\ medItem[o] = medItem[c])
    BY <1>2 DEF MedOk, MedAt, MedBusy
  <2>2. MedSource(c)' = MedSource(c)
    BY <2>1 DEF MedOwn, MedSource
  <2>3. \A p \in MedAt(medItem[c])' : p = c
    BY <1>2, <2>1 DEF MedOwn, MedOk, MedAt, MedBusy
  <2> QED BY <2>2, <2>3
<1> QED BY <1>1, <1>2 DEF MedOk, MedOwn

\* So that only the callback itself is left to look at: alone it stays alone.
LEMMA MedOneStep ==
    ASSUME NEW o \in MedCalls, MedInv, MedOwn(o), MedTypeOK', LinkedMediaIsSound',
           medPc'[o] = "upload" => medItem'[o] \in MedItems,
           medPc'[o] = "judge" => medItem'[o] \in MedImages,
           medPc'[o] = "upload" /\ medItem'[o] \in MedRecords => medData'[o] # "torn" \/ medMet'[o],
           MedBusy(o)' => medMet'[o] \/ MedSource(o)' # "torn"
    PROVE  MedInv'
<1>1. \A c \in MedCalls \ {o} : MedOk(c)'
  BY MedOthers DEF MedInv
<1>2. MedBusy(o)' => /\ medItem'[o] \in MedRecords
                     /\ medMet'[o] \/ \A p \in MedAt(medItem[o])' : p = o
  <2> SUFFICES ASSUME MedBusy(o)' PROVE /\ medItem'[o] \in MedRecords
                                        /\ medMet'[o] \/ \A p \in MedAt(medItem[o])' : p = o
    OBVIOUS
  <2>1. MedBusy(o) /\ medItem'[o] = medItem[o] /\ medMet'[o] = medMet[o]
    BY DEF MedOwn
  <2>2. medItem[o] \in MedRecords /\ (medMet[o] \/ \A p \in MedAt(medItem[o]) : p = o)
    BY <2>1 DEF MedInv, MedOk
  <2>3. \A p \in MedAt(medItem[o])' : p \in MedAt(medItem[o])
    BY <2>1 DEF MedOwn, MedAt, MedBusy
  <2> QED BY <2>1, <2>2, <2>3
<1>3. MedOk(o)'
  BY <1>2 DEF MedOk, MedAt
<1> QED BY <1>1, <1>3 DEF MedInv

\* The conversions.
LEMMA MedConvertStep ==
    ASSUME MedInv, NEW c \in MedCalls,
           MedWritten(c) \/ MedToPcm(c) \/ MedPcmDone(c) \/ MedToMp3(c) \/ MedMp3Done(c) \/ MedRead(c)
    PROVE  MedInv'
<1> DEFINE r == medItem[c]
<1>0. /\ MedBusy(c) /\ r \in MedRecords /\ MedTypeOK
      /\ medMet[c] \/ MedSource(c) # "torn"
  BY DEF MedInv, MedOk, MedBusy, MedWorking, MedWritten, MedToPcm, MedPcmDone, MedToMp3, MedMp3Done, MedRead
<1>1. /\ medConf' = medConf /\ medItem' = medItem /\ medMet' = medMet /\ medLinks' = {}
  BY DEF MedWritten, MedToPcm, MedPcmDone, MedToMp3, MedMp3Done, MedRead, MedSame
<1>2. LinkedMediaIsSound'
  BY <1>1 DEF LinkedMediaIsSound
<1> HIDE DEF r
\* Steps of this kind, by what they assign.
<1> DEFINE Shape(at, data, raw, pcm, mp3) ==
             /\ medPc' = [medPc EXCEPT ![c] = at] /\ medData' = [medData EXCEPT ![c] = data]
             /\ medRaw' = [medRaw EXCEPT ![r] = raw] /\ medPcm' = [medPcm EXCEPT ![r] = pcm]
             /\ medMp3' = [medMp3 EXCEPT ![r] = mp3]
<1>3. ASSUME NEW at \in MedWorking \cup {"upload"}, NEW data \in MedFiles, NEW raw \in MedFiles,
             NEW pcm \in MedFiles, NEW mp3 \in MedFiles, Shape(at, data, raw, pcm, mp3),
             medMet[c] \/ CASE at = "toPcm" -> raw # "torn" [] at = "toMp3" -> pcm # "torn"
                            [] at = "read" -> mp3 # "torn" [] OTHER -> data # "torn"
      PROVE  MedInv'
  <2>1. MedTypeOK'
    BY <1>0, <1>1, <1>3 DEF MedTypeOK, medConf
  <2>2. medPc'[c] = at /\ medData'[c] = data /\ medRaw'[r] = raw /\ medPcm'[r] = pcm /\ medMp3'[r] = mp3
    BY <1>0, <1>3 DEF MedTypeOK
  <2>3. MedOwn(c)
    BY <1>0, <1>1, <1>3 DEF MedOwn, MedTypeOK, MedBusy, r
  <2>4. MedBusy(c)' => medMet'[c] \/ MedSource(c)' # "torn"
    BY <1>1, <1>3, <2>2 DEF MedSource, MedBusy, r
  <2>5. medPc'[c] = "upload" => medData'[c] # "torn" \/ medMet'[c]
    BY <1>1, <1>3, <2>2
  <2>6. medItem'[c] \in MedItems /\ medPc'[c] # "judge"
    BY <1>0, <1>1, <1>3, <2>2 DEF MedItems, r, MedWorking
  <2> QED BY <1>2, <2>1, <2>3, <2>4, <2>5, <2>6, MedOneStep
<1>4. /\ medData = [medData EXCEPT ![c] = medData[c]] /\ medRaw = [medRaw EXCEPT ![r] = medRaw[r]]
      /\ medPcm = [medPcm EXCEPT ![r] = medPcm[r]] /\ medMp3 = [medMp3 EXCEPT ![r] = medMp3[r]]
      /\ medData[c] \in MedFiles /\ medRaw[r] \in MedFiles /\ medPcm[r] \in MedFiles
      /\ medMp3[r] \in MedFiles /\ {"absent", "torn", "whole"} \subseteq MedFiles
  BY <1>0 DEF MedTypeOK, MedFiles
<1>5. {"raw", "toPcm", "pcm", "toMp3", "mp3", "read", "upload"} \subseteq MedWorking \cup {"upload"}
  BY DEF MedWorking
<1>w. CASE MedWritten(c)
  <2>1. \/ Shape("toPcm", medData[c], "whole", medPcm[r], medMp3[r])
        \/ Shape("upload", "absent", medRaw[r], medPcm[r], medMp3[r])
    BY <1>4, <1>w DEF MedWritten, MedGo, MedHas, MedSet, MedSame, r
  <2> HIDE DEF Shape
  <2> QED BY <1>3, <1>4, <1>5, <2>1
<1>p. CASE MedToPcm(c)
  <2>1. medMet[c] \/ medRaw[r] # "torn"
    BY <1>0, <1>p DEF MedToPcm, MedSource, r
  <2>2. \/ Shape("upload", "absent", "absent", medPcm[r], medMp3[r])
        \/ Shape("pcm", medRaw[r], medRaw[r], "torn", medMp3[r])
    BY <1>4, <1>p DEF MedToPcm, MedReturn, MedGo, MedHas, MedSet, MedSame, r
  <2> HIDE DEF Shape
  <2> QED BY <1>3, <1>4, <1>5, <2>1, <2>2
<1>q. CASE MedPcmDone(c)
  <2>1. medMet[c] \/ medData[c] # "torn"
    BY <1>0, <1>q DEF MedPcmDone, MedSource, r
  <2>2. \/ Shape("toMp3", medData[c], medRaw[r], medData[c], medMp3[r])
        \/ medPcm[r] = "absent" /\ Shape("toMp3", medData[c], medRaw[r], "absent", medMp3[r])
        \/ Shape("upload", "absent", "absent", medPcm[r], medMp3[r])
    BY <1>4, <1>q DEF MedPcmDone, MedFilled, MedReturn, MedGo, MedHas, MedSet, MedSame, r
  <2> HIDE DEF Shape
  <2> QED BY <1>3, <1>4, <1>5, <2>1, <2>2
<1>m. CASE MedToMp3(c)
  <2>1. medMet[c] \/ medPcm[r] # "torn"
    BY <1>0, <1>m DEF MedToMp3, MedSource, r
  <2>2. \/ Shape("upload", "absent", "absent", "absent", medMp3[r])
        \/ Shape("mp3", medPcm[r], medRaw[r], medPcm[r], "torn")
    BY <1>4, <1>m DEF MedToMp3, MedReturn, MedGo, MedHas, MedSet, MedSame, r
  <2> HIDE DEF Shape
  <2> QED BY <1>3, <1>4, <1>5, <2>1, <2>2
<1>n. CASE MedMp3Done(c)
  <2>1. medMet[c] \/ medData[c] # "torn"
    BY <1>0, <1>n DEF MedMp3Done, MedSource, r
  <2>2. \/ Shape("read", medData[c], medRaw[r], medPcm[r], medData[c])
        \/ medMp3[r] = "absent" /\ Shape("read", medData[c], medRaw[r], medPcm[r], "absent")
        \/ Shape("upload", "absent", "absent", "absent", medMp3[r])
    BY <1>4, <1>n DEF MedMp3Done, MedFilled, MedReturn, MedGo, MedHas, MedSet, MedSame, r
  <2> HIDE DEF Shape
  <2> QED BY <1>3, <1>4, <1>5, <2>1, <2>2
<1>r. CASE MedRead(c)
  <2>1. medMet[c] \/ medMp3[r] # "torn"
    BY <1>0, <1>r DEF MedRead, MedSource, r
  <2>2. Shape("upload", medMp3[r], "absent", "absent", medMp3[r])
    BY <1>4, <1>r DEF MedRead, MedReturn, MedGo, MedHas, MedSet, MedSame, r
  <2> HIDE DEF Shape
  <2> QED BY <1>3, <1>4, <1>5, <2>1, <2>2
<1> QED BY <1>w, <1>p, <1>q, <1>m, <1>n, <1>r
\* A new media code: whoever works on the same recording is met.
LEMMA MedBeginStep ==
    ASSUME MedInv, NEW c \in MedCalls, NEW i \in MedItems, MedBegin(c, i)
    PROVE  MedInv'
<1>0. /\ MedTypeOK /\ \A o \in MedCalls : MedOk(o)
      /\ medPc[c] = "idle" /\ ~MedBusy(c)
  BY DEF MedInv, MedBegin, MedBusy, MedWorking
<1>1. /\ medItem' = [medItem EXCEPT ![c] = i] /\ medLinks' = {}
      /\ medConf' = medConf /\ medPcm' = medPcm /\ medMp3' = medMp3
  BY DEF MedBegin, MedSame
<1>2. LinkedMediaIsSound' /\ medItem'[c] = i /\ \A o \in MedCalls : o # c => medItem'[o] = medItem[o]
  BY <1>0, <1>1 DEF LinkedMediaIsSound, MedTypeOK
<1>3. CASE i \in MedImages
  <2>1. /\ medPc' = [medPc EXCEPT ![c] = "upload"] /\ medData' = [medData EXCEPT ![c] = "whole"]
        /\ medMet' = medMet /\ medRaw' = medRaw
    BY <1>3 DEF MedBegin, MedGo, MedHas
  <2>2. MedTypeOK'
    BY <1>0, <1>1, <2>1 DEF MedTypeOK, medConf, MedFiles
  <2>3. medPc'[c] = "upload" /\ medData'[c] = "whole" /\ ~MedBusy(c)'
    BY <1>0, <2>1 DEF MedTypeOK, MedBusy, MedWorking
  <2>4. MedOwn(c)
    BY <1>0, <1>1, <2>1, <2>3 DEF MedOwn, MedTypeOK
  <2> QED BY <1>2, <1>3, <2>2, <2>3, <2>4, MedOneStep
<1>4. CASE i \notin MedImages
  <2>0. i \in MedRecords
    BY <1>4 DEF MedItems
  <2>1. /\ medPc' = [medPc EXCEPT ![c] = "raw"] /\ medRaw' = [medRaw EXCEPT ![i] = "torn"]
        /\ medMet' = [o \in MedCalls |-> IF o = c THEN MedAt(i) # {} ELSE medMet[o] \/ o \in MedAt(i)]
        /\ medData' = [o \in MedCalls |-> IF o \in MedAt(i) /\ medPc[o] = "pcm" THEN "torn" ELSE medData[o]]
    BY <1>4 DEF MedBegin, MedGo
  <2>2. MedTypeOK'
    <3>1. medData' \in [MedCalls -> MedFiles]
      BY <1>0, <2>1 DEF MedTypeOK, MedFiles
    <3>2. medMet' \in [MedCalls -> BOOLEAN]
      <4>1. \A o \in MedCalls : (medMet[o] \/ o \in MedAt(i)) \in BOOLEAN /\ (MedAt(i) # {}) \in BOOLEAN
        OBVIOUS
      <4> QED BY <2>1, <4>1
    <3>3. medRaw' \in [MedRecords -> MedFiles]
      BY <1>0, <2>0, <2>1 DEF MedTypeOK, MedFiles
    <3>4. medPc' \in [MedCalls -> {"idle", "upload", "judge"} \cup MedWorking]
      BY <1>0, <2>1 DEF MedTypeOK, MedWorking
    <3>5. medItem' \in [MedCalls -> MedItems \cup {MedNone}]
      BY <1>0, <1>1 DEF MedTypeOK
    <3> QED BY <1>0, <1>1, <3>1, <3>2, <3>3, <3>4, <3>5 DEF MedTypeOK, medConf
  <2>3. /\ medPc'[c] = "raw" /\ MedBusy(c)'
        /\ \A o \in MedCalls : o # c => medPc'[o] = medPc[o] /\ (MedBusy(o)' <=> MedBusy(o))
    BY <1>0, <2>1 DEF MedTypeOK, MedBusy, MedWorking
  <2>4. ASSUME NEW o \in MedCalls \ {c} PROVE MedOk(o)'
    <3>1. CASE o \in MedAt(i)
      BY <1>0, <1>2, <2>1, <2>3, <3>1 DEF MedOk, MedAt, MedBusy, MedWorking
    <3>2. CASE o \notin MedAt(i)
      <4>1. medMet'[o] = medMet[o] /\ medData'[o] = medData[o] /\ medItem'[o] = medItem[o]
        BY <1>0, <1>2, <2>1, <3>2 DEF MedTypeOK
      <4>2. MedBusy(o) => medItem[o] # i
        BY <3>2 DEF MedAt, MedBusy
      <4>3. MedBusy(o) => medItem[o] \in MedRecords
        BY <1>0 DEF MedOk
      <4>4. MedBusy(o) => MedSource(o)' = MedSource(o)
        BY <1>0, <1>1, <2>1, <2>3, <4>1, <4>2, <4>3 DEF MedSource, MedTypeOK
      <4>5. MedBusy(o) => \A p \in MedAt(medItem[o])' : p \in MedAt(medItem[o])
        BY <1>2, <2>3, <4>1, <4>2 DEF MedAt, MedBusy
      <4> QED BY <1>0, <2>3, <4>1, <4>4, <4>5 DEF MedOk
    <3> QED BY <3>1, <3>2
  <2>5. MedOk(c)'
    <3>1. MedSource(c)' # "torn"
      BY <2>3 DEF MedSource
    <3>2. medMet'[c] \/ \A p \in MedAt(i)' : p = c
      BY <1>2, <2>1, <2>3 DEF MedAt, MedBusy
    <3> QED BY <1>2, <2>0, <2>3, <3>1, <3>2 DEF MedOk
  <2> QED BY <1>2, <2>2, <2>4, <2>5 DEF MedInv
<1> QED BY <1>3, <1>4

\* The end of a call: its link, if there is one, is sound.
LEMMA MedEndStep ==
    ASSUME MedInv, NEW c \in MedCalls, MedOver(c), ~MedBusy(c), MedTypeOK',
           \A l \in medLinks' : /\ l.item \in MedRecords => l.data # "torn" \/ l.met
                                /\ l.judged => MedJudged[l.item] = "pass"
    PROVE  MedInv'
<1>0. MedTypeOK
  BY DEF MedInv
<1>1. LinkedMediaIsSound'
  BY DEF LinkedMediaIsSound
<1>2. medPc'[c] = "idle" /\ medItem'[c] = MedNone /\ ~MedBusy(c)'
  BY <1>0 DEF MedOver, MedGo, MedTypeOK, MedBusy, MedWorking
<1>3. MedOwn(c)
  BY <1>0, <1>2 DEF MedOwn, MedOver, MedGo, MedHas, MedTypeOK, medCache
<1> QED BY <1>1, <1>2, <1>3, MedOneStep

\* The record of a call that is over has its type.
LEMMA MedOverType ==
    ASSUME MedTypeOK, NEW c \in MedCalls, MedOver(c),
           medLinks' \subseteq [item : MedItems, data : MedFiles, met : BOOLEAN, judged : BOOLEAN]
    PROVE  MedTypeOK'
BY DEF MedTypeOK, MedOver, MedGo, MedHas, medConf, medCache, MedFiles

\* A link that is put into a reply.
LEMMA MedLinkStep ==
    ASSUME MedInv, NEW c \in MedCalls, NEW judged \in BOOLEAN, medPc[c] \in {"upload", "judge"},
           MedLink(c, judged), judged => MedJudged[medItem[c]] = "pass"
    PROVE  MedInv'
<1> DEFINE l == [item |-> medItem[c], data |-> medData[c], met |-> medMet[c], judged |-> judged]
<1>0. MedTypeOK /\ MedOk(c) /\ ~MedBusy(c)
  BY DEF MedInv, MedBusy, MedWorking
<1>1. medLinks' = {l} /\ MedOver(c)
  BY DEF MedLink
<1>2. medItem[c] \in MedItems /\ (medPc[c] = "judge" => medItem[c] \notin MedRecords)
  BY <1>0, MedAssumption DEF MedOk, MedItems
<1>3. medItem[c] \in MedRecords => medData[c] # "torn" \/ medMet[c]
  BY <1>0, <1>2 DEF MedOk
<1>4. l \in [item : MedItems, data : MedFiles, met : BOOLEAN, judged : BOOLEAN]
  BY <1>0, <1>2 DEF MedTypeOK
<1>5. l.item = medItem[c] /\ l.data = medData[c] /\ l.met = medMet[c] /\ l.judged = judged
  OBVIOUS
<1> HIDE DEF l
<1>6. MedTypeOK'
  BY <1>0, <1>1, <1>4, MedOverType
<1> QED BY <1>0, <1>1, <1>3, <1>5, <1>6, MedEndStep

\* A call that fails gives no link.
LEMMA MedFailStep ==
    ASSUME MedInv, NEW c \in MedCalls, medPc[c] \in {"upload", "judge"}, MedOver(c), medLinks' = {}
    PROVE  MedInv'
<1>1. ~MedBusy(c) /\ MedTypeOK
  BY DEF MedInv, MedBusy, MedWorking
<1> QED BY <1>1, MedOverType, MedEndStep

\* What is stored waits for its verdict, or is linked.
LEMMA MedStoredStep ==
    ASSUME MedInv, NEW c \in MedCalls, medPc[c] = "upload", MedStored(c)
    PROVE  MedInv'
<1>1. CASE medItem[c] \in MedImages /\ medAudit # "none"
  <2>0. MedTypeOK /\ ~MedBusy(c)
    BY DEF MedInv, MedBusy, MedWorking
  <2>1. /\ medPc' = [medPc EXCEPT ![c] = "judge"] /\ medLinks' = {}
        /\ UNCHANGED <<medConf, medItem, medData, medMet, medCache>>
    BY <1>1 DEF MedStored, MedGo, MedSame
  <2>2. MedTypeOK' /\ LinkedMediaIsSound'
    BY <2>0, <2>1 DEF MedTypeOK, medConf, medCache, LinkedMediaIsSound
  <2>3. medPc'[c] = "judge" /\ ~MedBusy(c)'
    BY <2>0, <2>1 DEF MedTypeOK, MedBusy, MedWorking
  <2>4. MedOwn(c)
    BY <2>0, <2>1, <2>3 DEF MedOwn, MedTypeOK, medCache
  <2> QED BY <1>1, <2>1, <2>2, <2>3, <2>4, MedOneStep
<1>2. CASE ~(medItem[c] \in MedImages /\ medAudit # "none")
  BY <1>2, MedLinkStep DEF MedStored
<1> QED BY <1>1, <1>2

\* A crash ends the calls and leaves the files.
LEMMA MedCrashStep == MedInv /\ MedCrash => MedInv'
<1> SUFFICES ASSUME MedInv, MedCrash PROVE MedInv'
  OBVIOUS
<1>1. MedTypeOK' /\ LinkedMediaIsSound'
  BY DEF MedInv, MedCrash, MedSame, MedTypeOK, MedFiles, medConf, medCache, LinkedMediaIsSound
<1>2. \A c \in MedCalls : medPc'[c] = "idle"
  BY DEF MedCrash
<1> QED BY <1>1, <1>2 DEF MedInv, MedOk, MedBusy, MedWorking

\* Every step of the audit, the conversions and the uploads keeps the invariant.
LEMMA MedInvStep == MedInv /\ [MedNext]_medVars => MedInv'
<1> SUFFICES ASSUME MedInv, [MedNext]_medVars PROVE MedInv'
  OBVIOUS
<1>1. ASSUME NEW c \in MedCalls, MedPost(c) \/ MedPut(c) PROVE MedInv'
  BY <1>1, MedStoredStep DEF MedPost, MedPut
<1>2. ASSUME NEW c \in MedCalls, MedFails(c) PROVE MedInv'
  BY <1>2, MedFailStep DEF MedFails
<1>3. ASSUME NEW c \in MedCalls, MedJudge(c) PROVE MedInv'
  BY <1>3, MedFailStep, MedLinkStep DEF MedJudge
<1>4. ASSUME NEW c \in MedCalls, MedJudgeAliyun(c) PROVE MedInv'
  <2>0. MedOk(c) /\ medPc[c] = "judge"
    BY <1>4 DEF MedInv, MedJudgeAliyun
  <2>1. MedJudged[medItem[c]] \in {"pass", "refuse"}
    BY <2>0, MedAssumption DEF MedOk
  <2>2. PICK judged \in BOOLEAN : IF judged /\ MedJudged[medItem[c]] = "refuse"
                                  THEN MedOver(c) /\ medLinks' = {} ELSE MedLink(c, judged)
    BY <1>4 DEF MedJudgeAliyun
  <2> QED BY <2>0, <2>1, <2>2, MedFailStep, MedLinkStep
<1>5. CASE UNCHANGED medVars
  BY <1>5 DEF medVars, medConf, medCache, MedInv, MedTypeOK, LinkedMediaIsSound, MedOk, MedBusy, MedAt, MedSource
<1> QED BY <1>1, <1>2, <1>3, <1>4, <1>5, MedBeginStep, MedConvertStep, MedCrashStep DEF MedNext

\* A link in a reply leads to media that were audited and converted whole, unless
\* two callbacks worked on the same recording at once.
THEOREM LinkedMediaStaysSound == MedSpec => []LinkedMediaIsSound
<1>1. MedInv => LinkedMediaIsSound
  BY DEF MedInv
<1> QED BY <1>1, MedInvInit, MedInvStep, PTL DEF MedSpec
=============================================================================
