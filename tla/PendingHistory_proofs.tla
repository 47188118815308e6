------------------------- MODULE PendingHistory_proofs -------------------------
(****************************************************************************)
(* Facts about the history cut that hold for every queue, every size and    *)
(* every budget.                                                            *)
(****************************************************************************)
EXTENDS PendingHistory, WellFoundedInduction, TLAPS

\* A non-empty set of natural numbers has a minimum.
LEMMA MinExists ==
    ASSUME NEW S \in SUBSET Nat, S # {}
    PROVE  Min(S) \in S /\ \A y \in S : Min(S) =< y
<1>1. IsWellFoundedOn(OpToRel(<, Nat), Nat)
  BY NatLessThanWellFounded
<1>2. PICK x \in S : \A y \in S : ~ (<<y, x>> \in OpToRel(<, Nat))
  BY <1>1, WFMin
<1>3. ASSUME NEW y \in S
      PROVE  x =< y
  <2>1. ~ (<<y, x>> \in {ss \in Nat \X Nat : ss[1] < ss[2]})
    BY <1>2, Zenon DEF OpToRel
  <2>2. x \in Nat /\ y \in Nat
    OBVIOUS
  <2>3. ~ (y < x)
    BY <2>1, <2>2
  <2>4. QED
    BY <2>2, <2>3
<1>4. QED
  BY <1>3 DEF Min

\* The loop takes between none and all of the queue.
LEMMA TakenCountType ==
    ASSUME NEW msgs \in Seq(Replies), NEW cur
    PROVE  TakenCount(msgs, cur) \in 0 .. Len(msgs)
<1>1. CASE Overflows(msgs, cur) = {}
  BY <1>1 DEF TakenCount
<1>2. CASE Overflows(msgs, cur) # {}
  <2>1. Overflows(msgs, cur) \in SUBSET Nat
    BY DEF Overflows
  <2>2. Min(Overflows(msgs, cur)) \in Overflows(msgs, cur)
    BY <1>2, <2>1, MinExists
  <2>3. Min(Overflows(msgs, cur)) \in 1 .. Len(msgs)
    BY <2>2 DEF Overflows
  <2>4. QED
    BY <1>2, <2>3 DEF TakenCount
<1>3. QED
  BY <1>1, <1>2

\* The history is a prefix of the queue.
LEMMA TakenIsPrefix ==
    ASSUME NEW msgs \in Seq(Replies), NEW cur
    PROVE  /\ Taken(msgs, cur) \in Seq(Replies)
           /\ Len(Taken(msgs, cur)) = TakenCount(msgs, cur)
           /\ \A i \in 1 .. TakenCount(msgs, cur) : Taken(msgs, cur)[i] = msgs[i]
  BY TakenCountType DEF Taken

\* The answer shows the history from its end.
LEMMA ShownIsReverse ==
    ASSUME NEW msgs \in Seq(Replies), NEW cur
    PROVE  LET n == TakenCount(msgs, cur)
           IN  /\ n \in 0 .. Len(msgs)
               /\ Shown(msgs, cur) \in Seq(Replies)
               /\ Len(Shown(msgs, cur)) = n
               /\ \A i \in 1 .. n : Shown(msgs, cur)[i] = msgs[n + 1 - i]
<1> DEFINE n == TakenCount(msgs, cur)
           t == Taken(msgs, cur)
<1>1. /\ n \in 0 .. Len(msgs) /\ t \in Seq(Replies) /\ Len(t) = n
      /\ \A i \in 1 .. n : t[i] = msgs[i]
  BY TakenCountType, TakenIsPrefix
<1>2. Shown(msgs, cur) = [i \in 1 .. Len(t) |-> t[(Len(t) - i) + 1]]
  BY DEF Shown, Reverse
<1> HIDE DEF n, t
<1>3. \A i \in 1 .. n : (n - i) + 1 \in 1 .. n /\ n + 1 - i = (n - i) + 1
  BY <1>1
<1>4. Shown(msgs, cur) \in Seq(Replies) /\ Len(Shown(msgs, cur)) = n
  BY <1>1, <1>2, <1>3
<1>5. \A i \in 1 .. n : Shown(msgs, cur)[i] = msgs[n + 1 - i]
  BY <1>1, <1>2, <1>3
<1> QED BY <1>1, <1>4, <1>5 DEF n

\* Every message that is taken is shown.
LEMMA TakenIsShown ==
    ASSUME NEW msgs \in Seq(Replies), NEW cur, NEW i \in 1 .. TakenCount(msgs, cur)
    PROVE  \E j \in DOMAIN Shown(msgs, cur) : Shown(msgs, cur)[j] = msgs[i]
<1> DEFINE n == TakenCount(msgs, cur)
<1>1. /\ n \in 0 .. Len(msgs) /\ Shown(msgs, cur) \in Seq(Replies) /\ Len(Shown(msgs, cur)) = n
      /\ \A j \in 1 .. n : Shown(msgs, cur)[j] = msgs[n + 1 - j]
  BY ShownIsReverse
<1> HIDE DEF n
<1>2. n + 1 - i \in 1 .. n /\ n + 1 - (n + 1 - i) = i
  BY <1>1 DEF n
<1> QED BY <1>1, <1>2

\* Nothing is queued afterwards that was not queued before, although the
\* slice is read beyond its new end.
LEMMA LeftComesFromQueue ==
    ASSUME NEW msgs \in Seq(Replies), NEW cur
    PROVE  /\ Left(msgs, cur) \in Seq(Replies)
           /\ Len(Left(msgs, cur)) = Len(msgs) - TakenCount(msgs, cur)
           /\ \A i \in DOMAIN Left(msgs, cur) : \E j \in DOMAIN msgs : Left(msgs, cur)[i] = msgs[j]
<1> DEFINE ii == TakenCount(msgs, cur)
           s == ShiftedDown(msgs, ii + 1)
<1>1. ii \in 0 .. Len(msgs)
  BY TakenCountType
<1>2. CASE ii = Len(msgs)
  BY <1>1, <1>2 DEF Left
<1>3. CASE ii # Len(msgs)
  <2>1. s \in Seq(Replies) /\ Len(s) = Len(msgs)
    BY <1>1 DEF ShiftedDown
  <2>2. \A i \in 1 .. Len(s) : \E j \in DOMAIN msgs : s[i] = msgs[j]
    BY <1>1 DEF ShiftedDown
  <2>3. Left(msgs, cur) = SubSeq(s, ii + 1, Len(msgs))
    BY <1>3 DEF Left
  <2> HIDE DEF s, ii
  <2>4. Left(msgs, cur) \in Seq(Replies) /\ Len(Left(msgs, cur)) = Len(msgs) - ii
    BY <1>1, <1>3, <2>1, <2>3
  <2>5. ASSUME NEW i \in DOMAIN Left(msgs, cur)
        PROVE  \E j \in DOMAIN msgs : Left(msgs, cur)[i] = msgs[j]
    <3>1. i \in 1 .. Len(msgs) - ii
      BY <2>4, <2>5
    <3>2. Left(msgs, cur)[i] = s[ii + i]
      BY <1>1, <1>3, <2>1, <2>3, <3>1
    <3>3. ii + i \in 1 .. Len(s)
      BY <1>1, <2>1, <3>1
    <3>4. QED
      BY <2>2, <3>2, <3>3
  <2>6. QED
    BY <2>4, <2>5 DEF ii
<1>4. QED
  BY <1>2, <1>3

\* One fetch loses at most one stored reply: the one at which the loop
\* stopped.  Every other reply is in the history or still queued.
THEOREM FetchLosesAtMostOne ==
    ASSUME NEW msgs \in Seq(Replies), NEW cur, NEW i \in DOMAIN msgs,
           i # TakenCount(msgs, cur) + 1
    PROVE  \/ \E j \in DOMAIN Shown(msgs, cur) : Shown(msgs, cur)[j] = msgs[i]
           \/ \E j \in DOMAIN Left(msgs, cur) : Left(msgs, cur)[j] = msgs[i]
<1> DEFINE ii == TakenCount(msgs, cur)
           s == ShiftedDown(msgs, ii + 1)
<1>1. ii \in 0 .. Len(msgs)
  BY TakenCountType
<1>2. CASE i <= ii
  BY <1>1, <1>2, TakenIsShown
<1>3. CASE i > ii + 1
  <2>1. s \in Seq(Replies) /\ Len(s) = Len(msgs) /\ s[i - 1] = msgs[i]
    BY <1>1, <1>3 DEF ShiftedDown
  <2>2. Left(msgs, cur) = SubSeq(s, ii + 1, Len(msgs))
    BY <1>1, <1>3 DEF Left
  <2> HIDE DEF s, ii
  <2>3. i - 1 - ii \in DOMAIN Left(msgs, cur) /\ Left(msgs, cur)[i - 1 - ii] = s[i - 1]
    BY <1>1, <1>3, <2>1, <2>2
  <2>4. QED
    BY <2>1, <2>3
<1>4. QED
  BY <1>1, <1>2, <1>3

=============================================================================
