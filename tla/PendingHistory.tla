---------------------------- MODULE PendingHistory ----------------------------
(****************************************************************************)
(* The pure part of wsclient.GetPendingMessages: which of a user's stored   *)
(* replies are put in front of an answer as history, and what the slice     *)
(* that is written back to pendingMessages holds afterwards.                *)
(*                                                                          *)
(* A message is only its identity; Size gives the byte length of its text.  *)
(* The history is cut by a byte budget (2047 in the code), and every        *)
(* message is charged the separator "-----历史信息----" (21 bytes).         *)
(****************************************************************************)
EXTENDS Naturals, Sequences, FiniteSets, FiniteSetsExt, SequencesExt

CONSTANTS Replies,  \* the application's replies, the messages that can be stored
          Size,     \* Size[m]: byte length of m's text as history
          Limit,    \* the byte budget of one text answer, 2047
          Sep       \* bytes charged for one separator, 21

ASSUME HistoryAssumption ==
    /\ Size \in [Replies -> Nat]
    /\ Limit \in Nat
    /\ Sep \in Nat

-----------------------------------------------------------------------------

\* totalLength after the first k messages were taken, from currentLength = cur.
Used(msgs, cur) ==
    LET used[k \in 0 .. Len(msgs)] ==
            IF k = 0 THEN cur ELSE used[k - 1] + Size[msgs[k]] + Sep
    IN  used

\* The loop stops at the first message whose text no longer fits.
Overflows(msgs, cur) == {i \in 1 .. Len(msgs) : Used(msgs, cur)[i] > Limit}

\* ii at the end of the loop: how many messages are taken as history.
TakenCount(msgs, cur) ==
    IF Overflows(msgs, cur) = {} THEN Len(msgs)
                                 ELSE Min(Overflows(msgs, cur)) - 1

\* Variant: the newest messages are taken instead of the oldest.
TakenNewest(msgs, cur) ==
    SubSeq(msgs, Len(msgs) - TakenCount(msgs, cur) + 1, Len(msgs))

\* pendingMsgsToReturn.
Taken(msgs, cur) == SubSeq(msgs, 1, TakenCount(msgs, cur))

\* Variant: the history is shown as it was taken.
ShownAsTaken(msgs, cur) == Taken(msgs, cur)

\* The history as the answer shows it, from the top: textMsgHandler puts one
\* message after the other in front of all it has (main.go:632).
Shown(msgs, cur) == Reverse(Taken(msgs, cur))

\* What the slice header msgs shows after append(msgs[:i-1], msgs[i:]...): the
\* elements behind i have moved down in the shared backing array, and the last
\* cell, which the shorter result no longer covers, keeps its old element.
ShiftedDown(msgs, i) ==
    [j \in 1 .. Len(msgs) |-> IF j < i \/ j = Len(msgs) THEN msgs[j]
                                                        ELSE msgs[j + 1]]

\* Variant: the slice is cut one element too far.
LeftSkipsOne(msgs, cur) ==
    LET ii == TakenCount(msgs, cur)
    IN  IF ii = Len(msgs) THEN <<>>
        ELSE SubSeq(ShiftedDown(msgs, ii + 1), ii + 2, Len(msgs))

\* pendingMessages[userid] when GetPendingMessages(userid, true, cur) returns:
\* msgs[ii:], read through the old header msgs (its length is the old one).
Left(msgs, cur) ==
    LET ii == TakenCount(msgs, cur)
    IN  IF ii = Len(msgs) THEN <<>>
        ELSE SubSeq(ShiftedDown(msgs, ii + 1), ii + 1, Len(msgs))

=============================================================================
