--------------------------- MODULE MCReplyExchange ---------------------------
\* Two callbacks of one user (a message and WeChat's retry of it, or two
\* messages in a row) and one of another user; two replies, one of them an
\* image with text.  Limit is ample: no history overflows.
EXTENDS ReplyExchange
CONSTANTS u1, u2, c1, c2, c3, r1, r2
MCUsers == {u1, u2}
MCCallbacks == {c1, c2, c3}
MCPair == {c1, c2}
MCFrom == [c \in Callbacks |-> IF c = c3 THEN u2 ELSE u1]
MCReplies == {r1, r2}
MCShape == [r \in Replies |-> IF r = r2 THEN "mixed" ELSE "text"]
MCSize == [r \in Replies |-> 1]
MCDefaultSize == [c \in Callbacks |-> IF c = c1 THEN 2 ELSE 0]
=============================================================================
