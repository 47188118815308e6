------------------------------- MODULE MCWsLink -------------------------------
\* Up to three connections in a row and one retry per Reconnect; one event to
\* report, or two where a failing one shall meet a resent one.
EXTENDS WsLink
CONSTANTS e1, e2
MCEvents == {e1, e2}
MCOneEvent == {e1}
=============================================================================
