---------------------------- MODULE MCAccessToken ----------------------------
\* Two calls, three tokens.  The lifetimes: one too short to be kept, and two
\* whose periods differ by less than the five seconds the ticker tolerates.
EXTENDS AccessToken
CONSTANTS a, b
MCCalls == {a, b}
MCLifetimes == {5, 61, 65}
=============================================================================
