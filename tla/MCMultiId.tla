------------------------------- MODULE MCMultiId -------------------------------
\* Two followers with one alternative each; three switches, two of them of one
\* follower; one edit of the file.
EXTENDS MultiId
CONSTANTS o1, o2, a1, a2, s1, s2, s3
MCOrigins == {o1, o2}
MCIds == {o1, o2, a1, a2}
MCChoices == [o \in Origins |-> IF o = o1 THEN {o1, a1} ELSE {o2, a2}]
MCFirst == [o \in Origins |-> o]
MCSwitchers == {s1, s2, s3}
MCWho == [s \in Switchers |-> IF s = s2 THEN o2 ELSE o1]
=============================================================================
