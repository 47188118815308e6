------------------------------ MODULE ShortLinks ------------------------------
(* url: a long link gets the six digits of its hash as its short code, or   *)
(* when that code is taken random characters until a code is free.  Looking *)
(* a code up and storing it are two bolt transactions, and requests of      *)
(* users and of other instances come at the same time.  The codes stay in   *)
(* the file across restarts, and a link with a code redirects to the long   *)
(* link.                                                                    *)
(*                                                                          *)
(* An instance in lotus mode lets this one make the link, and then appends  *)
(* it, a whole link, to its own address as if it were a code: no route      *)
(* leads to such a nested link.                                             *)
CONSTANTS
    LnkMakers,  \* goroutines making links
    LnkLotus,   \* those of them that serve an instance in lotus mode
    LnkLongs,   \* long links: [scheme, host, html] and a name
    LnkCodes,   \* short codes; random characters may give any
    LnkHash,    \* LnkHash[l]: the code the hash gives
    LnkNone,
    LnkNested   \* an address put behind another one, which leads nowhere

\* A scheme may be written in capitals; a host is a public one or a name,
\* this computer, or in a private network; html says that there are tags.
LnkSchemes == {"http", "HTTP", "javascript"}
LnkHosts == {"public", "localhost", "private"}

ASSUME LnkAssumption == /\ LnkLotus \subseteq LnkMakers
                        /\ LnkHash \in [LnkLongs -> LnkCodes]
                        /\ \A l \in LnkLongs : /\ l.scheme \in LnkSchemes
                                              /\ l.host \in LnkHosts
                                              /\ l.html \in BOOLEAN
                        /\ LnkNone \notin LnkLongs /\ LnkNone \notin LnkCodes
                        /\ LnkNested \notin LnkCodes

VARIABLES
    lnkDb,     \* lnkDb[c]: the long link stored under code c
    lnkOpen,   \* the database is open
    lnkPc,     \* lnkPc[m]: what maker m is about
    lnkLong,   \* lnkLong[m], lnkCode[m]: its long link and the code it tries
    lnkCode,
    lnkGiven,  \* history: the pairs of short and long link answered to users
    lnkRaced   \* history: the codes two makers found free at once

lnkLocal == <<lnkPc, lnkLong, lnkCode>>
lnkVars == <<lnkDb, lnkOpen, lnkLocal, lnkGiven, lnkRaced>>

LnkInit == /\ lnkDb = [c \in LnkCodes |-> LnkNone]
           /\ lnkOpen = TRUE
           /\ lnkPc = [m \in LnkMakers |-> "idle"]
           /\ lnkLong = [m \in LnkMakers |-> LnkNone]
           /\ lnkCode = [m \in LnkMakers |-> LnkNone]
           /\ lnkGiven = {} /\ lnkRaced = {}

-----------------------------------------------------------------------------
(* CreateShortURLHandler and GenerateShortURL.                              *)

\* isValidURL: parsing takes a scheme in capitals for the one in small letters.
LnkValid(l) == l.scheme \in {"http", "HTTP"} /\ l.host \notin {"localhost", "private"}

LnkMalicious(l) == l.scheme = "javascript" \/ l.html

\* What is refused leaves no trace.
LnkAsk(m, l) ==
    /\ lnkPc[m] = "idle"
    /\ LnkValid(l) /\ ~LnkMalicious(l)
    /\ lnkPc' = [lnkPc EXCEPT ![m] = "look"]
    /\ lnkLong' = [lnkLong EXCEPT ![m] = l]
    /\ lnkCode' = [lnkCode EXCEPT ![m] = LnkHash[l]]
    /\ UNCHANGED <<lnkDb, lnkOpen, lnkGiven, lnkRaced>>

\* Variant: the code of the hash is taken without a look.
LnkLookNot(m) ==
    /\ lnkPc[m] = "look" /\ lnkOpen
    /\ lnkPc' = [lnkPc EXCEPT ![m] = "store"]
    /\ UNCHANGED <<lnkDb, lnkOpen, lnkLong, lnkCode, lnkGiven, lnkRaced>>

\* existsInDB: a free code is stored next, for a taken one another is drawn.
LnkLook(m) ==
    /\ lnkPc[m] = "look" /\ lnkOpen
    /\ IF lnkDb[lnkCode[m]] = LnkNone
       THEN /\ lnkPc' = [lnkPc EXCEPT ![m] = "store"]
            /\ lnkRaced' = IF \E o \in LnkMakers : /\ lnkPc[o] = "store"
                                                   /\ lnkCode[o] = lnkCode[m]
                           THEN lnkRaced \cup {lnkCode[m]} ELSE lnkRaced
            /\ UNCHANGED lnkCode
       ELSE /\ \E c \in LnkCodes : lnkCode' = [lnkCode EXCEPT ![m] = c]
            /\ UNCHANGED <<lnkPc, lnkRaced>>
    /\ UNCHANGED <<lnkDb, lnkOpen, lnkLong, lnkGiven>>

LnkEnd(m) == /\ lnkPc' = [lnkPc EXCEPT ![m] = "idle"]
             /\ lnkLong' = [lnkLong EXCEPT ![m] = LnkNone]
             /\ lnkCode' = [lnkCode EXCEPT ![m] = LnkNone]

\* What the user gets whose maker has code c.
LnkAnswer(m, c) == IF m \in LnkLotus THEN LnkNested ELSE c

\* storeURL writes whatever stands there; the short link is answered.
LnkStore(m) ==
    /\ lnkPc[m] = "store" /\ lnkOpen
    /\ lnkDb' = [lnkDb EXCEPT ![lnkCode[m]] = lnkLong[m]]
    /\ lnkGiven' = lnkGiven \cup {<<LnkAnswer(m, lnkCode[m]), lnkLong[m]>>}
    /\ LnkEnd(m)
    /\ UNCHANGED <<lnkOpen, lnkRaced>>

\* A closed database is an error, which is answered as a link without a code.
LnkFail(m) ==
    /\ lnkPc[m] \in {"look", "store"} /\ ~lnkOpen
    /\ lnkGiven' = lnkGiven \cup {<<LnkAnswer(m, LnkNone), lnkLong[m]>>}
    /\ LnkEnd(m)
    /\ UNCHANGED <<lnkDb, lnkOpen, lnkRaced>>

\* CloseDB at the end of main, while requests are still served.
LnkClose ==
    /\ lnkOpen
    /\ lnkOpen' = FALSE
    /\ UNCHANGED <<lnkDb, lnkLocal, lnkGiven, lnkRaced>>

\* The process ends, or dies, and starts again.
LnkRestart ==
    /\ lnkOpen' = TRUE
    /\ lnkPc' = [m \in LnkMakers |-> "idle"]
    /\ lnkLong' = [m \in LnkMakers |-> LnkNone]
    /\ lnkCode' = [m \in LnkMakers |-> LnkNone]
    /\ UNCHANGED <<lnkDb, lnkGiven, lnkRaced>>

\* getLongURLFromDB.
LnkFound(c) == IF c \in LnkCodes /\ lnkOpen THEN lnkDb[c] ELSE LnkNone

\* RedirectFromShortURLHandler: where a short link leads, LnkNone for nowhere.
\* A link that does not begin with a scheme in small letters is put behind
\* "https://".  (Through an instance in lotus mode always nowhere: it asks this
\* one, whose redirect it follows to a page that is not the answer it expects.)
LnkTarget(c) == IF LnkFound(c) = LnkNone \/ LnkFound(c).scheme = "http" THEN LnkFound(c)
                ELSE LnkNested

LnkNext == \/ LnkClose \/ LnkRestart
           \/ \E m \in LnkMakers : \/ LnkLook(m) \/ LnkStore(m) \/ LnkFail(m)
                                   \/ \E l \in LnkLongs : LnkAsk(m, l)

LnkSpec == LnkInit /\ [][LnkNext]_lnkVars

-----------------------------------------------------------------------------
(* Properties.                                                              *)

LnkTypeOK ==
    /\ lnkDb \in [LnkCodes -> LnkLongs \cup {LnkNone}]
    /\ lnkOpen \in BOOLEAN
    /\ lnkPc \in [LnkMakers -> {"idle", "look", "store"}]
    /\ lnkLong \in [LnkMakers -> LnkLongs \cup {LnkNone}]
    /\ lnkCode \in [LnkMakers -> LnkCodes \cup {LnkNone}]
    /\ lnkGiven \subseteq (LnkCodes \cup {LnkNone, LnkNested}) \X LnkLongs
    /\ lnkRaced \subseteq LnkCodes

\* A short link that was given to a user leads to the long link it was made
\* for, for ever and across restarts, or while the process ends to nowhere;
\* unless two makers found its code free before either had stored it, or the
\* long link's scheme is in capitals.
LinkOpens ==
    \A g \in lnkGiven :
        g[1] \in LnkCodes \ lnkRaced /\ g[2].scheme = "http" =>
            LnkTarget(g[1]) = g[2] \/ (~lnkOpen /\ LnkTarget(g[1]) = LnkNone)
=============================================================================
