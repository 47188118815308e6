------------------------------ MODULE ConsoleLogin ------------------------------
(* The logins of the web console: a browser that sends the right name and   *)
(* password gets a random cookie, which is stored with its time of expiry   *)
(* in a bolt file and never removed.  The file stays across restarts, and   *)
(* the console itself can end the process at any moment.                    *)
EXTENDS Naturals

CONSTANTS
    ConBrowsers,
    ConLife,     \* ExpirationHours
    ConLogins,   \* bound: cookies ever made
    ConTime      \* bound: the time

ASSUME ConAssumption == ConLife \in Nat \ {0} /\ ConLogins \in Nat /\ ConTime \in Nat

ConCookies == 1 .. ConLogins  \* in the order they are made; 0 is none

VARIABLES
    conNow,
    conMade,   \* number of cookies made
    conDb,     \* conDb[c]: the time until which cookie c holds, 0 when not stored
    conPc,     \* conPc[b]: what the request of browser b is about
    conFresh,  \* conFresh[b], conAt[b]: the cookie its login has made, and when
    conAt,
    conHeld,   \* conHeld[b], conSince[b]: the cookie browser b has got, and when
    conSince,  \*     it was made
    conTold    \* conTold[b]: what it was told last

conServer == <<conMade, conDb>>
conBrowser == <<conHeld, conSince, conTold>>
conLogin == <<conPc, conFresh, conAt>>
conVars == <<conNow, conServer, conLogin, conBrowser>>

ConInit == /\ conNow = 0 /\ conMade = 0
           /\ conDb = [c \in ConCookies |-> 0]
           /\ conPc = [b \in ConBrowsers |-> "idle"]
           /\ conFresh = [b \in ConBrowsers |-> 0]
           /\ conAt = [b \in ConBrowsers |-> 0]
           /\ conHeld = [b \in ConBrowsers |-> 0]
           /\ conSince = [b \in ConBrowsers |-> 0]
           /\ conTold = [b \in ConBrowsers |-> "nothing"]

ConTick == /\ conNow < ConTime
           /\ conNow' = conNow + 1
           /\ UNCHANGED <<conServer, conLogin, conBrowser>>

-----------------------------------------------------------------------------
(* HandleLoginRequest.                                                      *)

\* A wrong name or password is answered at once; with the right ones
\* GenerateCookie makes a cookie, takes the time ...
ConAsk(b) ==
    /\ conPc[b] = "idle"
    /\ \/ /\ conTold' = [conTold EXCEPT ![b] = "refused"]
          /\ UNCHANGED <<conMade, conLogin>>
       \/ /\ conMade < ConLogins
          /\ conMade' = conMade + 1
          /\ conFresh' = [conFresh EXCEPT ![b] = conMade + 1]
          /\ conAt' = [conAt EXCEPT ![b] = conNow]
          /\ conPc' = [conPc EXCEPT ![b] = "store"]
          /\ UNCHANGED conTold
    /\ UNCHANGED <<conNow, conDb, conHeld, conSince>>

\* ... and stores the two in a transaction, after which the browser is
\* answered.
ConStore(b) ==
    /\ conPc[b] = "store"
    /\ conDb' = [conDb EXCEPT ![conFresh[b]] = conAt[b] + ConLife]
    /\ conPc' = [conPc EXCEPT ![b] = "answer"]
    /\ UNCHANGED <<conNow, conMade, conFresh, conAt, conBrowser>>

\* SetCookie: the browser keeps the cookie in the place of its last one.
ConAnswer(b) ==
    /\ conPc[b] = "answer"
    /\ conHeld' = [conHeld EXCEPT ![b] = conFresh[b]]
    /\ conSince' = [conSince EXCEPT ![b] = conAt[b]]
    /\ conTold' = [conTold EXCEPT ![b] = "in"]
    /\ conPc' = [conPc EXCEPT ![b] = "idle"]
    /\ conFresh' = [conFresh EXCEPT ![b] = 0]
    /\ conAt' = [conAt EXCEPT ![b] = 0]
    /\ UNCHANGED <<conNow, conServer>>

\* The browser drops the cookie when it is as old, counted from the answer,
\* which has taken any time.
ConForget(b) ==
    /\ conHeld[b] # 0 /\ conNow >= conSince[b] + ConLife
    /\ conHeld' = [conHeld EXCEPT ![b] = 0]
    /\ conSince' = [conSince EXCEPT ![b] = 0]
    /\ conTold' = [conTold EXCEPT ![b] = "nothing"]
    /\ UNCHANGED <<conNow, conServer, conLogin>>

-----------------------------------------------------------------------------
(* HandleCheckLoginStatusRequest.                                           *)

\* ValidateCookie.
ConVerdict(c) == IF c = 0 THEN "notProvided"
                 ELSE IF conDb[c] = 0 THEN "notFound"
                 ELSE IF conNow > conDb[c] THEN "expired" ELSE "in"

ConCheck(b) ==
    /\ conPc[b] = "idle"
    /\ conTold' = [conTold EXCEPT ![b] = ConVerdict(conHeld[b])]
    /\ UNCHANGED <<conNow, conServer, conLogin, conHeld, conSince>>

\* Variant: InitializeDB begins with an empty bucket.
ConRestartEmpty ==
    /\ conPc' = [b \in ConBrowsers |-> "idle"]
    /\ conFresh' = [b \in ConBrowsers |-> 0] /\ conAt' = [b \in ConBrowsers |-> 0]
    /\ conDb' = [c \in ConCookies |-> 0]
    /\ UNCHANGED <<conNow, conMade, conBrowser>>

\* The process ends, by the console's request, a restart or a crash, and
\* starts again; InitializeDB creates the bucket only if there is none.
ConRestart ==
    /\ conPc' = [b \in ConBrowsers |-> "idle"]
    /\ conFresh' = [b \in ConBrowsers |-> 0] /\ conAt' = [b \in ConBrowsers |-> 0]
    /\ UNCHANGED <<conNow, conServer, conBrowser>>

\* CombinedMiddleware: a login, a check, and the request that ends the process;
\* config.yml has requests of its own (ConfigFile), the logs a hub (LogHub),
\* and the others change nothing.
ConNext == \/ ConTick \/ ConRestart
           \/ \E b \in ConBrowsers : \/ ConAsk(b) \/ ConStore(b) \/ ConAnswer(b)
                                     \/ ConForget(b) \/ ConCheck(b)

ConSpec == ConInit /\ [][ConNext]_conVars

-----------------------------------------------------------------------------
(* Properties.                                                              *)

ConTypeOK ==
    /\ conNow \in 0 .. ConTime /\ conMade \in 0 .. ConLogins
    /\ conDb \in [ConCookies -> 0 .. ConTime + ConLife]
    /\ conPc \in [ConBrowsers -> {"idle", "store", "answer"}]
    /\ conFresh \in [ConBrowsers -> 0 .. ConLogins]
    /\ conAt \in [ConBrowsers -> 0 .. ConTime]
    /\ conHeld \in [ConBrowsers -> 0 .. ConLogins]
    /\ conSince \in [ConBrowsers -> 0 .. ConTime]
    /\ conTold \in [ConBrowsers -> {"nothing", "refused", "in", "notProvided",
                                    "notFound", "expired"}]

\* A browser that was told it is logged in stays so for the cookie's life,
\* through restarts at any moment and the logins of other browsers: its
\* cookie is never unknown to the server nor expired before, and never that
\* of another browser.
LoginHolds ==
    \A b \in ConBrowsers :
        /\ conTold[b] # "notFound"
        /\ conHeld[b] # 0 =>
              /\ conNow <= conSince[b] + ConLife => ConVerdict(conHeld[b]) = "in"
              /\ \A o \in ConBrowsers \ {b} : conHeld[o] # conHeld[b]
=============================================================================
