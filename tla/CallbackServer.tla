---------------------------- MODULE CallbackServer ----------------------------
(* core.Server: every request of WeChat is signed with a token and, in safe *)
(* mode, its body is encrypted with an AES key.  An operator rotates each   *)
(* secret: first in the server, which keeps the last one, then with WeChat. *)
(* The first request that comes with the current secret tells the server    *)
(* to drop the last one.  Requests run on goroutines of their own; they     *)
(* read the two secrets with one atomic load and drop the last one under a  *)
(* mutex.  The answer is signed and encrypted with the secrets that fitted  *)
(* the request.                                                             *)
(* SetToken and SetAESKey are the server's interface; main sets each secret *)
(* once, when it makes the server.                                          *)
EXTENDS Naturals

CONSTANTS
    CbReqs,      \* requests of WeChat
    CbRotations  \* bound: how often each secret is rotated

ASSUME CbAssumption == CbRotations \in Nat

\* The token and the AES key.  A secret is the number of rotations that led
\* to it, counted from 1: a new secret was never used before.  0 is none.
CbKinds == {"token", "key"}
CbSecrets == 0 .. CbRotations + 1
CbNone == [k \in CbKinds |-> 0]
CbModes == {"get", "raw", "aes"}

VARIABLES
    cbCur,     \* cbCur[k]: currentToken, currentAESKey
    cbLast,    \* cbLast[k]: lastToken, lastAESKey
    cbWx,      \* cbWx[k]: the secret WeChat uses
    cbPc,      \* cbPc[r]: what request r is about
    cbMade,    \* cbMade[r]: the secrets r was made with
    cbKind,    \* cbKind[r]: a check of the address, a plain or an encrypted message
    cbFit,     \* cbFit[r]: r passes the checks of account and body
    cbSaw,     \* cbSaw[r]: the last secret r has read and is to drop
    cbCtx      \* cbCtx[r]: Context.Token and AESKey

cbReq == <<cbMade, cbKind, cbFit>>
cbVars == <<cbCur, cbLast, cbWx, cbPc, cbReq, cbSaw, cbCtx>>

CbInit == /\ cbCur = [k \in CbKinds |-> 1]
          /\ cbLast = [k \in CbKinds |-> 0]
          /\ cbWx = [k \in CbKinds |-> 1]
          /\ cbPc = [r \in CbReqs |-> "idle"]
          /\ cbMade = [r \in CbReqs |-> CbNone]
          /\ cbKind = [r \in CbReqs |-> "get"]
          /\ cbFit = [r \in CbReqs |-> FALSE]
          /\ cbSaw = [r \in CbReqs |-> 0]
          /\ cbCtx = [r \in CbReqs |-> CbNone]

-----------------------------------------------------------------------------
(* The operator and WeChat.                                                 *)

\* The next secret replaces the current one, which is kept as the last one.
\* Only once WeChat uses the current secret.
CbSet(k) ==
    /\ cbCur[k] <= CbRotations
    /\ cbWx[k] = cbCur[k]
    /\ cbCur' = [cbCur EXCEPT ![k] = @ + 1]
    /\ cbLast' = [cbLast EXCEPT ![k] = cbCur[k]]
    /\ UNCHANGED <<cbWx, cbPc, cbReq, cbSaw, cbCtx>>

CbSetToken == CbSet("token")
CbSetAESKey == CbSet("key")

CbSwitch(k) ==
    /\ cbWx[k] # cbCur[k]
    /\ cbWx' = [cbWx EXCEPT ![k] = cbCur[k]]
    /\ UNCHANGED <<cbCur, cbLast, cbPc, cbReq, cbSaw, cbCtx>>

\* A message or event, plain or encrypted, or the check of the address (GET,
\* plain); one without all its parameters does not get any further.
CbSend(r) ==
    /\ cbPc[r] = "idle"
    /\ cbPc' = [cbPc EXCEPT ![r] = "token"]
    /\ cbMade' = [cbMade EXCEPT ![r] = cbWx]
    /\ \E m \in CbModes, f \in BOOLEAN : /\ m = "get" => f
                                         /\ cbKind' = [cbKind EXCEPT ![r] = m]
                                         /\ cbFit' = [cbFit EXCEPT ![r] = f]
    /\ UNCHANGED <<cbCur, cbLast, cbWx, cbSaw, cbCtx>>

-----------------------------------------------------------------------------
(* ServeHTTP.                                                               *)

\* What follows when the secret of kind k is the right one: after the token
\* the echo of a check of the address, or the checks of the account and the
\* body, and for an encrypted message the AES key; then the handler.
CbAfter(r, k) == IF k = "token" /\ cbKind[r] # "get" /\ ~cbFit[r] THEN "over"
                 ELSE IF k = "token" /\ cbKind[r] = "aes" THEN "key"
                 ELSE IF cbKind[r] = "get" THEN "over" ELSE "serve"

CbDropOf(k) == IF k = "token" THEN "dropToken" ELSE "dropKey"

\* The comparison with the current secret and, if that fails, the last one.
CbGo(r, k) ==
    LET current == cbMade[r][k] = cbCur[k]
        drop == current /\ cbLast[k] # 0
    IN /\ cbSaw' = [cbSaw EXCEPT ![r] = IF drop THEN cbLast[k] ELSE 0]
       /\ cbPc' = [cbPc EXCEPT ![r] = IF drop THEN CbDropOf(k)
                                      ELSE IF current \/ cbMade[r][k] = cbLast[k]
                                      THEN CbAfter(r, k) ELSE "rejected"]

\* Variant: the context gets the current secret, whichever fitted.
CbCompareCurrent(r, k) ==
    /\ cbPc[r] = k
    /\ CbGo(r, k)
    /\ cbCtx' = [cbCtx EXCEPT ![r][k] = cbCur[k]]
    /\ UNCHANGED <<cbCur, cbLast, cbWx, cbReq>>

\* getToken or getAESKey; the secret that fits goes into the context.
CbCompare(r, k) ==
    /\ cbPc[r] = k
    /\ CbGo(r, k)
    /\ cbCtx' = [cbCtx EXCEPT ![r][k] = IF cbMade[r][k] = cbCur[k] THEN cbCur[k] ELSE cbLast[k]]
    /\ UNCHANGED <<cbCur, cbLast, cbWx, cbReq>>

\* Variant: the last secret is dropped whether or not it is the one read.
CbDropAny(r, k) ==
    /\ cbPc[r] = CbDropOf(k)
    /\ cbLast' = [cbLast EXCEPT ![k] = 0]
    /\ cbPc' = [cbPc EXCEPT ![r] = CbAfter(r, k)]
    /\ cbSaw' = [cbSaw EXCEPT ![r] = 0]
    /\ UNCHANGED <<cbCur, cbWx, cbReq, cbCtx>>

\* removeLastToken, removeLastAESKey: only the last secret that was read.
CbDrop(r, k) ==
    /\ cbPc[r] = CbDropOf(k)
    /\ cbLast' = IF cbLast[k] = cbSaw[r] THEN [cbLast EXCEPT ![k] = 0] ELSE cbLast
    /\ cbPc' = [cbPc EXCEPT ![r] = CbAfter(r, k)]
    /\ cbSaw' = [cbSaw EXCEPT ![r] = 0]
    /\ UNCHANGED <<cbCur, cbWx, cbReq, cbCtx>>

\* The handler's answer, after any time: AESResponse, or NoneResponse, which
\* needs no secret.  The context of a plain message has no AES key, and its
\* AESResponse panics.
CbAnswer(r) ==
    /\ cbPc[r] = "serve"
    /\ \E a \in {"over", IF cbKind[r] = "aes" THEN "answered" ELSE "over"} :
           cbPc' = [cbPc EXCEPT ![r] = a]
    /\ UNCHANGED <<cbCur, cbLast, cbWx, cbReq, cbSaw, cbCtx>>

CbEnds == {"over", "answered", "rejected"}

\* The connection ends and the next request comes.
CbEnd(r) ==
    /\ cbPc[r] \in CbEnds
    /\ cbPc' = [cbPc EXCEPT ![r] = "idle"]
    /\ cbMade' = [cbMade EXCEPT ![r] = CbNone]
    /\ cbKind' = [cbKind EXCEPT ![r] = "get"]
    /\ cbFit' = [cbFit EXCEPT ![r] = FALSE]
    /\ cbSaw' = [cbSaw EXCEPT ![r] = 0]
    /\ cbCtx' = [cbCtx EXCEPT ![r] = CbNone]
    /\ UNCHANGED <<cbCur, cbLast, cbWx>>

CbNext == \/ CbSetToken \/ CbSetAESKey
          \/ \E k \in CbKinds : CbSwitch(k)
          \/ \E r \in CbReqs : \/ CbSend(r) \/ CbAnswer(r) \/ CbEnd(r)
                               \/ \E k \in CbKinds : CbCompare(r, k) \/ CbDrop(r, k)

CbSpec == CbInit /\ [][CbNext]_cbVars

-----------------------------------------------------------------------------
(* Properties.                                                              *)

CbTypeOK ==
    /\ cbCur \in [CbKinds -> CbSecrets] /\ cbLast \in [CbKinds -> CbSecrets]
    /\ cbWx \in [CbKinds -> CbSecrets]
    /\ cbPc \in [CbReqs -> {"idle", "token", "dropToken", "key", "dropKey",
                            "serve"} \cup CbEnds]
    /\ cbMade \in [CbReqs -> [CbKinds -> CbSecrets]]
    /\ cbKind \in [CbReqs -> CbModes] /\ cbFit \in [CbReqs -> BOOLEAN]
    /\ cbSaw \in [CbReqs -> CbSecrets]
    /\ cbCtx \in [CbReqs -> [CbKinds -> CbSecrets]]

\* A request is refused for its signature or its key only when WeChat has
\* gone on to another secret since it made the request.  Requests that come
\* with the current secret while others still come with the last one, and
\* that drop it after any delay and any further rotation, never lock out
\* requests made with the secret in use.
RejectedOnlyOutdated ==
    [][\A r \in CbReqs, k \in CbKinds :
          (cbPc[r] = k /\ cbPc'[r] = "rejected") => cbMade[r][k] # cbWx[k]]_cbVars

\* However often the secrets are rotated between a request and its answer,
\* which may be seconds later: the answer is signed and encrypted with
\* the secrets the request was made with, so that WeChat can read it.
AnsweredReadably ==
    \A r \in CbReqs : cbPc[r] = "answered" => cbCtx[r] = cbMade[r]
=============================================================================
