---------------------------- MODULE CallbackBodies ----------------------------
(* The bodies of encrypted callbacks.  A body is read into a buffer of a    *)
(* pool; the encrypted text found in it is no copy but a part of the        *)
(* buffer, which goes back to the pool when ServeHTTP returns.  The text is *)
(* decrypted, becomes a message, and a handler answers to its sender with   *)
(* text sealed the same way.  A callback may come through another instance  *)
(* of the program, which forwards it and hands the answer back.             *)
(* Tokens and keys are in CallbackServer, what handlers do in HandlerMux,   *)
(* ReplyExchange and Welcome.                                               *)
EXTENDS Naturals, Sequences, SequencesExt

CONSTANTS
    BodReqs,      \* requests, each on a goroutine of its own
    BodBuffers,   \* buffers; as many as requests are enough
    BodMessages,  \* what WeChat sends
    BodAccount,   \* the account the server is of
    BodAppId,     \* its appid, as bytes
    BodSizes,     \* sizes of answers
    BodNone

\* A block of PKCS#7 here.
BodBlock == 32

\* The fields of a MixedMsg that are used: the header, text or event, and the
\* rest (id, key, media, ...) as a size; and how WeChat wrote the body: usual, or
\* so that only encoding/xml reads it.
BodMixed == [from : STRING, to : STRING, type : {"text", "click", "other"},
             size : Nat, mark : 0 .. 255, usual : BOOLEAN]

ASSUME BodAssumption ==
    /\ BodMessages \subseteq BodMixed
    /\ BodAppId \in Seq(0 .. 255) \ {<<>>} /\ BodSizes \subseteq Nat
    /\ BodNone \notin BodMessages /\ BodNone \notin [text : Seq(Nat), appId : Seq(Nat)]

VARIABLES
    bodMsg,   \* bodMsg[r]: the message r carries
    bodVia,   \* bodVia[r]: r comes through a forwarding instance
    bodPc,    \* bodPc[r]: where r is
    bodPool,  \* buffers that are free
    bodText,  \* bodText[b]: the message whose text buffer b holds
    bodHas,   \* bodHas[r]: the buffer of r
    bodCopy,  \* bodCopy[r]: the text as a copy; BodNone if it is in the buffer
    bodGot,   \* bodGot[r]: the message the handler gets
    bodAns    \* bodAns[r]: the answer

bodBuf == <<bodPool, bodText, bodHas>>
bodRead == <<bodCopy, bodGot, bodAns>>
bodVars == <<bodMsg, bodVia, bodPc, bodBuf, bodRead>>

BodInit == /\ bodMsg = [r \in BodReqs |-> BodNone]
           /\ bodVia = [r \in BodReqs |-> FALSE]
           /\ bodPc = [r \in BodReqs |-> "none"]
           /\ bodPool = BodBuffers
           /\ bodText = [b \in BodBuffers |-> BodNone]
           /\ bodHas = [r \in BodReqs |-> BodNone]
           /\ bodCopy = [r \in BodReqs |-> BodNone]
           /\ bodGot = [r \in BodReqs |-> BodNone]
           /\ bodAns = [r \in BodReqs |-> BodNone]

-----------------------------------------------------------------------------
(* The layout of what is encrypted; AES itself takes bytes to bytes and     *)
(* back.  Sixteen random bytes, the length in four, the text, the appid,    *)
(* and the padding, whose bytes are its length.                             *)

BodRepeat(byte, n) == [i \in 1 .. n |-> byte]

\* encodeNetworkByteOrder; decodeNetworkByteOrder.
BodEncode(n) == <<n \div 16777216, (n \div 65536) % 256, (n \div 256) % 256, n % 256>>
BodDecode(b) == b[1] * 16777216 + b[2] * 65536 + b[3] * 256 + b[4]

\* Variant: a content that fills its blocks is not padded.
BodPadNone(n) == (BodBlock - (n % BodBlock)) % BodBlock

BodPad(n) == BodBlock - (n % BodBlock)

\* AESEncryptMsg.
BodSeal(text, appId) ==
    LET content == BodRepeat(7, 16) \o BodEncode(Len(text)) \o text \o appId
        pad == BodPad(Len(content))
    IN content \o BodRepeat(pad, pad)

\* AESDecryptMsg: the text and the appid, or BodNone for an error.
BodOpen(sealed) ==
    LET pad == Last(sealed)
        plain == SubSeq(sealed, 1, Len(sealed) - pad)
        end == 20 + BodDecode(SubSeq(plain, 17, 20))
    IN IF \/ Len(sealed) < BodBlock \/ Len(sealed) % BodBlock # 0
          \/ pad \notin 1 .. BodBlock
          \/ Len(plain) <= 20
          \/ Len(plain) <= end
       THEN BodNone
       ELSE [text |-> SubSeq(plain, 21, end), appId |-> SubSeq(plain, end + 1, Len(plain))]

\* A message and an answer as bytes.
BodBytes(m) == BodRepeat(m.mark, m.size)

-----------------------------------------------------------------------------
(* The requests.                                                            *)

\* WeChat posts a message, to this instance or to one that forwards it.
BodSend(r, m, via) ==
    /\ bodPc[r] = "none"
    /\ bodMsg' = [bodMsg EXCEPT ![r] = m]
    /\ bodVia' = [bodVia EXCEPT ![r] = via]
    /\ bodPc' = [bodPc EXCEPT ![r] = IF via THEN "forward" ELSE "arrived"]
    /\ UNCHANGED <<bodBuf, bodRead>>

\* forwardHandler reads the body and sends it on with the parameters and
\* headers it came with, or answers with an error.
BodForward(r) ==
    /\ bodPc[r] = "forward"
    /\ \E to \in {"arrived", "failed"} : bodPc' = [bodPc EXCEPT ![r] = to]
    /\ UNCHANGED <<bodMsg, bodVia, bodBuf, bodRead>>

\* A buffer of the pool, or a new one, is emptied and filled with the body;
\* an error of the connection gives it back.
BodTake(r) ==
    /\ bodPc[r] = "arrived"
    /\ \E b \in bodPool :
          \/ /\ bodPool' = bodPool \ {b}
             /\ bodText' = [bodText EXCEPT ![b] = bodMsg[r]]
             /\ bodHas' = [bodHas EXCEPT ![r] = b]
             /\ bodPc' = [bodPc EXCEPT ![r] = "read"]
          \/ /\ bodText' = [bodText EXCEPT ![b] = BodNone]
             /\ bodPc' = [bodPc EXCEPT ![r] = "failed"]
             /\ UNCHANGED <<bodPool, bodHas>>
    /\ UNCHANGED <<bodMsg, bodVia, bodRead>>

\* The encrypted text of r as it is now.
BodText(r) == IF bodCopy[r] # BodNone THEN bodCopy[r] ELSE bodText[bodHas[r]]

\* Variant: the buffer is given back once the body is parsed.
BodParseReturns(r) ==
    /\ bodPc[r] = "read"
    /\ bodCopy' = [bodCopy EXCEPT ![r] = IF bodMsg[r].usual THEN BodNone ELSE bodMsg[r]]
    /\ bodPc' = [bodPc EXCEPT ![r] = "parsed"]
    /\ bodPool' = bodPool \cup {bodHas[r]}
    /\ UNCHANGED <<bodMsg, bodVia, bodText, bodHas, bodGot, bodAns>>

\* xmlUnmarshal: of a body as WeChat writes it the text stays where it is;
\* encoding/xml, which reads the others, makes a copy.
BodParse(r) ==
    /\ bodPc[r] = "read"
    /\ bodCopy' = [bodCopy EXCEPT ![r] = IF bodMsg[r].usual THEN BodNone ELSE BodText(r)]
    /\ bodPc' = [bodPc EXCEPT ![r] = "parsed"]
    /\ UNCHANGED <<bodMsg, bodVia, bodBuf, bodGot, bodAns>>

\* The account of the body, and the signature, which is of the text.
BodCheck(r) ==
    /\ bodPc[r] = "parsed"
    /\ bodPc' = [bodPc EXCEPT ![r] = IF bodMsg[r].to = BodAccount /\ BodText(r) = bodMsg[r]
                                     THEN "checked" ELSE "refused"]
    /\ UNCHANGED <<bodMsg, bodVia, bodBuf, bodRead>>

\* Base64 and AES make copies; the appid and, once more, the account are
\* compared, and the context is made.
BodDecrypt(r) ==
    /\ bodPc[r] = "checked"
    /\ LET open == BodOpen(BodSeal(BodBytes(BodText(r)), BodAppId))
           good == open # BodNone
       IN IF good /\ open.text = BodBytes(BodText(r)) /\ open.appId = BodAppId
                  /\ BodText(r).to = bodMsg[r].to
          THEN /\ bodGot' = [bodGot EXCEPT ![r] = BodText(r)]
               /\ bodPc' = [bodPc EXCEPT ![r] = "serve"]
          ELSE bodPc' = [bodPc EXCEPT ![r] = "refused"] /\ UNCHANGED bodGot
    /\ UNCHANGED <<bodMsg, bodVia, bodBuf, bodCopy, bodAns>>

\* Variant: sender and receiver stay as they are.
BodAnswerOfSame(m, kind, size) ==
    [to |-> m.to, from |-> m.from, kind |-> kind, sealed |-> BodSeal(BodRepeat(1, size), BodAppId)]

\* NewText, NewImage, NewVoice or NewNews to the sender, sealed by AESResponse.
BodAnswerOf(m, kind, size) ==
    [to |-> m.from, from |-> m.to, kind |-> kind, sealed |-> BodSeal(BodRepeat(1, size), BodAppId)]

\* What the handlers answer: textMsgHandler with any kind, menuClickEventHandler
\* with a text, and defaultMsgHandler with "success" only.
BodKinds(m) == IF m.type = "text" THEN {"text", "image", "voice", "news"}
               ELSE IF m.type = "click" THEN {"text"} ELSE {}

BodServe(r) ==
    /\ bodPc[r] = "serve"
    /\ bodPc' = [bodPc EXCEPT ![r] = "served"]
    /\ \/ /\ BodKinds(bodGot[r]) # {}
          /\ \E k \in BodKinds(bodGot[r]), n \in BodSizes :
                bodAns' = [bodAns EXCEPT ![r] = BodAnswerOf(bodGot[r], k, n)]
       \/ bodGot[r].type # "click" /\ UNCHANGED bodAns
    /\ UNCHANGED <<bodMsg, bodVia, bodBuf, bodCopy, bodGot>>

\* ServeHTTP returns, and its defer gives the buffer back; a forwarding
\* instance copies the answer.
BodReturn(r) ==
    /\ bodPc[r] \in {"served", "refused"}
    /\ bodPc' = [bodPc EXCEPT ![r] = IF @ = "served" THEN "done" ELSE "failed"]
    /\ bodPool' = bodPool \cup {bodHas[r]}
    /\ UNCHANGED <<bodMsg, bodVia, bodText, bodHas, bodRead>>

BodNext == \E r \in BodReqs :
              \/ \E m \in BodMessages, via \in BOOLEAN : BodSend(r, m, via)
              \/ BodForward(r) \/ BodTake(r) \/ BodParse(r) \/ BodCheck(r)
              \/ BodDecrypt(r) \/ BodServe(r) \/ BodReturn(r)

BodSpec == BodInit /\ [][BodNext]_bodVars

-----------------------------------------------------------------------------
(* Properties.                                                              *)

BodTypeOK ==
    /\ bodMsg \in [BodReqs -> BodMessages \cup {BodNone}]
    /\ bodVia \in [BodReqs -> BOOLEAN]
    /\ bodPc \in [BodReqs -> {"none", "forward", "arrived", "read", "parsed", "checked",
                              "serve", "served", "refused", "done", "failed"}]
    /\ bodPool \subseteq BodBuffers
    /\ bodText \in [BodBuffers -> BodMessages \cup {BodNone}]
    /\ bodGot \in [BodReqs -> BodMessages \cup {BodNone}]

\* Whatever other requests do with the buffers meanwhile, a handler gets the
\* message of its own request, a message to the account is not refused, and the
\* answer goes to its sender and is one WeChat can open, whatever its size.
ServedItsOwn ==
    \A r \in BodReqs :
        /\ bodGot[r] # BodNone => bodGot[r] = bodMsg[r]
        /\ bodPc[r] = "refused" => bodMsg[r].to # BodAccount
        /\ bodAns[r] # BodNone =>
              /\ bodAns[r].to = bodMsg[r].from
              /\ \E n \in BodSizes :
                    BodOpen(bodAns[r].sealed) = [text |-> BodRepeat(1, n), appId |-> BodAppId]
=============================================================================
