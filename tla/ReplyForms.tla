------------------------------ MODULE ReplyForms ------------------------------
(****************************************************************************)
(* What the user sees of the application's replies: a reply has one of four *)
(* forms and consists of texts, images, recordings and codes; a passive     *)
(* answer is a text, one image or one voice.  Text that does not fit the    *)
(* answer is stored with its reply, and shown with a later text.            *)
(*                                                                          *)
(* The replies of one user, one after the other.  Uploading a base64 image, *)
(* fetching it again and giving it to WeChat may each fail.  A panic ends   *)
(* the callback without an answer.                                          *)
(****************************************************************************)
EXTENDS Naturals, Sequences

CONSTANTS
    FrmMessages,  \* replies: [form, parts, long, keys]
    FrmDefaults,  \* default texts, in the form of a reply
    FrmReplies    \* bound: callbacks

\* A form: a string with CQ codes, a list of segments, one segment, or a
\* segment with markdown and a keyboard.  The kinds of parts:
FrmForms == {"string", "list", "map", "card"}
FrmImages == {"imageHttp", "imageHttps"}
FrmRecords == {"recordHttp", "recordHttps"}
FrmBase64 == {"image64", "record64"}
FrmShownKinds == {"text", "at", "code"} \cup FrmImages \cup FrmRecords \cup FrmBase64
FrmKinds == FrmShownKinds \cup {"other", "broken",  \* unknown, and without data
                               "tag"}              \* <qqbot-at-user>, in cards

ASSUME FrmAssumption ==
    \A m \in FrmMessages \cup FrmDefaults :
        /\ m.form \in FrmForms
        /\ m.parts \in Seq(FrmKinds)
        /\ m.form # "card" => \A i \in DOMAIN m.parts : m.parts[i] # "tag"
        /\ m \in FrmDefaults => m.form = "string"

VARIABLES
    frmSaid,     \* the replies and default texts so far
    frmStage,    \* where the callback that answers the last one is
    frmParts,    \* what that one consists of: <<kind, place in the reply>>, in
                 \*     the order of their places
    frmPending,  \* numbers of the stored ones
    frmShown,    \* history: <<number, place>> of the texts the user has seen
    frmVoiced, frmFailed,  \* history: those answered by a voice, and not at all
    frmReceipts            \* history: those the application got a receipt for

frmHistory == <<frmShown, frmVoiced, frmFailed, frmReceipts>>
frmVars == <<frmSaid, frmStage, frmParts, frmPending, frmHistory>>

FrmInit == /\ frmSaid = <<>> /\ frmStage = "idle" /\ frmParts = {}
           /\ frmPending = <<>>
           /\ frmShown = {} /\ frmVoiced = {} /\ frmFailed = {} /\ frmReceipts = {}

-----------------------------------------------------------------------------
(* The parser.                                                              *)

FrmPlaced(m) == {<<m.parts[i], i>> : i \in DOMAIN m.parts}

FrmOnly(parts, kinds) == {p \in parts : p[1] \in kinds}
FrmWithout(parts, kinds) == {p \in parts : p[1] \notin kinds}
FrmHas(parts, kinds) == FrmOnly(parts, kinds) # {}

\* parseMDDataPre: a keyboard is nested, at the top, or only named by an id.
FrmHasRows(m) == m.keys \in {"rows", "blank", "empty"}

\* parseKeyboardContent: a button without label or action is left out, and
\* one with a blank label panics (isEmoji takes its first rune).
FrmKeys(m) == IF FrmHasRows(m) /\ m.keys = "rows" THEN {<<"text", 0>>} ELSE {}

\* parseMarkdownContent: tags that name a user go.  A command stays a text,
\* a link that sends it or, when all is too long then (V2), the bare command.
FrmContent(parts) == FrmWithout(parts, {"tag"})

\* parseMDData: the buttons follow a text that is short enough by then.
FrmCard(m) == FrmContent(FrmPlaced(m)) \cup (IF m.long THEN {} ELSE FrmKeys(m))

\* Images of a card become CQ codes, or are left out of the history.
FrmCardImages(parts, forHistory) ==
    IF forHistory THEN FrmWithout(parts, FrmImages) ELSE parts

\* ParseMessageContent; a string is not looked into.
FrmParse(m, forHistory) ==
    IF m.form = "string" THEN FrmPlaced(m)
    ELSE IF m.form = "card" THEN FrmCardImages(FrmCard(m), forHistory)
    ELSE FrmOnly(FrmPlaced(m), FrmShownKinds)

FrmPanics(m) == \/ m.form \in {"list", "map"} /\ FrmHas(FrmPlaced(m), {"broken"})
                \/ m.form = "card" /\ m.keys = "blank"

FrmTexts(n, parts) == {<<n, p[2]>> : p \in FrmOnly(parts, {"text"})}

-----------------------------------------------------------------------------
(* The callback.                                                            *)

FrmNow == Len(frmSaid)
FrmMessage == frmSaid[FrmNow]

\* A reply arrives in time, or the default text is taken.
FrmBegin(m) ==
    /\ frmStage = "idle" /\ FrmNow < FrmReplies
    /\ frmSaid' = Append(frmSaid, m)
    /\ IF FrmPanics(m)
       THEN /\ frmFailed' = frmFailed \cup {FrmNow + 1}
            /\ UNCHANGED <<frmStage, frmParts>>
       ELSE /\ frmStage' = "process" /\ frmParts' = FrmParse(m, FALSE)
            /\ UNCHANGED frmFailed
    /\ UNCHANGED <<frmPending, frmShown, frmVoiced, frmReceipts>>

\* processBase64Media for images, then recordings: what cannot be uploaded
\* stays in the reply as it is.
FrmUploaded(kind) == CASE kind = "image64" -> "imageHttp"
                       [] kind = "record64" -> "recordHttp"
                       [] OTHER -> kind

FrmConvert ==
    /\ frmStage = "process"
    /\ \E done \in SUBSET FrmOnly(frmParts, FrmBase64) :
           frmParts' = (frmParts \ done) \cup {<<FrmUploaded(p[1]), p[2]>> : p \in done}
    /\ frmStage' = "classify"
    /\ UNCHANGED <<frmSaid, frmPending, frmHistory>>

FrmOver == /\ frmStage' = "idle" /\ frmParts' = {}
           /\ UNCHANGED frmSaid

\* SendResponse, to the links; for a default text it has no echo.
FrmReceipt == frmReceipts' = frmReceipts \cup {FrmNow}

\* The text without numeric at codes, under as much history as fits.
FrmAnswerText ==
    /\ frmStage = "classify"
    /\ ~FrmHas(frmParts, FrmImages \cup FrmRecords)
    /\ \E n \in 0 .. Len(frmPending) :
           /\ frmPending' = SubSeq(frmPending, n + 1, Len(frmPending))
           /\ frmShown' = frmShown \cup FrmTexts(FrmNow, FrmWithout(frmParts, {"at"}))
                  \cup UNION {FrmTexts(frmPending[i], FrmParse(frmSaid[frmPending[i]], TRUE))
                                 : i \in 1 .. n}
    /\ FrmReceipt /\ FrmOver
    /\ UNCHANGED <<frmVoiced, frmFailed>>

\* ProcessInput: fetch the file, store it, give it to WeChat; or not.
FrmFetchFails ==
    /\ frmStage = "classify"
    /\ FrmHas(frmParts, FrmImages \cup FrmRecords)
    /\ frmFailed' = frmFailed \cup {FrmNow}
    /\ FrmOver
    /\ UNCHANGED <<frmPending, frmShown, frmVoiced, frmReceipts>>

FrmOneImage == FrmHas(frmParts, FrmImages) /\ \A p, q \in frmParts : p = q

\* Variant: what stands next to the image is not stored.
FrmAnswerImageAlone ==
    /\ frmStage = "classify"
    /\ FrmHas(frmParts, FrmImages)
    /\ FrmReceipt /\ FrmOver
    /\ UNCHANGED <<frmPending, frmShown, frmVoiced, frmFailed>>

\* The first image is the answer; when there is more, the reply is stored as
\* it came.  A default text has no user to store it for, and panics.
FrmAnswerImage ==
    /\ frmStage = "classify"
    /\ FrmHas(frmParts, FrmImages)
    /\ IF FrmOneImage THEN FrmReceipt /\ UNCHANGED <<frmPending, frmFailed>>
       ELSE IF FrmMessage \in FrmDefaults
       THEN frmFailed' = frmFailed \cup {FrmNow} /\ UNCHANGED <<frmPending, frmReceipts>>
       ELSE frmPending' = Append(frmPending, FrmNow) /\ FrmReceipt /\ UNCHANGED frmFailed
    /\ FrmOver
    /\ UNCHANGED <<frmShown, frmVoiced>>

\* The first recording is the answer, and nothing else of the reply.
FrmAnswerVoice ==
    /\ frmStage = "classify"
    /\ FrmHas(frmParts, FrmRecords) /\ ~FrmHas(frmParts, FrmImages)
    /\ frmVoiced' = frmVoiced \cup {FrmNow}
    /\ FrmReceipt /\ FrmOver
    /\ UNCHANGED <<frmPending, frmShown, frmFailed>>

FrmNext == \/ \E m \in FrmMessages \cup FrmDefaults : FrmBegin(m)
           \/ FrmConvert \/ FrmAnswerText \/ FrmFetchFails
           \/ FrmAnswerImage \/ FrmAnswerVoice

FrmSpec == FrmInit /\ [][FrmNext]_frmVars

-----------------------------------------------------------------------------
(* Properties.                                                              *)

FrmTypeOK ==
    /\ frmSaid \in Seq(FrmMessages \cup FrmDefaults)
    /\ frmStage \in {"idle", "process", "classify"}
    /\ frmParts \subseteq FrmKinds \X Nat
    /\ frmPending \in Seq(DOMAIN frmSaid)
    /\ frmShown \subseteq (DOMAIN frmSaid) \X Nat
    /\ frmVoiced \cup frmFailed \cup frmReceipts \subseteq DOMAIN frmSaid

\* Whatever forms the replies have, whatever stands next to an image and
\* whichever uploads fail: the texts of a reply that the application got a
\* receipt for are seen by the user or stored for a later answer, unless a
\* voice was the answer.
TextSurvives ==
    \A n \in frmReceipts \ frmVoiced :
        \/ \E i \in DOMAIN frmPending : frmPending[i] = n
        \/ FrmTexts(n, FrmParse(frmSaid[n], FALSE)) \subseteq frmShown
=============================================================================
