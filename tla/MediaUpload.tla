------------------------------ MODULE MediaUpload ------------------------------
(* processBase64Media: an image or a recording inside a reply is replaced   *)
(* by a link to it.  An image goes to the picture host or to one of three   *)
(* object stores, which may judge it; a recording that is neither amr nor   *)
(* silk is first converted by two runs of ffmpeg, over files in data/cache  *)
(* that are named after its digest.  What fails stays in the reply.         *)
(*                                                                          *)
(* Callbacks work at the same time, and the application may send the same   *)
(* recording again.  ffmpeg does not write over a file that exists.         *)
CONSTANTS
    MedCalls,    \* callbacks
    MedImages,
    MedRecords,  \* recordings that are neither amr nor silk; the others are
                 \* uploaded as they are
    MedNone,
    MedJudged    \* MedJudged[i]: what an audit finds of image i, pass or refuse

ASSUME MedAssumption == /\ MedJudged \in [MedImages -> {"pass", "refuse"}]
                        /\ MedImages \cap MedRecords = {}
                        /\ MedNone \notin MedImages \cup MedRecords

MedItems == MedImages \cup MedRecords
MedStores == {"host", "tencent", "baidu", "aliyun"}  \* GetOssType
MedFiles == {"absent", "torn", "whole"}

VARIABLES
    medStore, medAudit,  \* the store, and what of it judges: nothing, its images,
                         \*     or images on the host (Baidu's mode 2)
    medReady,            \* sync.Once has made a client of the store
    medPublic,           \* the host is another's (lotus) or has a public address
    medPc, medItem,      \* medPc[c], medItem[c]: what callback c is about
    medData,             \* medData[c]: what of the recording it reads or has
    medMet,              \* history: medMet[c]: another has worked on the recording meanwhile
    medRaw, medPcm, medMp3,  \* the files of each recording
    medLinks             \* history: the link just put into a reply, a set of at
                         \*     most one [item, data, met, judged]

medConf == <<medStore, medAudit, medReady, medPublic>>
medCache == <<medRaw, medPcm, medMp3>>
medVars == <<medConf, medPc, medItem, medData, medMet, medCache, medLinks>>

MedNothing == [r \in MedRecords |-> "absent"]

MedAudits(store) == CASE store = "host" -> {"none"}
                      [] store = "baidu" -> {"none", "store", "host"}
                      [] OTHER -> {"none", "store"}

\* Tencent's client needs no more than an address; the errors of making the
\* others are dropped, and the client is nil for good.
MedClients(store) == IF store \in {"baidu", "aliyun"} THEN BOOLEAN ELSE {TRUE}

MedInit == /\ medStore \in MedStores /\ medAudit \in MedAudits(medStore)
           /\ medReady \in MedClients(medStore) /\ medPublic \in BOOLEAN
           /\ medPc = [c \in MedCalls |-> "idle"]
           /\ medItem = [c \in MedCalls |-> MedNone]
           /\ medData = [c \in MedCalls |-> "absent"]
           /\ medMet = [c \in MedCalls |-> FALSE]
           /\ medRaw = MedNothing /\ medPcm = MedNothing /\ medMp3 = MedNothing
           /\ medLinks = {}

-----------------------------------------------------------------------------
(* One media code of a reply.                                               *)

MedGo(c, at) == medPc' = [medPc EXCEPT ![c] = at]
MedHas(c, data) == medData' = [medData EXCEPT ![c] = data]
MedSame(v) == UNCHANGED v /\ medLinks' = {}
MedSet(files, c, state) == [files EXCEPT ![medItem[c]] = state]

MedWorking == {"raw", "toPcm", "pcm", "toMp3", "mp3", "read"}

\* The callbacks that convert recording i.
MedAt(i) == {o \in MedCalls : medItem[o] = i /\ medPc[o] \in MedWorking}

\* An image is uploaded as it is; a recording is written for ffmpeg, over the
\* same file for every callback.
MedBegin(c, i) ==
    /\ medPc[c] = "idle"
    /\ medItem' = [medItem EXCEPT ![c] = i]
    /\ IF i \in MedImages
       THEN /\ MedGo(c, "upload") /\ MedHas(c, "whole")
            /\ UNCHANGED <<medMet, medRaw>>
       ELSE /\ MedGo(c, "raw")
            /\ medRaw' = [medRaw EXCEPT ![i] = "torn"]
            /\ medMet' = [o \in MedCalls |-> IF o = c THEN MedAt(i) # {}
                                              ELSE medMet[o] \/ o \in MedAt(i)]
            /\ medData' = [o \in MedCalls |-> IF o \in MedAt(i) /\ medPc[o] = "pcm"
                                               THEN "torn" ELSE medData[o]]
    /\ MedSame(<<medConf, medPcm, medMp3>>)

\* os.WriteFile ends, or fails before the file's removal is deferred.
MedWritten(c) ==
    /\ medPc[c] = "raw"
    /\ \/ /\ medRaw' = MedSet(medRaw, c, "whole") /\ MedGo(c, "toPcm")
          /\ UNCHANGED medData
       \/ /\ MedGo(c, "upload") /\ MedHas(c, "absent")
          /\ UNCHANGED medRaw
    /\ MedSame(<<medConf, medItem, medMet, medPcm, medMp3>>)

\* encode returns nil, or the recording: the deferred removals, that of the
\* pcm file only if it was converted.
MedReturn(c, data, pcmToo) ==
    /\ MedGo(c, "upload") /\ MedHas(c, data)
    /\ medRaw' = MedSet(medRaw, c, "absent")
    /\ medPcm' = IF pcmToo THEN MedSet(medPcm, c, "absent") ELSE medPcm

\* The first ffmpeg starts: it needs its input, and no output there.
MedToPcm(c) ==
    /\ medPc[c] = "toPcm"
    /\ IF medRaw[medItem[c]] = "absent" \/ medPcm[medItem[c]] # "absent"
       THEN MedReturn(c, "absent", FALSE)
       ELSE /\ medPcm' = MedSet(medPcm, c, "torn")
            /\ MedGo(c, "pcm") /\ MedHas(c, medRaw[medItem[c]])
            /\ UNCHANGED medRaw
    /\ MedSame(<<medConf, medItem, medMet, medMp3>>)

\* A file that somebody has removed meanwhile stays removed.
MedFilled(files, c) == IF files[medItem[c]] = "absent" THEN files
                       ELSE MedSet(files, c, medData[c])

\* It ends, or fails and leaves what it has written.
MedPcmDone(c) ==
    /\ medPc[c] = "pcm"
    /\ \/ /\ medPcm' = MedFilled(medPcm, c) /\ MedGo(c, "toMp3")
          /\ UNCHANGED <<medData, medRaw>>
       \/ MedReturn(c, "absent", FALSE)
    /\ MedSame(<<medConf, medItem, medMet, medMp3>>)

\* Variant: ffmpeg's error is ignored, and what stands in the file is taken.
MedToMp3Ignored(c) ==
    /\ medPc[c] = "toMp3"
    /\ IF medPcm[medItem[c]] = "absent" \/ medMp3[medItem[c]] # "absent"
       THEN MedReturn(c, medMp3[medItem[c]], TRUE) /\ UNCHANGED medMp3
       ELSE /\ medMp3' = MedSet(medMp3, c, "torn")
            /\ MedGo(c, "mp3") /\ MedHas(c, medPcm[medItem[c]])
            /\ UNCHANGED <<medRaw, medPcm>>
    /\ MedSame(<<medConf, medItem, medMet>>)

\* The second one.
MedToMp3(c) ==
    /\ medPc[c] = "toMp3"
    /\ IF medPcm[medItem[c]] = "absent" \/ medMp3[medItem[c]] # "absent"
       THEN MedReturn(c, "absent", TRUE) /\ UNCHANGED medMp3
       ELSE /\ medMp3' = MedSet(medMp3, c, "torn")
            /\ MedGo(c, "mp3") /\ MedHas(c, medPcm[medItem[c]])
            /\ UNCHANGED <<medRaw, medPcm>>
    /\ MedSame(<<medConf, medItem, medMet>>)

MedMp3Done(c) ==
    /\ medPc[c] = "mp3"
    /\ \/ /\ medMp3' = MedFilled(medMp3, c) /\ MedGo(c, "read")
          /\ UNCHANGED <<medData, medRaw, medPcm>>
       \/ MedReturn(c, "absent", TRUE) /\ UNCHANGED medMp3
    /\ MedSame(<<medConf, medItem, medMet>>)

\* The mp3 file is read, and never removed.
MedRead(c) ==
    /\ medPc[c] = "read"
    /\ MedReturn(c, medMp3[medItem[c]], TRUE)
    /\ MedSame(<<medConf, medItem, medMet, medMp3>>)

-----------------------------------------------------------------------------
(* uploadFunc, and the end of the call.                                     *)

MedOver(c) ==
    /\ MedGo(c, "idle") /\ MedHas(c, "absent")
    /\ medMet' = [medMet EXCEPT ![c] = FALSE]
    /\ medItem' = [medItem EXCEPT ![c] = MedNone]
    /\ UNCHANGED <<medConf, medCache>>

\* The link is put into the reply.
MedLink(c, judged) ==
    /\ medLinks' = {[item |-> medItem[c], data |-> medData[c],
                    met |-> medMet[c], judged |-> judged]}
    /\ MedOver(c)

\* What is stored is judged where that is configured.  (It stays stored.)
MedStored(c) ==
    IF medItem[c] \in MedImages /\ medAudit # "none"
    THEN /\ MedGo(c, "judge")
         /\ MedSame(<<medConf, medItem, medData, medMet, medCache>>)
    ELSE MedLink(c, FALSE)

\* The host, whose handlers are UploadServer's, takes every recording, with
\* nothing in it if need be, and the images of no store.
MedOnHost(c) == medItem[c] \in MedRecords \/ medStore = "host" \/ medAudit = "host"

MedPost(c) ==
    /\ medPc[c] = "upload" /\ MedOnHost(c) /\ medPublic
    /\ MedStored(c)

\* A temporary file is sent to the store.
MedPut(c) ==
    /\ medPc[c] = "upload" /\ ~MedOnHost(c) /\ medReady
    /\ MedStored(c)

\* Without a client there is a panic, and nothing is answered; an error of
\* any step, and a private address of the host, leave the code in the reply.
MedFails(c) ==
    /\ medPc[c] \in {"upload", "judge"}
    /\ MedOver(c)
    /\ medLinks' = {}

\* Only an explicit verdict lets an image of Tencent's or Baidu's pass; a
\* refused one's code stays, or becomes a code with an empty link (Tencent).
MedJudge(c) ==
    /\ medPc[c] = "judge" /\ medStore # "aliyun" /\ medReady
    /\ IF MedJudged[medItem[c]] = "pass" THEN MedLink(c, TRUE)
       ELSE MedOver(c) /\ medLinks' = {}

\* Aliyun's image passes unless a result refuses it: one that was not judged
\* at all has no results.
MedJudgeAliyun(c) ==
    /\ medPc[c] = "judge" /\ medStore = "aliyun" /\ medReady
    /\ \E judged \in BOOLEAN :
           IF judged /\ MedJudged[medItem[c]] = "refuse"
           THEN MedOver(c) /\ medLinks' = {}
           ELSE MedLink(c, judged)

\* The process dies and starts again, with the files as they are.
MedCrash ==
    /\ medPc' = [c \in MedCalls |-> "idle"]
    /\ medData' = [c \in MedCalls |-> "absent"]
    /\ medMet' = [c \in MedCalls |-> FALSE]
    /\ medItem' = [c \in MedCalls |-> MedNone]
    /\ MedSame(<<medConf, medCache>>)

MedNext == \/ MedCrash
           \/ \E c \in MedCalls, i \in MedItems : MedBegin(c, i)
           \/ \E c \in MedCalls : \/ MedWritten(c) \/ MedToPcm(c)
                                  \/ MedPcmDone(c) \/ MedToMp3(c) \/ MedMp3Done(c)
                                  \/ MedRead(c) \/ MedPost(c) \/ MedPut(c)
                                  \/ MedFails(c) \/ MedJudge(c) \/ MedJudgeAliyun(c)

MedSpec == MedInit /\ [][MedNext]_medVars

-----------------------------------------------------------------------------
(* Properties.                                                              *)

MedTypeOK ==
    /\ medStore \in MedStores /\ medAudit \in MedAudits(medStore)
    /\ medReady \in BOOLEAN /\ medPublic \in BOOLEAN
    /\ medPc \in [MedCalls -> {"idle", "upload", "judge"} \cup MedWorking]
    /\ medItem \in [MedCalls -> MedItems \cup {MedNone}]
    /\ medData \in [MedCalls -> MedFiles] /\ medMet \in [MedCalls -> BOOLEAN]
    /\ medRaw \in [MedRecords -> MedFiles] /\ medPcm \in [MedRecords -> MedFiles]
    /\ medMp3 \in [MedRecords -> MedFiles]
    /\ medLinks \subseteq [item : MedItems, data : MedFiles, met : BOOLEAN, judged : BOOLEAN]

\* Whatever a crash, a failed conversion or an earlier callback has left in
\* the cache: a recording linked in a reply is whole, or empty, unless
\* another callback converted the same one meanwhile; and an image that an
\* audit has refused is not linked.
LinkedMediaIsSound ==
    \A l \in medLinks :
        /\ l.item \in MedRecords => l.data # "torn" \/ l.met
        /\ l.judged => MedJudged[l.item] = "pass"
=============================================================================
