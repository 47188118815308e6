-------------------------------- MODULE Settings --------------------------------
(****************************************************************************)
(* The settings of the running program: LoadConfig keeps one configuration  *)
(* for as long as the process lives, and a getter for each setting reads it *)
(* under the one mutex mu, or returns a fallback when none is loaded.  Some *)
(* callers put together what several getters return, one after the other.   *)
(*                                                                          *)
(* The file changes meanwhile: by an operator, or by the web console, which *)
(* restarts the program.  What LoadConfig makes of a file is in ConfigFile. *)
(****************************************************************************)
EXTENDS Naturals, Sequences, TLC

CONSTANTS
    StFiles,    \* the versions of config.yml, each the settings of one
    StReaders,  \* goroutines that ask for settings
    StAsked     \* the calls they make

-----------------------------------------------------------------------------
(* Every setting with a getter, and what the getter returns without a       *)
(* configuration: FALSE, no text, no list, or a number of its own.          *)

StFor(keys, value) == [k \in keys |-> value]

StNoList == <<>>

\* The links, what is reported over them, and the prefixes of commands.
StLinkSettings ==
    StFor({"WsAddress", "WhitePrefixs", "BlackPrefixs", "VisualPrefixs"}, StNoList)
    @@ StFor({"Lotus", "TwoWayEcho", "WhitePrefixMode", "BlackPrefixMode", "VisibleIp",
              "HashID"}, FALSE)
    @@ ("Server_dir" :> "") @@ ("ForwardMsgLimit" :> 3)

\* What the program listens on.
StServerSettings ==
    StFor({"WsToken", "MasterID"}, StNoList)
    @@ StFor({"Array", "EnableWsServer", "IdentifyFile", "DeveloperLog"}, FALSE)
    @@ StFor({"Port", "WsServerToken", "Crt", "Key"}, "")

\* The console, the log, commands of the framework and the sizes of media.
StConsoleSettings ==
    StFor({"Username", "Password", "BackupPort", "NoWhiteResponse"}, "")
    @@ StFor({"RemovePrefix", "SaveLogs"}, FALSE)
    @@ ("ImageLimit" :> 0) @@ ("LogLevel" :> 2) @@ ("ImageLimitB" :> 100)
    @@ ("BindPrefix" :> "/bind") @@ ("MePrefix" :> "/me") @@ ("RecordBitRate" :> "128k")

\* Sending, names, the identifier map, and how often links are tried.
StSendSettings ==
    StFor({"LotusPassword", "WsServerPath", "CardAndNick"}, "")
    @@ StFor({"IdmapPro", "TransferUrl"}, FALSE)
    @@ ("SendError" :> TRUE) @@ ("WhiteBypass" :> StNoList)
    @@ ("CustomBotName" :> "bot") @@ ("SendDelay" :> 300) @@ ("ReconnecTimes" :> 50)
    @@ ("HeartBeatInterval" :> 5) @@ ("LaunchReconectTimes" :> 3)

\* HTTP, in both directions.
StHttpSettings ==
    StFor({"PostUrl", "PostSecret", "PostMaxRetries", "PostRetriesInterval"}, StNoList)
    @@ StFor({"NativeOb11", "RamDomSeq", "UrlToQrimage"}, FALSE)
    @@ ("HttpAddress" :> "") @@ ("HttpVersion" :> 11) @@ ("HttpTimeOut" :> 5)
    @@ ("QrSize" :> 200)

\* The object stores of Tencent and Baidu, and the choice of one.
StStoreSettings ==
    StFor({"WhiteBypassRevers", "TencentAudit"}, FALSE)
    @@ StFor({"TencentBucketName", "TencentBucketRegion", "TencentCosSecretid",
              "TencentSecretKey", "BaiduBOSBucketName", "BaiduBCEAK", "BaiduBCESK",
              "AliyunEndpoint"}, "")
    @@ StFor({"OssType", "BaiduAudit"}, 0)

\* The store of Aliyun, aliases and templates.
StAliyunSettings ==
    StFor({"AliyunAccessKeyId", "AliyunAccessKeySecret", "AliyunBucketName",
           "CustomTemplateID", "KeyBoardID"}, "")
    @@ StFor({"AliyunAudit", "TransFormApiIds", "VwhitePrefixMode"}, FALSE)
    @@ StFor({"Alias", "SelfIntroduce", "IdentifyAppids", "Enters"}, StNoList)
    @@ ("Uin" :> "0")

\* The menu of links, and the account.
StAccountSettings ==
    StFor({"LinkPrefix", "LinkText", "LinkPic", "WxAppId"}, "")
    @@ ("LinkBots" :> StNoList) @@ ("GlobalGroupOrPrivate" :> FALSE)

\* What callbacks are answered with, and what is forwarded.
StAnswerSettings ==
    StFor({"DefaultContent", "LongQueryCommands", "SubscribeMsgs", "ForwardPort"}, StNoList)
    @@ StFor({"ChatBotAppid", "ChatBotToken", "ChatBotAesKey"}, "")
    @@ ("TimeOut" :> 200) @@ ("DefaultDailyReplyLimit" :> 3) @@ ("SubScribeMsgType" :> 0)
    @@ ("StringOb11" :> FALSE)

StFallback ==
    StLinkSettings @@ StServerSettings @@ StConsoleSettings @@ StSendSettings
    @@ StHttpSettings @@ StStoreSettings @@ StAliyunSettings @@ StAccountSettings
    @@ StAnswerSettings

StKeys == DOMAIN StFallback

-----------------------------------------------------------------------------
(* Calls that read more than one setting.  Each part of a plan is read      *)
(* under one hold of mu.                                                    *)

\* ComposeWebUIURL(useBackupPort).
StConsoleUrl(lotus) == <<{"Server_dir"}, {IF lotus THEN "BackupPort" ELSE "Port"}>>

\* GetTencentBucketURL reads two settings at once, GetRegionID calls the getter of
\* another and takes the region out of its value.
StComposed == [bucketUrl |-> <<{"TencentBucketName", "TencentBucketRegion"}>>,
               regionId |-> <<{"AliyunEndpoint"}>>,
               consoleUrl |-> StConsoleUrl(FALSE),
               lotusConsoleUrl |-> StConsoleUrl(TRUE)]

StPlan(c) == IF c \in StKeys THEN <<{c}>> ELSE StComposed[c]

\* Of the versions, 1 is one and 0 is none; every part of a plan is of settings
\* that have a getter.
ASSUME StAssumption == /\ StAsked \subseteq StKeys \cup DOMAIN StComposed
                       /\ 1 \in DOMAIN StFiles /\ 0 \notin DOMAIN StFiles
                       /\ \A c \in StAsked : StPlan(c) \in Seq(SUBSET StKeys)

VARIABLES
    stFile,   \* the version of config.yml
    stInst,   \* instance: the version it was loaded from, 0 for nil
    stMain,   \* where main is, "down" when there is no process
    stNamed,  \* the console's protocol and port as main names them
    stServed, \* the protocol and port it is served at
    stCall,   \* stCall[r]: what reader r asks, "none" between two calls
    stLeft,   \* stLeft[r]: the parts of the plan not yet read
    stGot     \* stGot[r]: the settings read so far

stReads == <<stCall, stLeft, stGot>>
stVars == <<stFile, stInst, stMain, stNamed, stServed, stReads>>

StNowhere == [tls |-> FALSE, port |-> ""]

StInit == /\ stFile = 1 /\ stInst = 0
          /\ stMain = "down"
          /\ stNamed = StNowhere /\ stServed = StNowhere
          /\ stCall = [r \in StReaders |-> "none"]
          /\ stLeft = [r \in StReaders |-> <<>>]
          /\ stGot = [r \in StReaders |-> <<>>]

\* What a getter returns.
StGet(k) == IF stInst = 0 THEN StFallback[k] ELSE StFiles[stInst][k]

StAt(port) == [tls |-> port = "443", port |-> port]

-----------------------------------------------------------------------------
(* main.                                                                    *)

StGone == /\ stInst' = 0 /\ stMain' = "down"
          /\ stNamed' = StNowhere /\ stServed' = StNowhere
          /\ stCall' = [r \in StReaders |-> "none"]
          /\ stLeft' = [r \in StReaders |-> <<>>]
          /\ stGot' = [r \in StReaders |-> <<>>]
          /\ UNCHANGED stFile

\* LoadConfig holds mu for as long as it reads; nobody else asks yet ...
StStart ==
    /\ stMain = "down"
    /\ stMain' = "load"
    /\ UNCHANGED <<stFile, stInst, stNamed, stServed, stReads>>

\* ... and keeps what it read; an error is log.Fatalf.
StLoad ==
    /\ stMain = "load"
    /\ \/ /\ stInst' = stFile
          /\ stMain' = "compose"
          /\ UNCHANGED <<stFile, stNamed, stServed, stReads>>
       \/ StGone

\* Variant: the first console's address, whichever port is used.
StComposeOwn ==
    /\ stMain = "compose"
    /\ stNamed' = StAt(StGet("Port"))
    /\ stMain' = "open"
    /\ UNCHANGED <<stFile, stInst, stServed, stReads>>

\* ComposeWebUIURL and its variant for the public address, with Lotus for
\* useBackupPort.  From here on callbacks and links may ask for settings.
StCompose ==
    /\ stMain = "compose"
    /\ stNamed' = StAt(StGet(IF StGet("Lotus") THEN "BackupPort" ELSE "Port"))
    /\ stMain' = "open"
    /\ UNCHANGED <<stFile, stInst, stServed, stReads>>

\* The console's server; 443 needs a certificate and a key (log.Fatalf).
StServe ==
    /\ stMain = "open"
    /\ LET set == StFiles[stInst]
           port == IF set["Lotus"] THEN set["BackupPort"] ELSE set["Port"]
       IN IF port = "443" /\ (StGet("Crt") = "" \/ StGet("Key") = "")
          THEN StGone
          ELSE /\ stServed' = StAt(port)
               /\ stMain' = "up"
               /\ UNCHANGED <<stFile, stInst, stNamed, stReads>>

\* The process ends, is restarted by the console, or is killed.
StDie == stMain # "down" /\ StGone

\* The operator or the console writes another version of the file.
StEdit(v) ==
    /\ stFile' = v
    /\ UNCHANGED <<stInst, stMain, stNamed, stServed, stReads>>

-----------------------------------------------------------------------------
(* The readers.                                                             *)

StAsk(r, c) ==
    /\ stMain \in {"open", "up"} /\ stCall[r] = "none"
    /\ stCall' = [stCall EXCEPT ![r] = c]
    /\ stLeft' = [stLeft EXCEPT ![r] = StPlan(c)]
    /\ stGot' = [stGot EXCEPT ![r] = <<>>]
    /\ UNCHANGED <<stFile, stInst, stMain, stNamed, stServed>>

\* Variant: a getter reads the file again.
StReadAnew(r) ==
    /\ stLeft[r] # <<>>
    /\ stGot' = [stGot EXCEPT ![r] = [k \in DOMAIN @ \cup Head(stLeft[r]) |->
                             IF k \in DOMAIN @ THEN @[k] ELSE StFiles[stFile][k]]]
    /\ stLeft' = [stLeft EXCEPT ![r] = Tail(@)]
    /\ UNCHANGED <<stFile, stInst, stMain, stNamed, stServed, stCall>>

\* The next part, under mu; other goroutines and edits come between the parts.
StRead(r) ==
    /\ stLeft[r] # <<>>
    /\ stGot' = [stGot EXCEPT ![r] = [k \in DOMAIN @ \cup Head(stLeft[r]) |->
                             IF k \in DOMAIN @ THEN @[k] ELSE StGet(k)]]
    /\ stLeft' = [stLeft EXCEPT ![r] = Tail(@)]
    /\ UNCHANGED <<stFile, stInst, stMain, stNamed, stServed, stCall>>

StReturn(r) ==
    /\ stCall[r] # "none" /\ stLeft[r] = <<>>
    /\ stCall' = [stCall EXCEPT ![r] = "none"]
    /\ stGot' = [stGot EXCEPT ![r] = <<>>]
    /\ UNCHANGED <<stFile, stInst, stMain, stNamed, stServed, stLeft>>

StNext == \/ StStart \/ StLoad \/ StCompose \/ StServe \/ StDie
          \/ \E v \in DOMAIN StFiles : StEdit(v)
          \/ \E r \in StReaders : \/ \E c \in StAsked : StAsk(r, c)
                                  \/ StRead(r) \/ StReturn(r)

StSpec == StInit /\ [][StNext]_stVars

-----------------------------------------------------------------------------
(* Properties.                                                              *)

StTypeOK ==
    /\ stFile \in DOMAIN StFiles /\ stInst \in {0} \cup DOMAIN StFiles
    /\ stMain \in {"down", "load", "compose", "open", "up"}
    /\ stCall \in [StReaders -> {"none"} \cup StAsked]
    /\ \A r \in StReaders : DOMAIN stGot[r] \subseteq StKeys

\* A caller gets the settings of one version of the file, the one the process
\* was started with, and never a fallback, however the file is edited while it
\* puts them together; and where main says the console is, it is.
SettingsWhole ==
    /\ \A r \in StReaders : \A k \in DOMAIN stGot[r] :
          stInst # 0 /\ stGot[r][k] = StFiles[stInst][k]
    /\ stMain = "up" => stNamed = stServed
=============================================================================
