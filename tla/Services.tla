-------------------------------- MODULE Services --------------------------------
(* The parts of the program that share no state: what one of them does, no  *)
(* other can see.  A behaviour of Services is a behaviour of one part, so   *)
(* that one run checks them all without multiplying their state spaces.     *)
EXTENDS PendingQueue, LotusMap, ConfigFile, CallbackServer, DefaultQuota,
        ShortLinks, UploadServer, Welcome, HandlerMux, ReplyForms,
        ConsoleLogin, MediaUpload, OneBot, CallbackBodies

CONSTANT Parts  \* the parts that are checked

VARIABLE part   \* the one this behaviour is of

storeVars == <<pqVars, lotVars, cfgVars>>
serveVars == <<cbVars, quoVars, welVars>>
extraVars == <<lnkVars, upVars, muxVars, frmVars>>
lateVars == <<conVars, medVars>>
talkVars == <<obVars, bodVars>>
vars == <<part, storeVars, serveVars, extraVars, lateVars, talkVars>>

Init == /\ part \in Parts
        /\ PqInit /\ LotInit /\ CfgInit /\ CbInit
        /\ QuoInit /\ WelInit /\ LnkInit /\ UpInit /\ MuxInit /\ FrmInit
        /\ ConInit /\ MedInit /\ ObInit /\ BodInit
        /\ part \notin {"idmap", "lotus"} => hashId
        /\ part # "lotus" => lotMix = (CHOOSE mix \in LotMixes : TRUE)
        /\ part # "config" => cfgFile = CfgNoFile
        /\ part # "media" => medStore = "host" /\ medPublic
        /\ part # "onebot" => obSet = (CHOOSE set \in ObSettings : TRUE)
        /\ part # "welcome" => \A d, e \in WelEvents : welUser[d] = welUser[e]

Next == \/ /\ part = "pending" /\ PqNext
           /\ UNCHANGED <<part, lotVars, cfgVars, serveVars, extraVars, lateVars, talkVars>>
        \/ /\ part = "idmap" /\ IdNext
           /\ UNCHANGED <<part, pqVars, lotOwn, cfgVars, serveVars, extraVars, lateVars, talkVars>>
        \/ /\ part = "lotus" /\ LotNext
           /\ UNCHANGED <<part, pqVars, cfgVars, serveVars, extraVars, lateVars, talkVars>>
        \/ /\ part = "config" /\ CfgNext
           /\ UNCHANGED <<part, pqVars, lotVars, serveVars, extraVars, lateVars, talkVars>>
        \/ /\ part = "callback" /\ CbNext
           /\ UNCHANGED <<part, storeVars, quoVars, welVars, extraVars, lateVars, talkVars>>
        \/ /\ part = "quota" /\ QuoNext
           /\ UNCHANGED <<part, storeVars, cbVars, welVars, extraVars, lateVars, talkVars>>
        \/ /\ part = "welcome" /\ WelNext
           /\ UNCHANGED <<part, storeVars, cbVars, quoVars, extraVars, lateVars, talkVars>>
        \/ /\ part = "links" /\ LnkNext
           /\ UNCHANGED <<part, storeVars, serveVars, upVars, muxVars, frmVars, lateVars, talkVars>>
        \/ /\ part = "upload" /\ UpNext
           /\ UNCHANGED <<part, storeVars, serveVars, lnkVars, muxVars, frmVars, lateVars, talkVars>>
        \/ /\ part = "mux" /\ MuxNext
           /\ UNCHANGED <<part, storeVars, serveVars, lnkVars, upVars, frmVars, lateVars, talkVars>>
        \/ /\ part = "forms" /\ FrmNext
           /\ UNCHANGED <<part, storeVars, serveVars, lnkVars, upVars, muxVars, lateVars, talkVars>>
        \/ /\ part = "console" /\ ConNext
           /\ UNCHANGED <<part, storeVars, serveVars, extraVars, medVars, talkVars>>
        \/ /\ part = "media" /\ MedNext
           /\ UNCHANGED <<part, storeVars, serveVars, extraVars, conVars, talkVars>>
        \/ /\ part = "onebot" /\ ObNext
           /\ UNCHANGED <<part, storeVars, serveVars, extraVars, lateVars, bodVars>>
        \/ /\ part = "bodies" /\ BodNext
           /\ UNCHANGED <<part, storeVars, serveVars, extraVars, lateVars, obVars>>

Spec == Init /\ [][Next]_vars

-----------------------------------------------------------------------------
(* Properties of parts of one kind.                                         *)

\* What is limited stays within its limit under concurrent calls: default
\* replies a day, and uploads of an address in a window.
LimitsKept == QuotaKept /\ WindowKept

\* What a link was given out for is found behind it, whole: long links, uploaded
\* files, and media that were audited and converted.
LinksHold == LinkOpens /\ LinkedIsWhole /\ LinkedMediaIsSound
=============================================================================
