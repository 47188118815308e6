-------------------------------- MODULE LotusMap --------------------------------
(****************************************************************************)
(* Lotus mode: the process keeps no ids of its own but asks the /getid of   *)
(* another process, the server, for every operation of idmap.  A request is *)
(* executed at the server in one bolt transaction (IdMap); on its way there *)
(* or back it may get lost, which the caller sees as an error.  The HTTP    *)
(* client sends a GET whose connection ends before the answer once more by  *)
(* itself, so a request may be executed twice.  Callers run at once.        *)
(*                                                                          *)
(* A request is a pair of what is asked, by the number /getid knows it      *)
(* under, and its argument; the answer is a value or an error.  The         *)
(* server may end and start again: its tables stay, requests get lost.      *)
(****************************************************************************)
EXTENDS IdMap

CONSTANTS
    LotCallers,  \* goroutines of the processes in lotus mode
    LotMixes,    \* the sets of requests that are made in one behaviour
    LotValues,   \* values of the config bucket (of one section and key)
    LotError

ASSUME LotAssumption == /\ LotError \notin Ids /\ LotError \notin Rows
                        /\ LotError \notin Pairs /\ LotError \notin RowPairs
                        /\ LotError \notin LotValues

VARIABLES
    lotMix,     \* the requests that are made, the same all the time
    lotCall,    \* lotCall[c]: what caller c is about
    lotReq,     \* lotReq[c]: the request it has made last
    lotAnswer,  \* lotAnswer[c]: what was answered to it
    lotConfig,  \* the value in the config bucket, None when there is none
    lotGiven    \* history: the requests for numbers, with the number answered

lotOwn == <<lotMix, lotCall, lotReq, lotAnswer, lotConfig, lotGiven>>
lotVars == <<idVars, lotOwn>>

LotInit == /\ IdInit
           /\ lotMix \in LotMixes
           /\ lotCall = [c \in LotCallers |-> "idle"]
           /\ lotReq = [c \in LotCallers |-> None]
           /\ lotAnswer = [c \in LotCallers |-> LotError]
           /\ lotConfig = None
           /\ lotGiven = {}

-----------------------------------------------------------------------------
(* The requests, by the function that makes them.                           *)

\* Numbers: StoreIDv2 and StoreIDv2Pro, SimplifiedStoreIDv2.
LotStores == {<<1, i>> : i \in Ids} \cup {<<8, p>> : p \in Pairs}
LotHalves == {<<13, i>> : i \in Ids}

\* What a number stands for: RetrieveRowByIDv2 and ~Pro; the pair of numbers
\* of a pair of ids is asked for under type 9 too.
LotRows == {<<2, n>> : n \in Rows}
LotRowPairs == {<<9, q>> : q \in RowPairs \cup Pairs}

\* UpdateVirtualValuev2, RetrieveRealValuev2, RetrieveVirtualValuev2.
LotValuesOf == {<<5, <<o, n>> >> : o, n \in Rows} \cup {<<6, n>> : n \in Rows}
               \cup {<<7, i>> : i \in Ids}

\* UpdateVirtualValuev2Pro; the real values of a pair of numbers (type 11)
\* are asked for at /getrealvalues, an address the server does not have.
LotPairValues == {<<11, q>> : q \in RowPairs}
LotPairUpdates == {<<12, <<o, n>> >> : o, n \in RowPairs}

\* WriteConfigv2 and ReadConfigv2; FindSubKeysByIdPro.
LotConfigs == {<<3, v>> : v \in LotValues} \cup {<<4, None>>}
LotMembers == {<<14, i>> : i \in Ids}

-----------------------------------------------------------------------------
(* Callers.                                                                 *)

LotAsk(c) ==
    /\ lotCall[c] = "idle"
    /\ \E r \in lotMix : lotReq' = [lotReq EXCEPT ![c] = r]
    /\ lotCall' = [lotCall EXCEPT ![c] = "asked"]
    /\ UNCHANGED <<idVars, lotMix, lotAnswer, lotConfig, lotGiven>>

LotOver(c) == /\ lotCall' = [lotCall EXCEPT ![c] = "idle"]
              /\ lotReq' = [lotReq EXCEPT ![c] = None]
              /\ lotAnswer' = [lotAnswer EXCEPT ![c] = LotError]

\* The connection breaks: before or after the server has got to it.
LotLose(c) ==
    /\ lotCall[c] \in {"asked", "answered"}
    /\ LotOver(c)
    /\ UNCHANGED <<idVars, lotMix, lotConfig, lotGiven>>

\* It breaks, and net/http sends the request again.
LotAgain(c) ==
    /\ lotCall[c] = "answered"
    /\ lotCall' = [lotCall EXCEPT ![c] = "asked"]
    /\ lotAnswer' = [lotAnswer EXCEPT ![c] = LotError]
    /\ UNCHANGED <<idVars, lotMix, lotReq, lotConfig, lotGiven>>

\* The answer is taken apart; numbers pass through float64 unharmed.
LotTake(c) ==
    /\ lotCall[c] = "answered"
    /\ LotOver(c)
    /\ lotGiven' = IF lotReq[c] \in LotStores \cup LotHalves /\ lotAnswer[c] # LotError
                   THEN lotGiven \cup {<<lotReq[c], lotAnswer[c]>>} ELSE lotGiven
    /\ UNCHANGED <<idVars, lotMix, lotConfig>>

-----------------------------------------------------------------------------
(* GetIDHandler at the server, which is not in lotus mode itself.           *)

LotReply(c, v) ==
    /\ lotCall[c] = "asked"
    /\ lotCall' = [lotCall EXCEPT ![c] = "answered"]
    /\ lotAnswer' = [lotAnswer EXCEPT ![c] = v]
    /\ UNCHANGED <<lotMix, lotReq, lotGiven>>

\* Variant: every store takes a new number.
LotStoreNew(c, i) ==
    /\ lotReq[c] = <<1, i>> /\ lotCall[c] = "asked"
    /\ \/ SimplifiedStoreID(i) /\ LotReply(c, CHOOSE n \in Rows : idOf[n] = None /\ idOf'[n] = i)
       \/ (\A n \in Rows : ~FreeHash(i, n)) /\ LotReply(c, LotError) /\ UNCHANGED idVars
    /\ UNCHANGED lotConfig

\* StoreID: the number there is, a new one, or none when both hashes are taken.
LotStore(c, i) ==
    /\ lotReq[c] = <<1, i>> /\ lotCall[c] = "asked"
    /\ \/ row[i] # None /\ LotReply(c, row[i]) /\ UNCHANGED idVars
       \/ (StoreHashed(i) \/ StoreCounted(i)) /\ LotReply(c, row'[i])
       \/ /\ hashId /\ row[i] = None /\ \A n \in Rows : ~FreeHash(i, n)
          /\ LotReply(c, LotError) /\ UNCHANGED idVars
    /\ UNCHANGED lotConfig

LotStorePair(c, p) ==
    /\ lotReq[c] = <<8, p>> /\ lotCall[c] = "asked"
    /\ \/ rowPair[p] # None /\ LotReply(c, rowPair[p]) /\ UNCHANGED idVars
       \/ StoreIDPro(p) /\ LotReply(c, rowPair'[p])
       \/ /\ rowPair[p] = None /\ None \in {Hash9[p[1]], Hash9[p[2]]}
          /\ LotReply(c, LotError) /\ UNCHANGED idVars
    /\ UNCHANGED lotConfig

LotStoreHalf(c, i) ==
    /\ lotReq[c] = <<13, i>> /\ lotCall[c] = "asked"
    /\ \/ SimplifiedStoreID(i) /\ LotReply(c, CHOOSE n \in Rows : idOf[n] = None /\ idOf'[n] = i)
       \/ (\A n \in Rows : ~FreeHash(i, n)) /\ LotReply(c, LotError) /\ UNCHANGED idVars
    /\ UNCHANGED lotConfig

\* The answer to an update is only that it was made.
LotUpdate(c, o, n) ==
    /\ lotReq[c] = <<5, <<o, n>> >> /\ lotCall[c] = "asked"
    /\ \/ UpdateVirtualValue(o, n) /\ LotReply(c, n)
       \/ (idOf[o] = None \/ idOf[n] # None) /\ LotReply(c, LotError) /\ UNCHANGED idVars
    /\ UNCHANGED lotConfig

LotUpdatePair(c, o, n) ==
    /\ lotReq[c] = <<12, <<o, n>> >> /\ lotCall[c] = "asked"
    /\ \/ UpdateVirtualValuePro(o, n) /\ LotReply(c, n)
       \/ (pairOf[o] = None \/ pairOf[n] # None) /\ LotReply(c, LotError) /\ UNCHANGED idVars
    /\ UNCHANGED lotConfig

LotWriteConfig(c, v) ==
    /\ lotReq[c] = <<3, v>>
    /\ LotReply(c, v)
    /\ lotConfig' = v
    /\ UNCHANGED idVars

\* The lookups.  A key that is not there is an error.
LotFound(v) == IF v = None THEN LotError ELSE v

\* RetrieveRowByID and RetrieveRealValue read the reverse entry.
LotReal(n) == LotFound(idOf[n])

LotVirtual(i) == LotFound(row[i])

\* Pairs of ids and of numbers are keys of one bucket and of one format, so
\* that one lookup serves both directions.
LotPair(q) == LotFound(IF q \in RowPairs THEN pairOf[q] ELSE rowPair[q])

\* FindSubKeysById: who is stored with a group.
LotSubKeys(i) == {p[2] : p \in {s \in Pairs : s[1] = i /\ rowPair[s] # None}}

LotReadConfig == LotFound(lotConfig)

LotRead(c) ==
    /\ \/ \E n \in Rows : lotReq[c] \in {<<2, n>>, <<6, n>>} /\ LotReply(c, LotReal(n))
       \/ \E i \in Ids : \/ lotReq[c] = <<7, i>> /\ LotReply(c, LotVirtual(i))
                         \/ lotReq[c] = <<14, i>> /\ LotReply(c, LotSubKeys(i))
       \/ \E q \in RowPairs \cup Pairs : lotReq[c] = <<9, q>> /\ LotReply(c, LotPair(q))
       \/ \E q \in RowPairs : lotReq[c] = <<11, q>> /\ LotReply(c, LotError)
       \/ lotReq[c] = <<4, None>> /\ LotReply(c, LotReadConfig)
    /\ UNCHANGED <<idVars, lotConfig>>

LotNext ==
    \E c \in LotCallers :
        \/ LotAsk(c) \/ LotLose(c) \/ LotAgain(c) \/ LotTake(c) \/ LotRead(c)
        \/ \E i \in Ids : LotStore(c, i) \/ LotStoreHalf(c, i)
        \/ \E p \in Pairs : LotStorePair(c, p)
        \/ \E o, n \in Rows : LotUpdate(c, o, n)
        \/ \E o, n \in RowPairs : LotUpdatePair(c, o, n)
        \/ \E v \in LotValues : LotWriteConfig(c, v)

LotSpec == LotInit /\ [][LotNext]_lotVars

-----------------------------------------------------------------------------
(* Properties.                                                              *)

LotTypeOK ==
    /\ lotMix \in LotMixes
    /\ lotCall \in [LotCallers -> {"idle", "asked", "answered"}]
    /\ \A c \in LotCallers : lotReq[c] \in lotMix \cup {None}
    /\ lotConfig \in LotValues \cup {None}
    /\ \A g \in lotGiven : IF g[1][1] = 8 THEN g[2] \in RowPairs ELSE g[2] \in Rows

\* A number that a process was given leads back to its id at the server, and
\* the id keeps it, however often requests were lost, repeated or made by
\* several processes at once; only an operator's renumbering changes that.
\* (A half stored id has no number of its own: it gets another one each time.
\* In counting mode the counter may take that one over.)
GivenNumbersHold ==
    ~renumbered =>
        \A g \in lotGiven :
            /\ g[1][1] = 1 => row[g[1][2]] = g[2] /\ idOf[g[2]] = g[1][2]
            /\ g[1][1] = 13 => ~hashId \/ idOf[g[2]] = g[1][2]
=============================================================================
