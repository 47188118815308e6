-------------------------------- MODULE MultiId --------------------------------
(****************************************************************************)
(* multid: the list of identities a follower may switch between, kept in    *)
(* idmap.json, in the table idMapData and in the inverse                    *)
(* activeIDToOriginID.  A user switches by a text message ("switch user n"), *)
(* whose handler changes the table and writes the whole table to the file;  *)
(* an operator edits the file.  The watcher loads the file after every      *)
(* write, its own program's included, by emptying both maps and filling     *)
(* them entry by entry, without a lock against the handlers.                *)
(****************************************************************************)
EXTENDS Naturals

CONSTANTS
    Origins,    \* OpenIDs with an entry in idmap.json
    Ids,        \* the identities they are reported as
    Choices,    \* Choices[o]: o's own id and its alternative_ids
    First,      \* First[o]: the active_id of o at the start
    Switchers,  \* text messages that switch
    Who,        \* Who[s]: their sender
    MaxEdits,   \* bound: edits of the operator
    None

ASSUME MultiIdAssumption ==
    /\ None \notin Origins \cup Ids \cup Switchers
    /\ Choices \in [Origins -> SUBSET Ids]
    /\ First \in [Origins -> Ids]
    /\ \A o \in Origins : First[o] \in Choices[o]
    /\ \A o, p \in Origins : o # p => Choices[o] \cap Choices[p] = {}
    /\ Who \in [Switchers -> Origins]
    /\ MaxEdits \in Nat

VARIABLES
    file,      \* file[o]: the active_id of o in idmap.json, None without entry
    whole,     \* the file is not truncated by a write in progress or failed
    fileLock,  \* the switcher in saveConfig, or None
    table,     \* idMapData: the active id of o
    index,     \* activeIDToOriginID
    pc,        \* pc[s]: where switcher s is
    choice,    \* choice[s]: the id it switches to
    snap,      \* snap[s]: what saveConfig writes
    events,    \* fsnotify has a write event for the watcher
    watcher,   \* where the watcher is
    loaded,    \* what it has read
    todo,      \* the entries it has not stored yet
    failed,    \* history: a save failed
    overlap,   \* history: a table was saved while the watcher was filling it
    edits      \* bound

fileVars   == <<file, whole, fileLock>>
tables     == <<table, index>>
switchVars == <<pc, choice, snap>>
watchVars  == <<watcher, loaded, todo>>
history    == <<failed, overlap, edits>>
vars == <<fileVars, tables, switchVars, events, watchVars, history>>

Empty == [o \in Origins |-> None]

\* The watcher runs, and loadConfig has filled both maps.
Init == /\ file = First /\ whole = TRUE /\ fileLock = None
        /\ table = First
        /\ index = [a \in Ids |-> IF \E o \in Origins : First[o] = a
                                  THEN CHOOSE o \in Origins : First[o] = a ELSE None]
        /\ pc = [s \in Switchers |-> "idle"]
        /\ choice = [s \in Switchers |-> None]
        /\ snap = [s \in Switchers |-> Empty]
        /\ events = FALSE
        /\ watcher = "idle" /\ loaded = Empty /\ todo = {}
        /\ failed = FALSE /\ overlap = FALSE /\ edits = 0

-----------------------------------------------------------------------------
(* textMsgHandler and SetIdMap.                                             *)

\* GetIdMap: without an entry the handler answers that there is no list.
Look(s) ==
    /\ pc[s] = "idle"
    /\ IF table[Who[s]] = None
       THEN pc' = [pc EXCEPT ![s] = "refused"] /\ UNCHANGED choice
       ELSE /\ pc' = [pc EXCEPT ![s] = "found"]
            /\ \E a \in Choices[Who[s]] : choice' = [choice EXCEPT ![s] = a]
    /\ UNCHANGED <<fileVars, tables, snap, events, watchVars, history>>

\* The entry is changed and stored.  activeIDToOriginID is left to the watcher.
Switch(s) ==
    /\ pc[s] = "found"
    /\ pc' = [pc EXCEPT ![s] = "stored"]
    /\ table' = [table EXCEPT ![Who[s]] = choice[s]]
    /\ choice' = [choice EXCEPT ![s] = None]
    /\ UNCHANGED <<fileVars, index, snap, events, watchVars, history>>

\* saveConfig locks the file and collects the entries of the table.
Collect(s) ==
    /\ pc[s] = "stored" /\ fileLock = None
    /\ pc' = [pc EXCEPT ![s] = "saving"]
    /\ fileLock' = s
    /\ snap' = [snap EXCEPT ![s] = table]
    /\ overlap' = (overlap \/ watcher = "filling")
    /\ UNCHANGED <<file, whole, tables, choice, events, watchVars, failed, edits>>

\* os.WriteFile truncates the file ...
Truncate(s) ==
    /\ pc[s] = "saving"
    /\ pc' = [pc EXCEPT ![s] = "writing"]
    /\ whole' = FALSE
    /\ events' = TRUE
    /\ UNCHANGED <<file, fileLock, tables, choice, snap, watchVars, history>>

\* Variant: the file is replaced without an event for the watched path.
WriteUnseen(s) ==
    /\ pc[s] = "writing"
    /\ snap' = [snap EXCEPT ![s] = Empty]
    /\ pc' = [pc EXCEPT ![s] = "done"]
    /\ file' = snap[s]
    /\ whole' = TRUE /\ fileLock' = None
    /\ UNCHANGED <<tables, choice, events, watchVars, history>>

\* ... and writes it.  The user is told that the switch succeeded.
Write(s) ==
    /\ pc[s] = "writing"
    /\ snap' = [snap EXCEPT ![s] = Empty]
    /\ pc' = [pc EXCEPT ![s] = "done"]
    /\ file' = snap[s]
    /\ whole' = TRUE /\ fileLock' = None
    /\ events' = TRUE
    /\ UNCHANGED <<tables, choice, watchVars, history>>

\* Variant: the error path returns without releasing the lock.
SaveFailsLocked(s) ==
    /\ pc[s] \in {"saving", "writing"}
    /\ snap' = [snap EXCEPT ![s] = Empty]
    /\ pc' = [pc EXCEPT ![s] = "failed"]
    /\ failed' = TRUE
    /\ UNCHANGED <<fileVars, tables, choice, events, watchVars, overlap, edits>>

\* The file cannot be opened, or not written.
SaveFails(s) ==
    /\ pc[s] \in {"saving", "writing"}
    /\ snap' = [snap EXCEPT ![s] = Empty]
    /\ pc' = [pc EXCEPT ![s] = "failed"]
    /\ fileLock' = None
    /\ failed' = TRUE
    /\ UNCHANGED <<file, whole, tables, choice, events, watchVars, overlap, edits>>

\* SetIdMap then deletes the entry, whoever has stored it meanwhile.
Rollback(s) ==
    /\ pc[s] = "failed"
    /\ pc' = [pc EXCEPT ![s] = "refused"]
    /\ table' = [table EXCEPT ![Who[s]] = None]
    /\ UNCHANGED <<fileVars, index, choice, snap, events, watchVars, history>>

-----------------------------------------------------------------------------
(* watchFileForChanges and loadConfig.                                      *)

TakeEvent == /\ watcher = "idle" /\ events
             /\ events' = FALSE
             /\ watcher' = "reading"
             /\ UNCHANGED <<fileVars, tables, switchVars, loaded, todo, history>>

\* Variant: a truncated file counts as an empty list.
ReadAnyFile == /\ watcher = "reading"
               /\ watcher' = "parsed"
               /\ loaded' = IF whole THEN file ELSE Empty
               /\ UNCHANGED <<fileVars, tables, switchVars, events, todo, history>>

\* A truncated file does not parse, and the maps stay as they are.
ReadFile == /\ watcher = "reading"
            /\ IF whole THEN watcher' = "parsed" /\ loaded' = file
                        ELSE watcher' = "idle" /\ UNCHANGED loaded
            /\ UNCHANGED <<fileVars, tables, switchVars, events, todo, history>>

\* Both maps are replaced by empty ones.
Clear == /\ watcher = "parsed"
         /\ table' = Empty
         /\ index' = [a \in Ids |-> None]
         /\ todo' = {o \in Origins : loaded[o] # None}
         /\ watcher' = IF todo' = {} THEN "idle" ELSE "filling"
         /\ UNCHANGED <<fileVars, switchVars, events, loaded, history>>

\* The next entry, whichever it is in the file.
Fill(o) ==
    /\ watcher = "filling" /\ o \in todo
    /\ table' = [table EXCEPT ![o] = loaded[o]]
    /\ index' = [index EXCEPT ![loaded[o]] = o]
    /\ todo' = todo \ {o}
    /\ watcher' = IF todo' = {} THEN "idle" ELSE "filling"
    /\ UNCHANGED <<fileVars, switchVars, events, loaded, history>>

\* The operator gives o another active id and saves the file.
Edit == /\ edits < MaxEdits /\ whole
        /\ edits' = edits + 1
        /\ \E o \in Origins : \E a \in Choices[o] : file' = [file EXCEPT ![o] = a]
        /\ events' = TRUE
        /\ UNCHANGED <<whole, fileLock, tables, switchVars, watchVars, failed, overlap>>

-----------------------------------------------------------------------------

SetIdMap(s) == \/ Switch(s) \/ Collect(s) \/ Truncate(s) \/ Write(s)
               \/ SaveFails(s) \/ Rollback(s)
Load == TakeEvent \/ ReadFile \/ Clear \/ \E o \in Origins : Fill(o)

Next == \/ \E s \in Switchers : Look(s) \/ SetIdMap(s)
        \/ Load \/ Edit

Spec == Init /\ [][Next]_vars

\* Handlers that began and the watcher run on; nobody has to switch or edit.
Fairness == WF_vars(Load) /\ \A s \in Switchers : WF_vars(SetIdMap(s))
FairSpec == Spec /\ Fairness

-----------------------------------------------------------------------------

TypeOK ==
    /\ file \in [Origins -> Ids \cup {None}]
    /\ whole \in BOOLEAN
    /\ fileLock \in Switchers \cup {None}
    /\ table \in [Origins -> Ids \cup {None}]
    /\ index \in [Ids -> Origins \cup {None}]
    /\ pc \in [Switchers -> {"idle", "found", "stored", "saving", "writing", "failed",
                         "done", "refused"}]
    /\ choice \in [Switchers -> Ids \cup {None}]
    /\ snap \in [Switchers -> [Origins -> Ids \cup {None}]]
    /\ events \in BOOLEAN
    /\ watcher \in {"idle", "reading", "parsed", "filling"}
    /\ loaded \in [Origins -> Ids \cup {None}]
    /\ todo \in SUBSET Origins
    /\ failed \in BOOLEAN /\ overlap \in BOOLEAN /\ edits \in 0 .. MaxEdits

\* No switch is between its change of the table and the end of its save, and
\* the watcher has loaded what was written last.
Quiet == /\ \A s \in Switchers : pc[s] \in {"idle", "found", "done", "refused"}
         /\ watcher = "idle" /\ ~events

\* However loads, switches and edits interleave, the maps and the file agree
\* when it is quiet: a reply to the active id of a user finds the user.
QuietAgrees ==
    Quiet /\ ~failed =>
        /\ whole /\ table = file
        /\ \A a \in Ids, o \in Origins : index[a] = o <=> table[o] = a

\* An entry disappears from the file only by the one race the code leaves open:
\* a save that collects the table while the watcher is filling it.
EntriesSurvive == ~overlap /\ ~failed => \A o \in Origins : file[o] # None

\* The program always becomes quiet again, failed saves included.
QuietAgain == []<>Quiet

=============================================================================
