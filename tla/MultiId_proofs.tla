---------------------------- MODULE MultiId_proofs ----------------------------
(****************************************************************************)
(* Switches of identity, saves and hot reloads for any followers, any       *)
(* number of switches and edits: when all is quiet the two maps and the     *)
(* file agree, and entries disappear only by the race of a save with a      *)
(* reload.                                                                  *)
(****************************************************************************)
EXTENDS MultiId, TLAPS

\* Everybody is given an id of his own list, wherever an id is kept.
OwnIds ==
    /\ \A o \in Origins : {file[o], table[o], loaded[o]} \subseteq Choices[o] \cup {None}
    /\ \A s \in Switchers, o \in Origins : snap[s][o] \in Choices[o] \cup {None}
    /\ \A s \in Switchers : choice[s] \in Choices[Who[s]] \cup {None}
    /\ \A s \in Switchers : pc[s] = "found" => choice[s] # None
    /\ \A s \in Switchers : pc[s] = "failed" => failed

\* The lock is with the one switcher in saveConfig, and the file is truncated
\* only while that one writes.
LockState ==
    /\ \A s \in Switchers : pc[s] \in {"saving", "writing"} <=> fileLock = s
    /\ ~whole => \E s \in Switchers : pc[s] = "writing"
    /\ \A s \in Switchers : pc[s] = "writing" => ~whole

\* A load that is under way without a new event loads what is in the file.
LoadIsCurrent == ~events /\ watcher \in {"parsed", "filling"} => loaded = file

\* A switch that will still be saved.
Unsaved(o) == \E s \in Switchers : Who[s] = o /\ pc[s] \in {"stored", "saving"}

\* The table holds what was loaded, or a switch that will still be saved.
TableFollows ==
    /\ ~events /\ watcher = "filling" =>
          \A o \in Origins \ todo : table[o] = loaded[o] \/ Unsaved(o)
    /\ ~events /\ watcher = "idle" /\ whole =>
          \A o \in Origins : table[o] = file[o] \/ Unsaved(o)

\* The inverse map is the inverse of what was loaded.
IndexFollows ==
    /\ watcher = "filling" =>
          \A a \in Ids, o \in Origins : index[a] = o <=> loaded[o] = a /\ o \notin todo
    /\ ~events /\ watcher = "idle" /\ whole =>
          \A a \in Ids, o \in Origins : index[a] = o <=> file[o] = a

\* The entries of everybody are in the file, in what a load has read, in what a
\* save has collected, and in the table but for those a load has not stored yet.
NoneMissing ==
    \A o \in Origins :
        /\ file[o] # None
        /\ watcher \in {"parsed", "filling"} => loaded[o] # None
        /\ table[o] # None \/ (watcher = "filling" /\ o \in todo)
        /\ \A s \in Switchers : pc[s] \in {"saving", "writing"} => snap[s][o] # None

Agreement == LockState /\ LoadIsCurrent /\ TableFollows /\ IndexFollows
MultiInv == /\ TypeOK /\ OwnIds
            /\ ~failed => Agreement
            /\ ~overlap /\ ~failed => NoneMissing

-----------------------------------------------------------------------------

\* Types and lists are kept by every step.
LEMMA TypeStep ==
    ASSUME TypeOK, OwnIds, [Next]_vars
    PROVE  TypeOK' /\ OwnIds'
<1> USE MultiIdAssumption DEF fileVars, tables, switchVars, watchVars, history
<1>0. \A o \in Origins : Choices[o] \subseteq Ids
  OBVIOUS
<1>1. ASSUME NEW s \in Switchers, Look(s) PROVE TypeOK' /\ OwnIds'
  <2>1. UNCHANGED <<file, whole, fileLock, table, index, snap, events, watcher, loaded, todo,
                    failed, overlap, edits>>
    BY <1>1 DEF Look
  <2>2. CASE table[Who[s]] = None
    <3>1. pc' = [pc EXCEPT ![s] = "refused"] /\ choice' = choice
      BY <1>1, <2>2 DEF Look
    <3>2. TypeOK'
      BY <2>1, <3>1 DEF TypeOK
    <3>3. OwnIds'
      BY <2>1, <3>1 DEF TypeOK, OwnIds
    <3>4. QED
      BY <3>2, <3>3
  <2>3. CASE table[Who[s]] # None
    <3>1. PICK a \in Choices[Who[s]] : choice' = [choice EXCEPT ![s] = a]
      BY <1>1, <2>3 DEF Look
    <3>2. pc' = [pc EXCEPT ![s] = "found"]
      BY <1>1, <2>3 DEF Look
    <3>3. a \in Ids /\ a # None
      BY <1>0
    <3>4. TypeOK'
      BY <2>1, <3>1, <3>2, <3>3 DEF TypeOK
    <3>5. OwnIds'
      BY <2>1, <3>1, <3>2, <3>3 DEF TypeOK, OwnIds
    <3>6. QED
      BY <3>4, <3>5
  <2>4. QED
    BY <2>2, <2>3
<1>2. ASSUME NEW s \in Switchers, Switch(s) PROVE TypeOK' /\ OwnIds'
  <2>1. TypeOK'
    BY <1>0, <1>2 DEF Switch, TypeOK, OwnIds, Empty
  <2>2. OwnIds'
    BY <1>0, <1>2 DEF Switch, TypeOK, OwnIds, Empty
  <2>3. QED
    BY <2>1, <2>2
<1>3. ASSUME NEW s \in Switchers, Collect(s) PROVE TypeOK' /\ OwnIds'
  <2>1. TypeOK'
    BY <1>0, <1>3 DEF Collect, TypeOK, OwnIds, Empty
  <2>2. OwnIds'
    BY <1>0, <1>3 DEF Collect, TypeOK, OwnIds, Empty
  <2>3. QED
    BY <2>1, <2>2
<1>4. ASSUME NEW s \in Switchers, Truncate(s) PROVE TypeOK' /\ OwnIds'
  <2>1. TypeOK'
    BY <1>0, <1>4 DEF Truncate, TypeOK, OwnIds, Empty
  <2>2. OwnIds'
    BY <1>0, <1>4 DEF Truncate, TypeOK, OwnIds, Empty
  <2>3. QED
    BY <2>1, <2>2
<1>5. ASSUME NEW s \in Switchers, Write(s) PROVE TypeOK' /\ OwnIds'
  <2>1. TypeOK'
    BY <1>0, <1>5 DEF Write, TypeOK, OwnIds, Empty
  <2>2. OwnIds'
    BY <1>0, <1>5 DEF Write, TypeOK, OwnIds, Empty
  <2>3. QED
    BY <2>1, <2>2
<1>6. ASSUME NEW s \in Switchers, SaveFails(s) PROVE TypeOK' /\ OwnIds'
  <2>1. TypeOK'
    BY <1>0, <1>6 DEF SaveFails, TypeOK, OwnIds, Empty
  <2>2. OwnIds'
    BY <1>0, <1>6 DEF SaveFails, TypeOK, OwnIds, Empty
  <2>3. QED
    BY <2>1, <2>2
<1>7. ASSUME NEW s \in Switchers, Rollback(s) PROVE TypeOK' /\ OwnIds'
  <2>1. TypeOK'
    BY <1>0, <1>7 DEF Rollback, TypeOK, OwnIds, Empty
  <2>2. OwnIds'
    BY <1>0, <1>7 DEF Rollback, TypeOK, OwnIds, Empty
  <2>3. QED
    BY <2>1, <2>2
<1>8. CASE TakeEvent
  <2>1. TypeOK'
    BY <1>0, <1>8 DEF TakeEvent, TypeOK, Empty
  <2>2. OwnIds'
    BY <1>0, <1>8 DEF TakeEvent, TypeOK, OwnIds, Empty
  <2>3. QED
    BY <2>1, <2>2
<1>9. CASE ReadFile
  <2>1. TypeOK'
    BY <1>0, <1>9 DEF ReadFile, TypeOK, Empty
  <2>2. OwnIds'
    BY <1>0, <1>9 DEF ReadFile, TypeOK, OwnIds, Empty
  <2>3. QED
    BY <2>1, <2>2
<1>10. CASE Clear
  <2>1. TypeOK'
    BY <1>0, <1>10 DEF Clear, TypeOK, Empty
  <2>2. OwnIds'
    BY <1>0, <1>10 DEF Clear, TypeOK, OwnIds, Empty
  <2>3. QED
    BY <2>1, <2>2
<1>11. ASSUME NEW o \in Origins, Fill(o) PROVE TypeOK' /\ OwnIds'
  <2>1. TypeOK'
    BY <1>0, <1>11 DEF Fill, TypeOK
  <2>2. OwnIds'
    BY <1>0, <1>11 DEF Fill, TypeOK, OwnIds
  <2>3. QED
    BY <2>1, <2>2
<1>12. CASE Edit
  <2>1. PICK o \in Origins : \E a \in Choices[o] : file' = [file EXCEPT ![o] = a]
    BY <1>12 DEF Edit
  <2>2. PICK a \in Choices[o] : file' = [file EXCEPT ![o] = a]
    BY <2>1
  <2>3. TypeOK'
    BY <1>0, <1>12, <2>2 DEF Edit, TypeOK
  <2>4. OwnIds'
    BY <1>0, <1>12, <2>2 DEF Edit, TypeOK, OwnIds
  <2>5. QED
    BY <2>3, <2>4
<1>13. CASE UNCHANGED vars
  <2>1. TypeOK'
    BY <1>13 DEF vars, TypeOK
  <2>2. OwnIds'
    BY <1>13 DEF vars, OwnIds
  <2>3. QED
    BY <2>1, <2>2
<1>14. QED
  BY <1>1, <1>2, <1>3, <1>4, <1>5, <1>6, <1>7, <1>8, <1>9, <1>10, <1>11, <1>12, <1>13 DEF Next, SetIdMap, Load

\* Without a failed save, every step keeps the lock, the load and the maps
\* together.
LEMMA AgreementStep ==
    ASSUME TypeOK, OwnIds, ~failed => Agreement, [Next]_vars, ~failed'
    PROVE  Agreement'
<1> USE MultiIdAssumption DEF fileVars, tables, switchVars, watchVars, history
<1>0. ~failed
  BY DEF Next, SetIdMap, Load, Look, Switch, Collect, Truncate, Write, SaveFails, Rollback,
         TakeEvent, ReadFile, Clear, Fill, Edit, vars
<1>a. LockState /\ LoadIsCurrent /\ TableFollows /\ IndexFollows
  BY <1>0 DEF Agreement
<1>b. /\ pc \in [Switchers -> {"idle", "found", "stored", "saving", "writing", "failed",
                                "done", "refused"}]
      /\ table \in [Origins -> Ids \cup {None}] /\ index \in [Ids -> Origins \cup {None}]
      /\ file \in [Origins -> Ids \cup {None}] /\ loaded \in [Origins -> Ids \cup {None}]
      /\ snap \in [Switchers -> [Origins -> Ids \cup {None}]]
      /\ todo \subseteq Origins /\ whole \in BOOLEAN /\ events \in BOOLEAN
      /\ watcher \in {"idle", "reading", "parsed", "filling"}
  BY DEF TypeOK
<1>1. ASSUME NEW s \in Switchers, Look(s) PROVE Agreement'
  <2>1. LockState'
    <3>1. /\ pc[s] = "idle" /\ UNCHANGED <<whole, fileLock>>
          /\ \E p \in {"refused", "found"} : pc' = [pc EXCEPT ![s] = p]
      BY <1>1 DEF Look
    <3>2. QED
      BY <1>a, <1>b, <3>1 DEF LockState
  <2>2. LoadIsCurrent'
    BY <1>a, <1>b, <1>1 DEF Look, LoadIsCurrent
  <2>3. TableFollows'
    <3>1. /\ pc[s] = "idle" /\ UNCHANGED <<file, whole, table, events, watcher, loaded, todo>>
          /\ \E p \in {"refused", "found"} : pc' = [pc EXCEPT ![s] = p]
      BY <1>1 DEF Look
    <3>2. \A o \in Origins : Unsaved(o) => Unsaved(o)'
      BY <1>b, <3>1 DEF Unsaved
    <3>3. QED
      BY <1>a, <3>1, <3>2 DEF TableFollows
  <2>4. IndexFollows'
    BY <1>a, <1>b, <1>1 DEF Look, IndexFollows, LoadIsCurrent, LockState
  <2>5. QED
    BY <2>1, <2>2, <2>3, <2>4 DEF Agreement
<1>2. ASSUME NEW s \in Switchers, Switch(s) PROVE Agreement'
  <2>1. LockState'
    BY <1>a, <1>b, <1>2 DEF Switch, LockState
  <2>2. LoadIsCurrent'
    BY <1>a, <1>b, <1>2 DEF Switch, LoadIsCurrent
  <2>3. TableFollows'
    BY <1>a, <1>b, <1>2 DEF Switch, TableFollows, Unsaved, LoadIsCurrent, LockState
  <2>4. IndexFollows'
    BY <1>a, <1>b, <1>2 DEF Switch, IndexFollows, LoadIsCurrent, LockState
  <2>5. QED
    BY <2>1, <2>2, <2>3, <2>4 DEF Agreement
<1>3. ASSUME NEW s \in Switchers, Collect(s) PROVE Agreement'
  <2>1. LockState'
    BY <1>a, <1>b, <1>3 DEF Collect, LockState
  <2>2. LoadIsCurrent'
    BY <1>a, <1>b, <1>3 DEF Collect, LoadIsCurrent
  <2>3. TableFollows'
    BY <1>a, <1>b, <1>3 DEF Collect, TableFollows, Unsaved, LoadIsCurrent, LockState
  <2>4. IndexFollows'
    BY <1>a, <1>b, <1>3 DEF Collect, IndexFollows, LoadIsCurrent, LockState
  <2>5. QED
    BY <2>1, <2>2, <2>3, <2>4 DEF Agreement
<1>4. ASSUME NEW s \in Switchers, Truncate(s) PROVE Agreement'
  <2>1. LockState'
    BY <1>a, <1>b, <1>4 DEF Truncate, LockState
  <2>2. LoadIsCurrent'
    BY <1>a, <1>b, <1>4 DEF Truncate, LoadIsCurrent
  <2>3. TableFollows'
    BY <1>a, <1>b, <1>4 DEF Truncate, TableFollows, Unsaved, LoadIsCurrent, LockState
  <2>4. IndexFollows'
    BY <1>a, <1>b, <1>4 DEF Truncate, IndexFollows, LoadIsCurrent, LockState
  <2>5. QED
    BY <2>1, <2>2, <2>3, <2>4 DEF Agreement
<1>5. ASSUME NEW s \in Switchers, Write(s) PROVE Agreement'
  <2>1. LockState'
    BY <1>a, <1>b, <1>5 DEF Write, LockState
  <2>2. LoadIsCurrent'
    BY <1>a, <1>b, <1>5 DEF Write, LoadIsCurrent
  <2>3. TableFollows'
    BY <1>a, <1>b, <1>5 DEF Write, TableFollows, Unsaved, LoadIsCurrent, LockState
  <2>4. IndexFollows'
    BY <1>a, <1>b, <1>5 DEF Write, IndexFollows, LoadIsCurrent, LockState
  <2>5. QED
    BY <2>1, <2>2, <2>3, <2>4 DEF Agreement
<1>6. ASSUME NEW s \in Switchers, SaveFails(s) \/ Rollback(s) PROVE FALSE
  BY <1>0, <1>6 DEF SaveFails, Rollback, OwnIds
<1>7. CASE TakeEvent
  <2>1. LockState'
    BY <1>a, <1>b, <1>7 DEF TakeEvent, LockState
  <2>2. LoadIsCurrent'
    BY <1>a, <1>b, <1>7 DEF TakeEvent, LoadIsCurrent
  <2>3. TableFollows'
    BY <1>a, <1>b, <1>7 DEF TakeEvent, TableFollows, Unsaved, LoadIsCurrent, LockState
  <2>4. IndexFollows'
    BY <1>a, <1>b, <1>7 DEF TakeEvent, IndexFollows, LoadIsCurrent, LockState
  <2>5. QED
    BY <2>1, <2>2, <2>3, <2>4 DEF Agreement
<1>8. CASE ReadFile
  <2>1. LockState'
    BY <1>a, <1>b, <1>8 DEF ReadFile, LockState
  <2>2. LoadIsCurrent'
    BY <1>a, <1>b, <1>8 DEF ReadFile, LoadIsCurrent
  <2>3. TableFollows'
    BY <1>a, <1>b, <1>8 DEF ReadFile, TableFollows, Unsaved, LoadIsCurrent, LockState
  <2>4. IndexFollows'
    BY <1>a, <1>b, <1>8 DEF ReadFile, IndexFollows, LoadIsCurrent, LockState
  <2>5. QED
    BY <2>1, <2>2, <2>3, <2>4 DEF Agreement
<1>9. CASE Clear
  <2>1. LockState'
    BY <1>a, <1>b, <1>9 DEF Clear, Empty, LockState
  <2>2. LoadIsCurrent'
    BY <1>a, <1>b, <1>9 DEF Clear, Empty, LoadIsCurrent
  <2>3. TableFollows'
    BY <1>a, <1>b, <1>9 DEF Clear, Empty, TableFollows, Unsaved, LoadIsCurrent, LockState
  <2>4. IndexFollows'
    BY <1>a, <1>b, <1>9 DEF Clear, Empty, IndexFollows, LoadIsCurrent, LockState
  <2>5. QED
    BY <2>1, <2>2, <2>3, <2>4 DEF Agreement
<1>10. ASSUME NEW o \in Origins, Fill(o) PROVE Agreement'
  <2>1. LockState'
    BY <1>a, <1>b, <1>10 DEF Fill, OwnIds, LockState
  <2>2. LoadIsCurrent'
    BY <1>a, <1>b, <1>10 DEF Fill, OwnIds, LoadIsCurrent
  <2>3. TableFollows'
    BY <1>a, <1>b, <1>10 DEF Fill, OwnIds, TableFollows, Unsaved, LoadIsCurrent, LockState
  <2>4. IndexFollows'
    BY <1>a, <1>b, <1>10 DEF Fill, OwnIds, IndexFollows, LoadIsCurrent, LockState
  <2>5. QED
    BY <2>1, <2>2, <2>3, <2>4 DEF Agreement
<1>11. CASE Edit
  <2>1. LockState'
    BY <1>a, <1>b, <1>11 DEF Edit, LockState
  <2>2. LoadIsCurrent'
    BY <1>a, <1>b, <1>11 DEF Edit, LoadIsCurrent
  <2>3. TableFollows'
    BY <1>a, <1>b, <1>11 DEF Edit, TableFollows, Unsaved, LoadIsCurrent, LockState
  <2>4. IndexFollows'
    BY <1>a, <1>b, <1>11 DEF Edit, IndexFollows, LoadIsCurrent, LockState
  <2>5. QED
    BY <2>1, <2>2, <2>3, <2>4 DEF Agreement
<1>12. CASE UNCHANGED vars
  <2>1. LockState'
    BY <1>a, <1>b, <1>12 DEF vars, LockState
  <2>2. LoadIsCurrent'
    BY <1>a, <1>b, <1>12 DEF vars, LoadIsCurrent
  <2>3. TableFollows'
    BY <1>a, <1>b, <1>12 DEF vars, TableFollows, Unsaved, LoadIsCurrent, LockState
  <2>4. IndexFollows'
    BY <1>a, <1>b, <1>12 DEF vars, IndexFollows, LoadIsCurrent, LockState
  <2>5. QED
    BY <2>1, <2>2, <2>3, <2>4 DEF Agreement
<1>13. QED
  BY <1>1, <1>2, <1>3, <1>4, <1>5, <1>6, <1>7, <1>8, <1>9, <1>10, <1>11, <1>12 DEF Next, SetIdMap, Load

\* Nor does it lose an entry, unless a table is collected during a load.
LEMMA EntriesStep ==
    ASSUME TypeOK, OwnIds, ~overlap /\ ~failed => NoneMissing, [Next]_vars, ~overlap', ~failed'
    PROVE  NoneMissing'
<1> USE MultiIdAssumption DEF fileVars, tables, switchVars, watchVars, history
<1>0. ~failed /\ ~overlap
  <2>1. failed' \in {failed, TRUE}
    BY DEF Next, SetIdMap, Load, Look, Switch, Collect, Truncate, Write, SaveFails, Rollback,
           TakeEvent, ReadFile, Clear, Fill, Edit, vars
  <2>2. overlap' = overlap \/ overlap' = (overlap \/ watcher = "filling")
    BY DEF Next, SetIdMap, Load, Look, Switch, Collect, Truncate, Write, SaveFails, Rollback,
           TakeEvent, ReadFile, Clear, Fill, Edit, vars
  <2>3. failed \in BOOLEAN /\ overlap \in BOOLEAN
    BY DEF TypeOK
  <2>4. QED
    BY <2>1, <2>2, <2>3
<1>a. NoneMissing
  BY <1>0
<1>b. \A o \in Origins : \A a \in Choices[o] : a # None
  OBVIOUS
<1>1. ASSUME NEW s \in Switchers, Look(s) PROVE NoneMissing'
  BY <1>0, <1>a, <1>b, <1>1 DEF Look, NoneMissing, TypeOK, OwnIds
<1>2. ASSUME NEW s \in Switchers, Switch(s) PROVE NoneMissing'
  BY <1>0, <1>a, <1>b, <1>2 DEF Switch, NoneMissing, TypeOK, OwnIds
<1>3. ASSUME NEW s \in Switchers, Collect(s) PROVE NoneMissing'
  <2>1. overlap \in BOOLEAN /\ overlap' = (overlap \/ watcher = "filling")
    BY <1>3 DEF Collect, TypeOK
  <2>2. watcher # "filling"
    BY <2>1
  <2>3. \A o \in Origins : table[o] # None
    BY <1>a, <2>2 DEF NoneMissing
  <2>4. QED
    BY <1>a, <1>3, <2>2, <2>3 DEF Collect, NoneMissing, TypeOK
<1>4. ASSUME NEW s \in Switchers, Truncate(s) PROVE NoneMissing'
  BY <1>0, <1>a, <1>b, <1>4 DEF Truncate, NoneMissing, TypeOK, OwnIds
<1>5. ASSUME NEW s \in Switchers, Write(s) PROVE NoneMissing'
  BY <1>0, <1>a, <1>b, <1>5 DEF Write, NoneMissing, TypeOK, OwnIds
<1>6. ASSUME NEW s \in Switchers, SaveFails(s) \/ Rollback(s) PROVE FALSE
  BY <1>0, <1>6 DEF SaveFails, Rollback, OwnIds
<1>7. CASE TakeEvent
  BY <1>0, <1>a, <1>b, <1>7 DEF TakeEvent, NoneMissing, TypeOK, OwnIds
<1>8. CASE ReadFile
  BY <1>0, <1>a, <1>b, <1>8 DEF ReadFile, NoneMissing, TypeOK, OwnIds
<1>9. CASE Clear
  BY <1>0, <1>a, <1>b, <1>9 DEF Clear, Empty, NoneMissing, TypeOK, OwnIds
<1>10. ASSUME NEW o \in Origins, Fill(o) PROVE NoneMissing'
  BY <1>0, <1>a, <1>b, <1>10 DEF Fill, NoneMissing, TypeOK, OwnIds
<1>11. CASE Edit
  BY <1>0, <1>a, <1>b, <1>11 DEF Edit, NoneMissing, TypeOK, OwnIds
<1>12. CASE UNCHANGED vars
  BY <1>0, <1>a, <1>b, <1>12 DEF vars, NoneMissing, TypeOK, OwnIds
<1>13. QED
  BY <1>1, <1>2, <1>3, <1>4, <1>5, <1>6, <1>7, <1>8, <1>9, <1>10, <1>11, <1>12 DEF Next, SetIdMap, Load

-----------------------------------------------------------------------------

\* The initial state satisfies the inductive invariant.
LEMMA InitMultiInv == Init => MultiInv
<1> SUFFICES ASSUME Init PROVE MultiInv
  OBVIOUS
<1> USE MultiIdAssumption DEF Init, Empty
<1>0. \A o \in Origins : Choices[o] \subseteq Ids
  OBVIOUS
<1>1. \A a \in Ids, o \in Origins : index[a] = o <=> First[o] = a
  OBVIOUS
<1>2. index \in [Ids -> Origins \cup {None}]
  OBVIOUS
<1>3. TypeOK
  <2>1. First \in [Origins -> Ids \cup {None}] /\ Empty \in [Origins -> Ids \cup {None}]
    OBVIOUS
  <2>2. snap \in [Switchers -> [Origins -> Ids \cup {None}]]
    BY <2>1
  <2>3. 0 \in 0 .. MaxEdits
    OBVIOUS
  <2>4. QED
    BY <1>2, <2>1, <2>2, <2>3 DEF TypeOK
<1>4. OwnIds
  BY DEF OwnIds
<1>5. LockState /\ LoadIsCurrent /\ TableFollows
  BY DEF LockState, LoadIsCurrent, TableFollows
<1>6. IndexFollows
  BY <1>1 DEF IndexFollows
<1>7. NoneMissing
  <2>1. \A o \in Origins : First[o] # None
    BY <1>0
  <2>2. QED
    BY <2>1 DEF NoneMissing
<1>8. QED
  BY <1>3, <1>4, <1>5, <1>6, <1>7 DEF MultiInv, Agreement

\* The inductive invariant holds in every reachable state.
LEMMA MultiInvInvariant == Spec => []MultiInv
<1>1. MultiInv /\ [Next]_vars => MultiInv'
  <2> SUFFICES ASSUME MultiInv, [Next]_vars PROVE MultiInv'
    OBVIOUS
  <2>1. TypeOK /\ OwnIds /\ (~failed => Agreement) /\ (~overlap /\ ~failed => NoneMissing)
    BY DEF MultiInv
  <2>2. TypeOK' /\ OwnIds'
    BY <2>1, TypeStep
  <2>3. ~failed' => Agreement'
    BY <2>1, AgreementStep
  <2>4. ~overlap' /\ ~failed' => NoneMissing'
    BY <2>1, EntriesStep
  <2>5. QED
    BY <2>2, <2>3, <2>4 DEF MultiInv
<1>2. QED
  BY InitMultiInv, <1>1, PTL DEF Spec

\* Types: every reachable state has every variable in its set.
THEOREM ListsTypeCorrect == Spec => []TypeOK
<1>1. MultiInv => TypeOK
  BY DEF MultiInv
<1>2. QED
  BY <1>1, MultiInvInvariant, PTL

\* When no switch and no load is under way, and no save has failed, the table,
\* its inverse and the file agree, however loads, switches and edits met.
THEOREM AgreesWhenQuiet == Spec => []QuietAgrees
<1>1. MultiInv => QuietAgrees
  <2> SUFFICES ASSUME MultiInv, Quiet, ~failed
               PROVE  /\ whole /\ table = file
                      /\ \A a \in Ids, o \in Origins : index[a] = o <=> table[o] = a
    BY DEF QuietAgrees
  <2>1. LockState /\ TableFollows /\ IndexFollows /\ TypeOK
    BY DEF MultiInv, Agreement
  <2>2. whole
    BY <2>1 DEF LockState, Quiet
  <2>3. \A o \in Origins : table[o] = file[o]
    BY <2>1, <2>2 DEF TableFollows, Unsaved, Quiet
  <2>4. table = file
    BY <2>1, <2>3 DEF TypeOK
  <2>5. QED
    BY <2>1, <2>2, <2>4 DEF IndexFollows, Quiet
<1>2. QED
  BY <1>1, MultiInvInvariant, PTL

\* The file loses no entry, unless a table is saved that the watcher is filling
\* or a save fails.
THEOREM EntriesAreKept == Spec => []EntriesSurvive
<1>1. MultiInv => EntriesSurvive
  BY DEF MultiInv, NoneMissing, EntriesSurvive
<1>2. QED
  BY <1>1, MultiInvInvariant, PTL

=============================================================================
