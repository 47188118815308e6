--------------------------------- MODULE IdMap ---------------------------------
(****************************************************************************)
(* idmap: the persistent two-way tables between OpenIDs and the numbers     *)
(* (rows) OneBot applications know them by.  Every operation is one bolt    *)
(* transaction, serial and atomic, also across a crash; the same file is    *)
(* opened again after a restart.                                            *)
(*                                                                          *)
(* The simple table stores an id with one row, either the next number of a  *)
(* counter or digits of the id's MD5 hash (config hash_id); the pair table  *)
(* stores (group, user) with a pair of rows, always hashed.  /getid lets    *)
(* an operator give an id, or a pair, another number.                       *)
(****************************************************************************)
EXTENDS Naturals

CONSTANTS
    Ids,       \* OpenIDs
    Rows,      \* the numbers in use; the bound of the counter
    Hash9,     \* Hash9[i], Hash10[i]: the first 9, 10 digits in the MD5 hash
    Hash10,    \*   of i, None when it has fewer
    Pairs,     \* the (group, user) pairs that are stored
    RowPairs,  \* the pairs of numbers in use
    None

ASSUME IdMapAssumption ==
    /\ Rows \subseteq Nat
    /\ None \notin Ids /\ None \notin Rows
    /\ None \notin Pairs /\ None \notin RowPairs
    /\ Hash9 \in [Ids -> Rows \cup {None}]
    /\ Hash10 \in [Ids -> Rows \cup {None}]
    /\ Pairs \subseteq Ids \X Ids
    /\ \A p \in Pairs : None \notin {Hash9[p[1]], Hash9[p[2]]}
                           => <<Hash9[p[1]], Hash9[p[2]]>> \in RowPairs

VARIABLES
    hashId,      \* config hash_id
    row,         \* row[i]: the number stored under key i
    idOf,        \* idOf[n]: the id stored under key "row-n"
    counter,     \* the number stored under currentRow, 0 when there is none
    renumbered,  \* history: an operator has changed a number
    rowPair,     \* rowPair[p]: the pair of numbers stored under "group:user"
    pairOf       \* pairOf[q]: the pair of ids stored under "number:number"

idSimple == <<row, idOf, counter, renumbered>>
idDouble == <<rowPair, pairOf>>
idVars == <<hashId, idSimple, idDouble>>

IdInit == /\ hashId \in BOOLEAN
          /\ row = [i \in Ids |-> None]
          /\ idOf = [n \in Rows |-> None]
          /\ counter = 0
          /\ renumbered = FALSE
          /\ rowPair = [p \in Pairs |-> None]
          /\ pairOf = [q \in RowPairs |-> None]

-----------------------------------------------------------------------------
(* StoreID.  For an id that is stored it only reads.                        *)

\* The nine digits, or when another entry has them ten; else an error.
FreeHash(i, n) == \/ n = Hash9[i] /\ idOf[n] = None
                  \/ n = Hash10[i] /\ Hash9[i] # None
                     /\ idOf[Hash9[i]] # None /\ idOf[n] = None

StoreHashed(i) ==
    \E n \in Rows :
        /\ hashId /\ row[i] = None
        /\ FreeHash(i, n)
        /\ row' = [row EXCEPT ![i] = n]
        /\ idOf' = [idOf EXCEPT ![n] = i]
        /\ UNCHANGED <<hashId, counter, renumbered, idDouble>>

\* Variant: currentRow is not written back.
StoreCountedForgets(i) ==
    /\ ~hashId /\ row[i] = None
    /\ counter + 1 \in Rows
    /\ row' = [row EXCEPT ![i] = counter + 1]
    /\ idOf' = [idOf EXCEPT ![counter + 1] = i]
    /\ UNCHANGED <<hashId, counter, renumbered, idDouble>>

\* The next number, whether or not "row-n" is taken.
StoreCounted(i) ==
    /\ ~hashId /\ row[i] = None
    /\ counter + 1 \in Rows
    /\ counter' = counter + 1
    /\ row' = [row EXCEPT ![i] = counter']
    /\ idOf' = [idOf EXCEPT ![counter'] = i]
    /\ UNCHANGED <<hashId, renumbered, idDouble>>

\* SimplifiedStoreID writes only the reverse entry, and a new one every time.
SimplifiedStoreID(i) ==
    \E n \in Rows :
        /\ FreeHash(i, n)
        /\ idOf' = [idOf EXCEPT ![n] = i]
        /\ UNCHANGED <<hashId, row, counter, renumbered, idDouble>>

\* Variant: whether the new number is taken is not checked.
UpdateUnchecked(o, n) ==
    /\ idOf[o] # None
    /\ row' = [row EXCEPT ![idOf[o]] = n]
    /\ idOf' = [idOf EXCEPT ![o] = None, ![n] = idOf[o]]
    /\ renumbered' = TRUE
    /\ UNCHANGED <<hashId, counter, idDouble>>

\* The id of number o gets the free number n.
UpdateVirtualValue(o, n) ==
    /\ idOf[o] # None
    /\ idOf[n] = None
    /\ row' = [row EXCEPT ![idOf[o]] = n]
    /\ idOf' = [idOf EXCEPT ![o] = None, ![n] = idOf[o]]
    /\ renumbered' = TRUE
    /\ UNCHANGED <<hashId, counter, idDouble>>

-----------------------------------------------------------------------------
(* The pair table.                                                          *)

\* Both entries are written, whatever stood there.
StoreIDPro(p) ==
    LET q == <<Hash9[p[1]], Hash9[p[2]]>> IN
    /\ rowPair[p] = None
    /\ None \notin {q[1], q[2]}
    /\ rowPair' = [rowPair EXCEPT ![p] = q]
    /\ pairOf' = [pairOf EXCEPT ![q] = p]
    /\ UNCHANGED <<hashId, idSimple>>

\* Variant: the entry of the old pair of numbers stays.
UpdateProKeepsOld(o, n) ==
    /\ pairOf[o] # None
    /\ pairOf[n] = None
    /\ rowPair' = [rowPair EXCEPT ![pairOf[o]] = n]
    /\ pairOf' = [pairOf EXCEPT ![n] = pairOf[o]]
    /\ UNCHANGED <<hashId, idSimple>>

UpdateVirtualValuePro(o, n) ==
    /\ pairOf[o] # None
    /\ pairOf[n] = None
    /\ rowPair' = [rowPair EXCEPT ![pairOf[o]] = n]
    /\ pairOf' = [pairOf EXCEPT ![o] = None, ![n] = pairOf[o]]
    /\ UNCHANGED <<hashId, idSimple>>

-----------------------------------------------------------------------------

IdNext == \/ \E i \in Ids : StoreHashed(i) \/ StoreCounted(i) \/ SimplifiedStoreID(i)
          \/ \E o, n \in Rows : UpdateVirtualValue(o, n)
          \/ \E p \in Pairs : StoreIDPro(p)
          \/ \E o, n \in RowPairs : UpdateVirtualValuePro(o, n)

IdSpec == IdInit /\ [][IdNext]_idVars

-----------------------------------------------------------------------------

IdTypeOK == /\ hashId \in BOOLEAN
            /\ row \in [Ids -> Rows \cup {None}]
            /\ idOf \in [Rows -> Ids \cup {None}]
            /\ counter \in Nat
            /\ renumbered \in BOOLEAN
            /\ rowPair \in [Pairs -> RowPairs \cup {None}]
            /\ pairOf \in [RowPairs -> Pairs \cup {None}]

\* A reply addressed to the number of a user finds that user.
Reversible == \A i \in Ids : row[i] # None => idOf[row[i]] = i

\* It does with hashed numbers, whatever an operator renumbers, and with
\* counted ones as long as nobody is renumbered.
RoundTrip == hashId \/ ~renumbered => Reversible

\* In counting mode nothing above currentRow has been given out by StoreID.
CounterBounds == ~hashId /\ ~renumbered =>
                     \A i \in Ids : row[i] # None => row[i] <= counter
IdMapInv == IdTypeOK /\ RoundTrip /\ CounterBounds

\* With hashed numbers, no single operation makes a number mean another id:
\* it is given up first, by renumbering.
NumberKeepsItsId ==
    [][hashId => \A n \in Rows : idOf[n] # None => idOf'[n] \in {idOf[n], None}]_idVars

\* A pair of numbers that resolves to a pair of ids is the pair's own.
PairResolvesBack ==
    \A q \in RowPairs : pairOf[q] # None => rowPair[pairOf[q]] = q

\* UpdateVirtualValue refuses a number that is taken ("check whether the new
\* virtual value exists already", service.go:683), so that numbers stay
\* unique.  (Violated in counting mode: StoreID does not look, and takes over
\* the number an operator gave to somebody else.)
NumbersStayUnique == Reversible

=============================================================================
