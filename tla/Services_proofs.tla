--------------------------- MODULE Services_proofs ----------------------------
(***************************************************************************)
(* Proofs about worksheets, and about the services together: the items of  *)
(* a worksheet (WorksheetItems), for any number of requests and items,     *)
(* neither MaxId nor MaxInsert bounds them; what a worksheet shows         *)
(* (Interpretation); and that each component behaves among the others as   *)
(* it does alone, so that what is proved of it holds in Services.          *)
(***************************************************************************)
EXTENDS Services, Contents_proofs, Transfers_proofs, Workers_proofs, SequenceTheorems,
        WellFoundedInduction

-----------------------------------------------------------------------------
(* The items of a worksheet *)

(* Every id and key is below the next id; and what an edit would replace   *)
(* it has read.                                                            *)
Numbered ==
    /\ IsFiniteSet(rows)
    /\ \A r \in rows : r.id < nextId /\ item_sort_key(r) < nextId

ReadBefore ==
    \A e \in Editors :
      /\ IsFiniteSet(edit[e].read)
      /\ edit[e].last < nextId
      /\ edit[e].pc # "closed" => Replaced(e) \subseteq edit[e].read

ItemsInv == ItemsTypeOK /\ Numbered /\ ReadBefore

-----------------------------------------------------------------------------
(* A finite set of natural numbers below n has a greatest one. *)
LEMMA Greatest ==
    ASSUME NEW n \in Nat, NEW S \in SUBSET Nat, S # {}, \A i \in S : i < n
    PROVE  \E i \in S : \A j \in S : j <= i
<1> DEFINE T == {n - i : i \in S}
<1>1. T \subseteq Nat /\ T # {}
  <2>1. ASSUME NEW i \in S PROVE n - i \in Nat
    OBVIOUS
  <2>2. T \subseteq Nat
    BY <2>1
  <2>3. PICK i \in S : TRUE
    OBVIOUS
  <2>4. n - i \in T
    OBVIOUS
  <2>5. QED
    BY <2>2, <2>4
<1>2. PICK x \in T : \A y \in T : ~(<<y, x>> \in OpToRel(<, Nat))
  BY <1>1, WFMin, NatLessThanWellFounded
<1>3. \A y \in T : x <= y
  <2>1. ASSUME NEW y \in T, y < x PROVE FALSE
    <3>1. y \in Nat /\ x \in Nat /\ <<y, x>> \in Nat \X Nat
      BY <1>1
    <3>2. <<y, x>>[1] < <<y, x>>[2]
      BY <2>1
    <3>3. <<y, x>> \in OpToRel(<, Nat)
      BY <3>1, <3>2 DEF OpToRel
    <3>4. QED
      BY <1>2, <3>3
  <2> HIDE DEF T
  <2>2. QED
    BY <1>1, <2>1
<1>4. PICK i \in S : x = n - i
  BY <1>2
<1>5. \A j \in S : n - i <= n - j
  BY <1>3, <1>4
<1>6. QED
  BY <1>4, <1>5

(* The last id of a snapshot is below the next id. *)
LEMMA LastIdType ==
    ASSUME ItemsTypeOK, Numbered
    PROVE  LastId(rows) \in Int /\ LastId(rows) < nextId
<1> DEFINE ids == {r.id : r \in rows}
<1>1. CASE rows = {}
  BY <1>1 DEF LastId, ItemsTypeOK
<1>2. CASE rows # {}
  <2>1. ids \subseteq Nat /\ ids # {} /\ \A i \in ids : i < nextId
    BY <1>2 DEF ItemsTypeOK, Row, Numbered
  <2>2. \E i \in ids : \A j \in ids : j <= i
    BY <2>1, Greatest DEF ItemsTypeOK
  <2>3. \E i \in ids : \A r \in rows : r.id <= i
    BY <2>2
  <2>4. LastId(rows) \in ids
    BY <1>2, <2>3 DEF LastId
  <2>5. QED
    BY <2>1, <2>4
<1>3. QED
  BY <1>1, <1>2
LEMMA ImageFinite ==
    ASSUME NEW S, IsFiniteSet(S), NEW f, DOMAIN f = S, f = [x \in S |-> f[x]]
    PROVE  IsFiniteSet({f[x] : x \in S})
<1>1. f \in Surjection(S, {f[x] : x \in S})
  BY DEF Surjection
<1>2. QED
  BY <1>1, FS_Surjection

(* The number of rows a row comes after: less than their number, if the    *)
(* row is one of them.                                                     *)
LEMMA CountBelow ==
    ASSUME NEW S, IsFiniteSet(S), NEW T \in SUBSET S
    PROVE  /\ Cardinality(T) \in Nat /\ Cardinality(T) <= Cardinality(S)
           /\ \A x \in S : x \notin T => Cardinality(T) < Cardinality(S)
<1>1. IsFiniteSet(T) /\ Cardinality(T) <= Cardinality(S) /\ (Cardinality(S) = Cardinality(T) => S = T)
  BY FS_Subset
<1>2. Cardinality(T) \in Nat /\ Cardinality(S) \in Nat
  BY <1>1, FS_CardinalityType
<1>3. QED
  BY <1>1, <1>2

(* Rows with ids of their own change nothing of what an edit replaces.     *)
LEMMA RowsStep ==
    ASSUME ItemsInv, NEW new \in SUBSET Row, IsFiniteSet(new), nextId' \in Nat, nextId' >= nextId,
           \A r \in new : r.id >= nextId /\ r.id < nextId' /\ item_sort_key(r) < nextId',
           rows' \subseteq rows \union new
    PROVE  /\ rows' \subseteq Row /\ Numbered'
           /\ \A e \in Editors : /\ {r \in rows' : r.id <= edit[e].last} \subseteq Replaced(e)
                                 /\ edit[e].last < nextId'
<1>1. rows' \subseteq Row
  BY DEF ItemsInv, ItemsTypeOK
<1>2. IsFiniteSet(rows')
  <2>1. IsFiniteSet(rows \union new)
    BY FS_Union DEF ItemsInv, Numbered
  <2>2. QED
    BY <2>1, FS_Subset
<1>3. ASSUME NEW r \in rows \union new PROVE r.id < nextId' /\ item_sort_key(r) < nextId'
  <2>1. nextId \in Nat /\ r.id \in Nat /\ item_sort_key(r) \in Int
    BY DEF ItemsInv, ItemsTypeOK, Row, item_sort_key
  <2>2. QED
    BY <2>1 DEF ItemsInv, Numbered
<1>4. ASSUME NEW e \in Editors
      PROVE  /\ {r \in rows' : r.id <= edit[e].last} \subseteq Replaced(e)
             /\ edit[e].last < nextId'
  <2>1. nextId \in Nat /\ edit[e].last \in Int /\ edit[e].last < nextId
    BY DEF ItemsInv, ItemsTypeOK, ReadBefore
  <2>2. ASSUME NEW r \in new PROVE ~(r.id <= edit[e].last)
    BY <2>1 DEF Row
  <2>3. QED
    BY <2>1, <2>2 DEF Replaced
<1>5. QED
  BY <1>1, <1>2, <1>3, <1>4 DEF Numbered, item_sort_key

(* So does an action that adds and deletes rows and leaves the edits.      *)
LEMMA AddStep ==
    ASSUME ItemsInv, NEW new \in SUBSET Row, IsFiniteSet(new), nextId' \in Nat, nextId' >= nextId,
           \A r \in new : r.id >= nextId /\ r.id < nextId' /\ item_sort_key(r) < nextId',
           rows' \subseteq rows \union new,
           UNCHANGED edit
    PROVE  ItemsInv'
<1>1. /\ rows' \subseteq Row /\ Numbered'
      /\ \A e \in Editors : /\ {r \in rows' : r.id <= edit[e].last} \subseteq Replaced(e)
                            /\ edit[e].last < nextId'
  BY RowsStep
<1>2. ItemsTypeOK'
  BY <1>1 DEF ItemsInv, ItemsTypeOK
<1>3. ReadBefore'
  BY <1>1 DEF ItemsInv, ReadBefore, Replaced
<1>4. QED
  BY <1>1, <1>2, <1>3 DEF ItemsInv

(* New rows are rows, with ids and keys in their range. *)
LEMMA NewRowsType ==
    ASSUME NEW n \in Nat, NEW first \in Nat, NEW k \in Int
    PROVE  /\ NewRows(n, first, k) \subseteq Row /\ IsFiniteSet(NewRows(n, first, k))
           /\ \A r \in NewRows(n, first, k) :
                r.id >= first /\ r.id < first + n /\ item_sort_key(r) < k + n
<1> DEFINE f == [i \in 0 .. n - 1 |-> [id |-> first + i, key |-> k + i, item |-> first + i]]
           new == {f[i] : i \in 0 .. n - 1}
<1>1. IsFiniteSet(new)
  <2>1. IsFiniteSet(0 .. n - 1)
    BY FS_Interval
  <2>2. DOMAIN f = 0 .. n - 1 /\ f = [i \in 0 .. n - 1 |-> f[i]]
    OBVIOUS
  <2> HIDE DEF f
  <2>3. QED
    BY <2>1, <2>2, ImageFinite
<1>2. ASSUME NEW i \in 0 .. n - 1
      PROVE  /\ f[i] \in Row /\ f[i].id >= first /\ f[i].id < first + n
             /\ item_sort_key(f[i]) < k + n
  <2>1. f[i] = [id |-> first + i, key |-> k + i, item |-> first + i]
    OBVIOUS
  <2>2. i \in Nat /\ i < n /\ k + i \in Int /\ k + i # Null
    BY NullAssumption
  <2>3. QED
    BY <2>1, <2>2 DEF Row, item_sort_key
<1>3. new = NewRows(n, first, k)
  BY DEF NewRows
<1>4. QED
  BY <1>1, <1>2, <1>3

(* Shifted rows are rows, too. *)
LEMMA ShiftedType ==
    ASSUME NEW after \in SUBSET Row, IsFiniteSet(after), NEW first \in Nat, NEW n \in Nat,
           NEW bound \in Int, \A r \in after : item_sort_key(r) < bound
    PROVE  /\ Shifted(after, first, n) \subseteq Row /\ IsFiniteSet(Shifted(after, first, n))
           /\ \A r \in Shifted(after, first, n) :
                r.id >= first /\ r.id < first + Cardinality(after) /\ item_sort_key(r) < bound + n
<1> DEFINE lower(r) == {s \in after : s.id < r.id}
           f == [r \in after |-> [id |-> first + Cardinality(lower(r)),
                                 key |-> item_sort_key(r) + n, item |-> r.item]]
<1>1. Shifted(after, first, n) = {f[r] : r \in after}
  BY DEF Shifted
<1>2. IsFiniteSet({f[r] : r \in after})
  <2>1. DOMAIN f = after /\ f = [r \in after |-> f[r]]
    OBVIOUS
  <2> HIDE DEF f
  <2>2. QED
    BY <2>1, ImageFinite
<1>3. ASSUME NEW r \in after
      PROVE  /\ f[r] \in Row /\ f[r].id >= first /\ f[r].id < first + Cardinality(after)
             /\ item_sort_key(f[r]) < bound + n
  <2>1. r.id \in Nat /\ r.item \in Nat /\ item_sort_key(r) \in Int /\ item_sort_key(r) < bound
    BY DEF Row, item_sort_key
  <2>2. /\ Cardinality(lower(r)) \in Nat /\ Cardinality(lower(r)) < Cardinality(after)
        /\ Cardinality(after) \in Nat
    <3>1. lower(r) \in SUBSET after /\ r \notin lower(r)
      BY <2>1
    <3> HIDE DEF lower
    <3>2. QED
      BY <3>1, CountBelow, FS_CardinalityType
  <2> DEFINE c == Cardinality(lower(r))
             k == item_sort_key(r)
  <2>3. f[r] = [id |-> first + c, key |-> k + n, item |-> r.item]
    OBVIOUS
  <2>4. c \in Nat /\ c < Cardinality(after) /\ k \in Int /\ k < bound /\ k + n # Null
    BY <2>1, <2>2, NullAssumption
  <2> HIDE DEF c, k, f
  <2>5. QED
    BY <2>1, <2>2, <2>3, <2>4 DEF Row, item_sort_key
<1>4. QED
  BY <1>1, <1>2, <1>3

-----------------------------------------------------------------------------
(* The actions *)

(* An insertion gives what it shifts and adds ids of their own. *)
LEMMA InsertStep ==
    ASSUME ItemsInv, NEW k \in Int, k < nextId, NEW n \in Nat, NEW replace, Insert(k, n, replace),
           UNCHANGED edit
    PROVE  ItemsInv'
<1> DEFINE kept == {r \in rows : r.id \notin replace}
           after == AfterItems(kept, k)
           moved == IF \E r \in after : item_sort_key(r) - k <= n THEN after ELSE {}
           first == nextId + Cardinality(moved)
           shifted == Shifted(moved, nextId, n)
           new == NewRows(n, first, k + 1)
<1>1. nextId \in Nat /\ rows \subseteq Row /\ IsFiniteSet(rows)
  BY DEF ItemsInv, ItemsTypeOK, Numbered
<1>2. moved \in SUBSET rows
  BY DEF AfterItems
<1>3. IsFiniteSet(moved) /\ Cardinality(moved) \in Nat /\ moved \in SUBSET Row
  BY <1>1, <1>2, FS_Subset, FS_CardinalityType
<1>4. \A r \in moved : item_sort_key(r) < nextId
  BY <1>2 DEF ItemsInv, Numbered
<1>5. rows' \subseteq rows \union (shifted \union new) /\ nextId' = first + n
  BY DEF Insert
<1> HIDE DEF moved
<1>6. first \in Nat /\ first >= nextId
  BY <1>1, <1>3
<1>7. /\ shifted \subseteq Row /\ IsFiniteSet(shifted)
      /\ \A r \in shifted : r.id >= nextId /\ r.id < first /\ item_sort_key(r) < nextId + n
  BY <1>1, <1>3, <1>4, ShiftedType
<1>8. /\ new \subseteq Row /\ IsFiniteSet(new)
      /\ \A r \in new : r.id >= first /\ r.id < first + n /\ item_sort_key(r) < k + 1 + n
  BY <1>6, k + 1 \in Int, NewRowsType
<1> HIDE DEF first, shifted, new
<1>9. ASSUME NEW r \in shifted \union new
      PROVE  r.id >= nextId /\ r.id < nextId' /\ item_sort_key(r) < nextId'
  <2>1. r.id \in Nat /\ item_sort_key(r) \in Int
    BY <1>7, <1>8 DEF Row, item_sort_key
  <2>2. QED
    BY <1>1, <1>5, <1>6, <1>7, <1>8, <2>1
<1>10. IsFiniteSet(shifted \union new) /\ shifted \union new \in SUBSET Row
  BY <1>7, <1>8, FS_Union
<1>11. nextId' \in Nat /\ nextId' >= nextId
  BY <1>1, <1>5, <1>6
<1>12. QED
  BY <1>5, <1>9, <1>10, <1>11, AddStep

(* So does an append. *)
LEMMA OneRowStep ==
    ASSUME ItemsInv, NEW key \in Int \union {Null}, key # Null => key < nextId,
           rows' = rows \union {[id |-> nextId, key |-> key, item |-> nextId]},
           nextId' = nextId + 1, UNCHANGED edit
    PROVE  ItemsInv'
<1> DEFINE r == [id |-> nextId, key |-> key, item |-> nextId]
<1>1. nextId \in Nat
  BY DEF ItemsInv, ItemsTypeOK
<1>2. r \in Row /\ r.id = nextId /\ item_sort_key(r) < nextId + 1
  BY <1>1 DEF Row, item_sort_key
<1> HIDE DEF r
<1>3. {r} \in SUBSET Row /\ IsFiniteSet({r})
  BY <1>2, FS_Singleton
<1>4. rows' \subseteq rows \union {r} /\ nextId' \in Nat /\ nextId' >= nextId
  BY <1>1 DEF r
<1>5. \A x \in {r} : x.id >= nextId /\ x.id < nextId' /\ item_sort_key(x) < nextId'
  BY <1>1, <1>2
<1>6. QED
  BY <1>3, <1>4, <1>5, AddStep

(* What a request replaces is what it has read, if their numbers agree.    *)
LEMMA ReplacedIsRead ==
    ASSUME ItemsInv, NEW e \in Editors, edit[e].pc # "closed", Unchanged(e)
    PROVE  Replaced(e) = edit[e].read
<1>1. IsFiniteSet(edit[e].read) /\ Replaced(e) \in SUBSET edit[e].read
  BY DEF ItemsInv, ReadBefore
<1>2. QED
  BY <1>1, FS_Subset DEF Unchanged

(* An edit gives what it writes ids of its own, and keeps what others have read. *)
LEMMA ReplaceStep ==
    ASSUME ItemsInv, NEW e \in Editors, NEW new, NEW n \in Nat, NEW pc \in {"closed", "reread"},
           new \in SUBSET Row, IsFiniteSet(new),
           \A r \in new : r.id >= nextId /\ r.id < nextId + n /\ item_sort_key(r) < nextId + n,
           edit[e].pc # "closed", ReplaceItems(e, new, n, pc)
    PROVE  ItemsInv'
<1>1. nextId \in Nat /\ nextId' = nextId + n /\ rows' \subseteq rows \union new
  BY DEF ItemsInv, ItemsTypeOK, ReplaceItems
<1>2. /\ rows' \subseteq Row /\ Numbered'
      /\ \A g \in Editors : /\ {r \in rows' : r.id <= edit[g].last} \subseteq Replaced(g)
                            /\ edit[g].last < nextId'
  BY <1>1, RowsStep
<1>3. /\ edit' \in [Editors -> [pc : {"closed", "normalize", "reread", "open"},
                               read : SUBSET Row, last : Int]]
      /\ \A g \in Editors :
           \/ edit'[g] = Closed
           \/ edit'[g].pc # "closed" /\ edit[g].pc # "closed" /\ edit'[g].read = edit[g].read
              /\ edit'[g].last = edit[g].last
           \/ edit'[g] = edit[g]
  <2>1. /\ edit' = [edit EXCEPT ![e] = IF pc = "closed" THEN Closed ELSE [edit[e] EXCEPT !.pc = pc]]
        /\ edit \in [Editors -> [pc : {"closed", "normalize", "reread", "open"},
                                 read : SUBSET Row, last : Int]]
    BY DEF ReplaceItems, ItemsInv, ItemsTypeOK
  <2>2. QED
    BY <2>1 DEF Closed
<1>4. ItemsTypeOK'
  BY <1>1, <1>2, <1>3 DEF ItemsTypeOK
<1>5. ASSUME NEW g \in Editors
      PROVE  /\ IsFiniteSet(edit'[g].read) /\ edit'[g].last < nextId'
             /\ edit'[g].pc # "closed" =>
                  {r \in rows' : r.id <= edit'[g].last} \subseteq edit'[g].read
  <2>1. /\ IsFiniteSet(edit[g].read)
        /\ edit[g].pc # "closed" => Replaced(g) \subseteq edit[g].read
    BY DEF ItemsInv, ReadBefore
  <2>2. CASE edit'[g] = Closed
    BY <1>1, <2>2, FS_EmptySet DEF Closed
  <2>3. CASE edit'[g] # Closed
    BY <1>2, <1>3, <2>1, <2>3
  <2>4. QED
    BY <2>2, <2>3
<1>6. QED
  BY <1>2, <1>4, <1>5 DEF ItemsInv, ReadBefore, Replaced

(* Both kinds of edits do so. *)
LEMMA NormalizeStep ==
    ASSUME ItemsInv, NEW e \in Editors, Normalize(e)
    PROVE  ItemsInv'
<1> DEFINE read == edit[e].read
           n == Cardinality(read)
           last == edit[e].last
           f == [r \in read |-> [id |-> nextId + Position(r, read),
                                key |-> last + Position(r, read) - n, item |-> r.item]]
           new == {f[r] : r \in read}
<1>1. /\ read \in SUBSET Row /\ IsFiniteSet(read) /\ n \in Nat
      /\ nextId \in Nat /\ last \in Int /\ last < nextId
  BY FS_CardinalityType DEF ItemsInv, ItemsTypeOK, ReadBefore
<1>2. ReplaceItems(e, new, n, "reread") /\ edit[e].pc # "closed"
  <2>1. new = {[id |-> nextId + Position(r, read), key |-> edit[e].last + Position(r, read) - n,
                item |-> r.item] : r \in read}
    OBVIOUS
  <2> HIDE DEF new
  <2>2. QED
    BY <2>1 DEF Normalize
<1>3. IsFiniteSet(new)
  <2>1. DOMAIN f = read /\ f = [r \in read |-> f[r]]
    OBVIOUS
  <2> HIDE DEF f, read
  <2>2. QED
    BY <1>1, <2>1, ImageFinite
<1>4. ASSUME NEW r \in read
      PROVE  /\ f[r] \in Row /\ f[r].id >= nextId /\ f[r].id < nextId + n
             /\ item_sort_key(f[r]) < nextId + n
  <2> DEFINE p == Position(r, read)
             lower == {s \in read : Before(s, r)}
             k == last + p - n
  <2>1. r \notin lower /\ lower \in SUBSET read
    BY <1>1 DEF Before, item_sort_key, Row
  <2>2. p = Cardinality(lower)
    BY DEF Position
  <2> HIDE DEF lower, p, read
  <2>3. p \in Nat /\ p < n
    BY <1>1, <2>1, <2>2, CountBelow
  <2>4. f[r] = [id |-> nextId + p, key |-> k, item |-> r.item]
    BY DEF p
  <2>5. k \in Int /\ k < nextId + n /\ k # Null /\ nextId + p \in Nat /\ nextId + p < nextId + n
    BY <1>1, <2>3, NullAssumption
  <2>6. r.item \in Nat
    BY <1>1 DEF Row
  <2> HIDE DEF k, f
  <2>7. f[r] \in Row /\ f[r].id = nextId + p /\ item_sort_key(f[r]) = k
    BY <2>4, <2>5, <2>6 DEF Row, item_sort_key
  <2>8. QED
    BY <1>1, <2>3, <2>5, <2>7
<1> HIDE DEF n, f
<1>5. /\ new \in SUBSET Row
      /\ \A r \in new : r.id >= nextId /\ r.id < nextId + n /\ item_sort_key(r) < nextId + n
  BY <1>4
<1> HIDE DEF new
<1>6. QED
  BY <1>1, <1>2, <1>3, <1>5, ReplaceStep

LEMMA CommitStep ==
    ASSUME ItemsInv, NEW e \in Editors, Commit(e)
    PROVE  ItemsInv'
<1> DEFINE last == edit[e].last
<1>1. nextId \in Nat /\ last \in Int /\ last < nextId
  BY DEF ItemsInv, ItemsTypeOK, ReadBefore
<1>2. PICK n \in 0 .. MaxInsert :
        ReplaceItems(e, NewRows(n, nextId, last - n), n, "closed")
  BY DEF Commit
<1>3. n \in Nat /\ last - n \in Int
  BY <1>1, BoundAssumption
<1> DEFINE new == NewRows(n, nextId, last - n)
<1> HIDE DEF last
<1>4. /\ new \in SUBSET Row /\ IsFiniteSet(new)
      /\ \A r \in new : r.id >= nextId /\ r.id < nextId + n /\ item_sort_key(r) < last - n + n
  BY <1>1, <1>3, NewRowsType
<1> HIDE DEF new
<1>5. ASSUME NEW r \in new PROVE item_sort_key(r) < nextId + n
  <2>1. item_sort_key(r) \in Int
    BY <1>4 DEF Row, item_sort_key
  <2>2. QED
    BY <1>1, <1>3, <1>4, <2>1
<1>6. edit[e].pc # "closed"
  BY DEF Commit
<1>7. ReplaceItems(e, new, n, "closed")
  BY <1>2 DEF new
<1>8. QED
  BY <1>3, <1>4, <1>5, <1>6, <1>7, ReplaceStep

(* What a request reads is all there is. *)
LEMMA ReadItemsKeeps ==
    ASSUME ItemsInv, NEW e \in Editors, NEW pc \in {"normalize", "open"},
           edit' = [edit EXCEPT ![e] = Snapshot(pc)], UNCHANGED <<rows, nextId>>
    PROVE  ItemsInv'
<1>1. LastId(rows) \in Int /\ LastId(rows) < nextId
  BY LastIdType DEF ItemsInv
<1>2. Snapshot(pc) = [pc |-> pc, read |-> rows, last |-> LastId(rows)]
  BY DEF Snapshot
<1> HIDE DEF LastId, Snapshot
<1>3. ItemsTypeOK'
  BY <1>1, <1>2 DEF ItemsInv, ItemsTypeOK
<1>4. Numbered'
  BY DEF ItemsInv, Numbered
<1>5. ReadBefore'
  BY <1>1, <1>2 DEF ItemsInv, ItemsTypeOK, Numbered, ReadBefore, Replaced
<1>6. QED
  BY <1>3, <1>4, <1>5 DEF ItemsInv

(* ItemsInv is inductive, and holds at the start. *)
LEMMA ItemsStep == ItemsInv /\ [ItemsNext]_itemVars => ItemsInv'
<1> SUFFICES ASSUME ItemsInv, [ItemsNext]_itemVars PROVE ItemsInv'
  OBVIOUS
<1>1. CASE AppendItem
  BY <1>1, OneRowStep DEF AppendItem
<1>2. CASE InsertAfter
  <2>1. PICK k \in -1 .. nextId - 1, n \in 0 .. MaxInsert,
             replace \in {{}} \union {{i} : i \in 1 .. nextId - 1} : Insert(k, n, replace)
    BY <1>2 DEF InsertAfter
  <2>2. k \in Int /\ k < nextId /\ n \in Nat
    BY BoundAssumption DEF ItemsInv, ItemsTypeOK
  <2>3. QED
    BY <1>2, <2>1, <2>2, InsertStep DEF InsertAfter
<1>3. ASSUME NEW r \in rows, AddShadow(r) PROVE ItemsInv'
  <2>1. r.key \in Int \union {Null} /\ (r.key # Null => r.key < nextId)
    BY DEF ItemsInv, ItemsTypeOK, Row, Numbered, item_sort_key
  <2>2. QED
    BY <1>3, <2>1, OneRowStep DEF AddShadow
<1>4. ASSUME NEW r \in rows, DeleteItem(r) PROVE ItemsInv'
  <2>1. nextId' \in Nat /\ nextId' >= nextId /\ rows' \subseteq rows \union {}
    BY <1>4 DEF DeleteItem, ItemsInv, ItemsTypeOK
  <2>2. QED
    BY <1>4, <2>1, FS_EmptySet, AddStep DEF DeleteItem
<1>5. ASSUME NEW e \in Editors, ReadItems(e) PROVE ItemsInv'
  BY <1>5, ReadItemsKeeps DEF ReadItems
<1>6. ASSUME NEW e \in Editors, RereadItems(e) PROVE ItemsInv'
  BY <1>6, ReadItemsKeeps DEF RereadItems
<1>7. ASSUME NEW e \in Editors, CloseEdit(e) PROVE ItemsInv'
  BY <1>7, FS_EmptySet
     DEF CloseEdit, Closed, ItemsInv, ItemsTypeOK, Numbered, ReadBefore, Replaced
<1>8. CASE UNCHANGED itemVars
  BY <1>8 DEF itemVars, ItemsInv, ItemsTypeOK, Numbered, ReadBefore, Replaced
<1>9. QED
  BY <1>1, <1>2, <1>3, <1>4, <1>5, <1>6, <1>7, <1>8, NormalizeStep, CommitStep DEF ItemsNext

LEMMA ItemsAlways == ItemsSpec => []ItemsInv
<1>1. ItemsInit => ItemsInv
  BY FS_EmptySet
     DEF ItemsInit, ItemsInv, ItemsTypeOK, Numbered, ReadBefore, Closed
<1>2. QED
  BY <1>1, ItemsStep, PTL DEF ItemsSpec

(* The rows of a worksheet and what requests have read of them keep their  *)
(* types, for any number of items.                                         *)
THEOREM ItemsTypeCorrect == ItemsSpec => []ItemsTypeOK
<1>1. ItemsInv => ItemsTypeOK
  BY DEF ItemsInv
<1>2. QED
  BY <1>1, ItemsAlways, PTL

(* An edit of a worksheet replaces what it has read or nothing: comparing  *)
(* the number of rows is enough, whatever others did meanwhile.            *)
THEOREM AlwaysCountDetects == ItemsSpec => []CountDetects
<1>1. ItemsInv => CountDetects
  BY ReplacedIsRead DEF CountDetects
<1>2. QED
  BY <1>1, ItemsAlways, PTL

(* What is appended next comes after every item of the worksheet.          *)
THEOREM AlwaysAppendComesLast == ItemsSpec => []AppendComesLast
<1>1. ItemsInv => AppendComesLast
  BY DEF ItemsInv, Numbered, AppendComesLast
<1>2. QED
  BY <1>1, ItemsAlways, PTL

-----------------------------------------------------------------------------
(* What a worksheet shows *)

(* Where the nth item of block b is. *)
IsAt(mode, b, n, at) ==
    /\ mode \in {"table", "graph", "subworksheets"} => at = <<b, n>>
    /\ mode \in {"record", "contents"} => at # NoPlace /\ at[1] + at[2] = b + 1
    /\ mode = "schema" /\ n = 1 => at = <<b, 1>>
    /\ mode \in {"markup", "placeholder", "hidden", "no such mode"} => at = <<b, 1>>

Aligned(block, b, places) ==
    ~block.error =>
      /\ \A n \in 1..Len(block.items) : IsAt(block.mode, b, n, places[block.items[n]])
      /\ block.mode = "table" => block.first = block.items[1]

Placed(block, b, places) ==
    /\ \A n \in 1..Len(block.items) : block.items[n] \in 1..Len(places)
    /\ Aligned(block, b, places)

AllPlaced(some, after, places) == \A b \in 1..Len(some) : Placed(some[b], after + b, places)

(* What is collected is at its place in the block to come. *)
OneKind ==
    /\ collected.bundles # <<>> => collected.worksheets = <<>> /\ collected.schema = <<>>
    /\ collected.worksheets # <<>> => collected.schema = <<>>

Waiting(some, places, next) ==
    \A n \in 1..Len(some) : some[n] \in 1..Len(places) /\ places[some[n]] = <<next, n>>

WaitingSchema(some, places, next) ==
    \A n \in 1..Len(some) : some[n] \in 1..Len(places) /\ (n = 1 => places[some[n]] = <<next, n>>)

(* Unless there is no such mode the first bundle is known. *)
FirstKnown ==
    display # "no such mode" =>
      firstBundle = IF collected.bundles = <<>> THEN 0 ELSE collected.bundles[1]

NoneFirst == display # "no such mode" => firstBundle = 0

Pending(some) == Len(some.bundles) + Len(some.worksheets) + Len(some.schema)

Reading ==
    blockToRaw = {} =>
      /\ Len(rawToBlock) = Len(rawItems) /\ Len(rawItems) <= MaxItems
      /\ Len(blocks) + Pending(collected) <= Len(rawItems)
      /\ OneKind
      /\ Waiting(collected.bundles, rawToBlock, Len(blocks) + 1)
      /\ Waiting(collected.worksheets, rawToBlock, Len(blocks) + 1)
      /\ WaitingSchema(collected.schema, rawToBlock, Len(blocks) + 1)
      /\ FirstKnown

InterpretInv == InterpretTypeOK /\ Reading /\ AllPlaced(blocks, 0, rawToBlock)

-----------------------------------------------------------------------------
(* Places that are added, or resolved, leave the others alone.             *)
Extends(places, more) ==
    /\ Len(places) <= Len(more)
    /\ \A i \in 1..Len(places) : places[i] # NoPlace => more[i] = places[i]

(* A place is no NoPlace. *)
LEMMA IsPlace == ASSUME NEW b \in Nat, NEW n \in Nat PROVE <<b, n>> # NoPlace
BY NoPlaceAssumption

(* Placed blocks stay placed. *)
LEMMA PlacedStays ==
    ASSUME NEW block \in Block, NEW b \in Nat, NEW places \in Seq(Place \union {NoPlace}),
           NEW more \in Seq(Place \union {NoPlace}), Extends(places, more),
           Placed(block, b, places)
    PROVE  Placed(block, b, more)
<1>1. ASSUME NEW n \in 1..Len(block.items)
      PROVE  /\ block.items[n] \in 1..Len(more)
             /\ places[block.items[n]] # NoPlace => more[block.items[n]] = places[block.items[n]]
             /\ n \in Nat /\ 1 \in Nat
  BY DEF Placed, Extends
<1>2. ASSUME ~block.error PROVE Aligned(block, b, more)
  <2>1. ASSUME NEW n \in 1..Len(block.items) PROVE IsAt(block.mode, b, n, more[block.items[n]])
    <3>1. IsAt(block.mode, b, n, places[block.items[n]])
      BY <1>2 DEF Placed, Aligned
    <3>2. CASE places[block.items[n]] # NoPlace
      BY <1>1, <3>1, <3>2
    <3>3. CASE places[block.items[n]] = NoPlace
      <4>1. <<b, n>> # NoPlace /\ <<b, 1>> # NoPlace
        BY <1>1, IsPlace
      <4>2. QED
        BY <3>1, <3>3, <4>1 DEF IsAt
    <3>4. QED
      BY <3>2, <3>3
  <2>2. block.mode = "table" => block.first = block.items[1]
    BY <1>2 DEF Placed, Aligned
  <2>3. QED
    BY <2>1, <2>2 DEF Aligned
<1>3. Aligned(block, b, more)
  BY <1>2 DEF Aligned
<1>4. QED
  BY <1>1, <1>3 DEF Placed

LEMMA AllPlacedStays ==
    ASSUME NEW some \in Seq(Block), NEW places \in Seq(Place \union {NoPlace}), NEW after \in Nat,
           NEW more \in Seq(Place \union {NoPlace}), Extends(places, more),
           AllPlaced(some, after, places)
    PROVE  AllPlaced(some, after, more)
<1>1. ASSUME NEW b \in 1..Len(some) PROVE Placed(some[b], after + b, more)
  <2>1. some[b] \in Block /\ after + b \in Nat /\ Placed(some[b], after + b, places)
    BY DEF AllPlaced
  <2>2. QED
    BY <2>1, PlacedStays
<1>2. QED
  BY <1>1 DEF AllPlaced

(* A place is added. *)
LEMMA PlaceAdded ==
    ASSUME NEW places \in Seq(Place \union {NoPlace}), NEW at \in Place \union {NoPlace}
    PROVE  /\ Append(places, at) \in Seq(Place \union {NoPlace})
           /\ Len(Append(places, at)) = Len(places) + 1
           /\ Append(places, at)[Len(places) + 1] = at
           /\ \A i \in 1..Len(places) : Append(places, at)[i] = places[i]
           /\ Extends(places, Append(places, at))
BY DEF Extends

(* Blocks that are added. *)
LEMMA AllPlacedConcat ==
    ASSUME NEW some \in Seq(Block), NEW others \in Seq(Block), NEW places,
           AllPlaced(some, 0, places), AllPlaced(others, Len(some), places)
    PROVE  AllPlaced(some \o others, 0, places)
<1>1. ASSUME NEW b \in 1..Len(some \o others) PROVE Placed((some \o others)[b], 0 + b, places)
  <2>1. /\ Len(some) \in Nat /\ Len(others) \in Nat
        /\ Len(some \o others) = Len(some) + Len(others)
        /\ (some \o others)[b] = IF b <= Len(some) THEN some[b] ELSE others[b - Len(some)]
    BY ConcatProperties
  <2>2. CASE b <= Len(some)
    <3>1. b \in 1..Len(some) /\ (some \o others)[b] = some[b]
      BY <2>1, <2>2
    <3>2. QED
      BY <3>1 DEF AllPlaced
  <2>3. CASE ~(b <= Len(some))
    <3>1. b - Len(some) \in 1..Len(others) /\ (some \o others)[b] = others[b - Len(some)]
          /\ Len(some) + (b - Len(some)) = 0 + b
      BY <2>1, <2>3
    <3>2. Placed(others[b - Len(some)], Len(some) + (b - Len(some)), places)
      BY <3>1 DEF AllPlaced
    <3>3. QED
      BY <3>1, <3>2
  <2>4. QED
    BY <2>2, <2>3
<1>2. QED
  BY <1>1 DEF AllPlaced

LEMMA AllPlacedAppend ==
    ASSUME NEW some \in Seq(Block), NEW block \in Block, NEW places,
           AllPlaced(some, 0, places), Placed(block, Len(some) + 1, places)
    PROVE  AllPlaced(Append(some, block), 0, places)
<1>1. ASSUME NEW b \in 1..Len(Append(some, block)) PROVE Placed(Append(some, block)[b], 0 + b, places)
  <2>1. Len(some) \in Nat /\ Len(Append(some, block)) = Len(some) + 1
    OBVIOUS
  <2>2. CASE b = Len(some) + 1
    <3>1. Append(some, block)[b] = block /\ 0 + b = Len(some) + 1
      BY <2>1, <2>2
    <3>2. QED
      BY <3>1
  <2>3. CASE b # Len(some) + 1
    <3>1. b \in 1..Len(some) /\ Append(some, block)[b] = some[b]
      BY <2>1, <2>3
    <3>2. QED
      BY <3>1 DEF AllPlaced
  <2>4. QED
    BY <2>2, <2>3
<1>2. QED
  BY <1>1 DEF AllPlaced

-----------------------------------------------------------------------------
(* Flushing *)

(* The types of what is read. *)
LEMMA CollectedTyped ==
    ASSUME InterpretInv
    PROVE  /\ collected.bundles \in Seq(Index) /\ collected.worksheets \in Seq(Index)
           /\ collected.schema \in Seq(Index)
           /\ Len(collected.bundles) \in Nat /\ Len(collected.worksheets) \in Nat
           /\ Len(collected.schema) \in Nat
           /\ blocks \in Seq(Block) /\ Len(blocks) \in Nat
           /\ rawToBlock \in Seq(Place \union {NoPlace}) /\ Len(rawToBlock) \in Nat
           /\ rawItems \in Seq(Items) /\ Len(rawItems) \in Nat
           /\ firstBundle \in 0..MaxItems /\ MaxItems \in Nat /\ display \in Displays
<1>1. collected \in Collection
  BY DEF InterpretInv, InterpretTypeOK
<1>2. /\ collected.bundles \in Seq(Index) /\ collected.worksheets \in Seq(Index)
      /\ collected.schema \in Seq(Index)
  BY <1>1 DEF Collection
<1>3. QED
  BY <1>2, NoPlaceAssumption DEF InterpretInv, InterpretTypeOK

(* A block that is shown without an error. *)
LEMMA ShownBlock ==
    ASSUME NEW mode \in Displays \union {"markup", "subworksheets", "schema", "placeholder"},
           NEW items \in Seq(Index), NEW first \in 0..MaxItems
    PROVE  /\ [Shows(mode, items) EXCEPT !.first = first] \in Block
           /\ [Shows(mode, items) EXCEPT !.first = first].mode = mode
           /\ [Shows(mode, items) EXCEPT !.first = first].items = items
           /\ ~[Shows(mode, items) EXCEPT !.first = first].error
           /\ [Shows(mode, items) EXCEPT !.first = first].first = first
BY DEF Shows, Block

(* A block without a first item. *)
LEMMA PlainBlock ==
    ASSUME NEW mode \in Displays \union {"markup", "subworksheets", "schema", "placeholder"},
           NEW items \in Seq(Index)
    PROVE  /\ Shows(mode, items) \in Block /\ Shows(mode, items).mode = mode
           /\ Shows(mode, items).items = items
           /\ ~Shows(mode, items).error /\ Shows(mode, items).first = 0
BY NoPlaceAssumption DEF Shows, Block

(* An error is a block. *)
LEMMA ErrorBlock ==
    ASSUME NEW i \in Index
    PROVE  /\ Error(i) \in Block /\ Error(i).items = <<i>> /\ Error(i).error
<1>1. <<i>> \in Seq(Index) /\ 0 \in 0..MaxItems
  BY NoPlaceAssumption
<1>2. QED
  BY <1>1 DEF Error, Block

(* An error has no place to keep. *)
LEMMA ErrorPlaced ==
    ASSUME NEW places, NEW b, NEW i \in Index, i \in 1..Len(places)
    PROVE  Placed(Error(i), b, places)
BY ErrorBlock DEF Placed, Aligned

(* One block flushed. *)
LEMMA OnlyBlock ==
    ASSUME NEW block, NEW after, Len(<<block>>) = 1
    PROVE  \A places : AllPlaced(<<block>>, after, places) <=> Placed(block, after + 1, places)
BY DEF AllPlaced

(* The worksheets flushed are placed. *)
LEMMA FlushedWorksheets ==
    ASSUME InterpretInv, blockToRaw = {}
    PROVE  /\ FlushWorksheets \in Seq(Block) /\ Len(FlushWorksheets) <= Len(collected.worksheets)
           /\ AllPlaced(FlushWorksheets, Len(blocks), rawToBlock)
           /\ collected.worksheets = <<>> => FlushWorksheets = <<>>
<1>1. CASE collected.worksheets = <<>>
  <2>1. FlushWorksheets = <<>>
    BY <1>1 DEF FlushWorksheets
  <2>2. QED
    BY <2>1, CollectedTyped DEF AllPlaced
<1>2. CASE collected.worksheets # <<>>
  <2> DEFINE block == Shows("subworksheets", collected.worksheets)
  <2>1. FlushWorksheets = <<block>>
    BY <1>2 DEF FlushWorksheets
  <2>2. /\ block \in Block /\ block.mode = "subworksheets" /\ block.items = collected.worksheets
        /\ ~block.error
    BY CollectedTyped, PlainBlock
  <2>3. Waiting(collected.worksheets, rawToBlock, Len(blocks) + 1)
    BY DEF InterpretInv, Reading
  <2> HIDE DEF block
  <2>4. Placed(block, Len(blocks) + 1, rawToBlock)
    BY <2>2, <2>3 DEF Placed, Aligned, Waiting, IsAt
  <2>5. Len(collected.worksheets) >= 1
    BY <1>2, CollectedTyped
  <2>6. QED
    BY <1>2, <2>1, <2>2, <2>4, <2>5, OnlyBlock
<1>3. QED
  BY <1>1, <1>2

(* The schema flushed is placed. *)
LEMMA FlushedSchema ==
    ASSUME InterpretInv, blockToRaw = {}
    PROVE  /\ FlushSchema \in Seq(Block) /\ Len(FlushSchema) <= Len(collected.schema)
           /\ AllPlaced(FlushSchema, Len(blocks), rawToBlock)
           /\ collected.schema = <<>> => FlushSchema = <<>>
<1>1. CASE collected.schema = <<>>
  <2>1. FlushSchema = <<>>
    BY <1>1 DEF FlushSchema
  <2>2. QED
    BY <2>1, CollectedTyped DEF AllPlaced
<1>2. CASE collected.schema # <<>>
  <2> DEFINE block == Shows("schema", collected.schema)
  <2>1. FlushSchema = <<block>>
    BY <1>2 DEF FlushSchema
  <2>2. /\ block \in Block /\ block.mode = "schema" /\ block.items = collected.schema
        /\ ~block.error
    BY CollectedTyped, PlainBlock
  <2>3. WaitingSchema(collected.schema, rawToBlock, Len(blocks) + 1)
    BY DEF InterpretInv, Reading
  <2> HIDE DEF block
  <2>4. Placed(block, Len(blocks) + 1, rawToBlock)
    BY <2>2, <2>3 DEF Placed, Aligned, WaitingSchema, IsAt
  <2>5. Len(collected.schema) >= 1
    BY <1>2, CollectedTyped
  <2>6. QED
    BY <1>2, <2>1, <2>2, <2>4, <2>5, OnlyBlock
<1>3. QED
  BY <1>1, <1>2

(* The bundles flushed are placed, unless there is no such mode. *)
LEMMA FlushedBundles ==
    ASSUME InterpretInv, blockToRaw = {}, ~FlushFails
    PROVE  /\ FlushBundles(rawItems) \in Seq(Block)
           /\ Len(FlushBundles(rawItems)) <= Len(collected.bundles)
           /\ AllPlaced(FlushBundles(rawItems), Len(blocks), rawToBlock)
           /\ collected.bundles = <<>> => FlushBundles(rawItems) = <<>>
<1> DEFINE bundles == collected.bundles
<1>1. CASE bundles = <<>> \/ display = "hidden"
  <2>1. FlushBundles(rawItems) = <<>>
    BY <1>1 DEF FlushBundles
  <2>2. QED
    BY <2>1, CollectedTyped DEF AllPlaced
<1>2. CASE bundles # <<>> /\ display # "hidden"
  <2>1. display \in {"table", "graph", "record", "contents"}
    BY <1>2, CollectedTyped DEF FlushFails, Displays
  <2>a. display # "no such mode"
    BY <2>1
  <2>2. Waiting(bundles, rawToBlock, Len(blocks) + 1) /\ firstBundle = bundles[1]
    BY <1>2, <2>a DEF InterpretInv, Reading, FirstKnown
  <2>b. Len(bundles) >= 1
    BY <1>2, CollectedTyped
  <2>3. CASE display = "table"
    <3> DEFINE block == [Shows("table", bundles) EXCEPT !.first = firstBundle]
    <3>1. FlushBundles(rawItems) = <<block>>
      BY <1>2, <2>3 DEF FlushBundles
    <3>2. /\ block \in Block /\ block.mode = "table" /\ block.items = bundles
          /\ ~block.error /\ block.first = firstBundle
      <4>1. /\ "table" \in Displays \union {"markup", "subworksheets", "schema", "placeholder"}
            /\ bundles \in Seq(Index) /\ firstBundle \in 0..MaxItems
        BY CollectedTyped DEF Displays
      <4>2. QED
        BY <4>1, ShownBlock
    <3> HIDE DEF block
    <3>3. Placed(block, Len(blocks) + 1, rawToBlock)
      BY <2>2, <3>2 DEF Placed, Aligned, Waiting, IsAt
    <3>4. QED
      BY <1>2, <2>b, <3>1, <3>2, <3>3, OnlyBlock
  <2>4. CASE display = "graph"
    <3> DEFINE block == Shows("graph", bundles)
    <3>1. FlushBundles(rawItems) = <<block>>
      BY <1>2, <2>4 DEF FlushBundles
    <3>2. block \in Block /\ block.mode = "graph" /\ block.items = bundles /\ ~block.error
      BY CollectedTyped, PlainBlock DEF Displays
    <3> HIDE DEF block
    <3>3. Placed(block, Len(blocks) + 1, rawToBlock)
      BY <2>2, <3>2 DEF Placed, Aligned, Waiting, IsAt
    <3>4. QED
      BY <1>2, <2>b, <3>1, <3>2, <3>3, OnlyBlock
  <2>5. CASE display \in {"record", "contents"}
    <3> DEFINE flushed == [n \in DOMAIN bundles |-> OneBundle(display, rawItems[bundles[n]], bundles[n])]
    <3>1. FlushBundles(rawItems) = flushed
      BY <1>2, <2>5 DEF FlushBundles
    <3>2. ASSUME NEW n \in 1..Len(bundles)
          PROVE  /\ OneBundle(display, rawItems[bundles[n]], bundles[n]) \in Block
                 /\ Placed(OneBundle(display, rawItems[bundles[n]], bundles[n]), Len(blocks) + n, rawToBlock)
      <4> DEFINE i == bundles[n]
      <4>1. /\ i \in Index /\ <<i>> \in Seq(Index) /\ n \in Nat
            /\ i \in 1..Len(rawToBlock) /\ rawToBlock[i] = <<Len(blocks) + 1, n>>
        BY <2>2, CollectedTyped, SMTT(30) DEF Waiting
      <4> HIDE DEF i
      <4>2. CASE display = "contents" /\ rawItems[i] = "inaccessible bundle"
        <5>1. OneBundle(display, rawItems[i], i) = Error(i)
          BY <4>2 DEF OneBundle
        <5>2. QED
          BY <4>1, <5>1, ErrorBlock, ErrorPlaced DEF i
      <4>3. CASE ~(display = "contents" /\ rawItems[i] = "inaccessible bundle")
        <5> DEFINE first == IF display = "record" THEN firstBundle ELSE 0
                   only == <<i>>
                   block == [Shows(display, only) EXCEPT !.first = first]
        <5>1. OneBundle(display, rawItems[i], i) = block
          BY <4>3 DEF OneBundle
        <5>2. first \in 0..MaxItems
          BY CollectedTyped
        <5>o. only = <<i>> /\ only \in Seq(Index)
          BY <4>1
        <5> HIDE DEF first, only
        <5>3. /\ block \in Block /\ block.mode = display /\ block.items = <<i>> /\ ~block.error
          <6>1. display \in Displays \union {"markup", "subworksheets", "schema", "placeholder"}
            BY CollectedTyped
          <6>2. /\ block \in Block /\ block.mode = display /\ block.items = only /\ ~block.error
            BY <5>o, <5>2, <6>1 DEF Shows, Block
          <6>3. QED
            BY <5>o, <6>2
        <5> HIDE DEF block
        <5>4. rawToBlock[i] # NoPlace /\ rawToBlock[i][1] + rawToBlock[i][2] = (Len(blocks) + n) + 1
          <6>1. <<Len(blocks) + 1, n>> # NoPlace
            BY <4>1, CollectedTyped, IsPlace
          <6>2. <<Len(blocks) + 1, n>>[1] = Len(blocks) + 1 /\ <<Len(blocks) + 1, n>>[2] = n
            OBVIOUS
          <6>3. (Len(blocks) + 1) + n = (Len(blocks) + n) + 1
            BY <4>1, CollectedTyped
          <6>4. QED
            BY <4>1, <6>1, <6>2, <6>3
        <5>5. /\ Len(block.items) = 1 /\ block.items[1] = i
          BY <5>3
        <5>6. block.mode \in {"record", "contents"}
          BY <2>5, <5>3
        <5>7. IsAt(block.mode, Len(blocks) + n, 1, rawToBlock[i])
          BY <5>4, <5>6 DEF IsAt
        <5>8. Placed(block, Len(blocks) + n, rawToBlock)
          BY <4>1, <5>5, <5>6, <5>7 DEF Placed, Aligned
        <5>9. QED
          BY <5>1, <5>3, <5>8 DEF i
      <4>4. QED
        BY <4>2, <4>3
    <3>3. DOMAIN bundles = 1..Len(bundles) /\ Len(bundles) \in Nat
      BY CollectedTyped
    <3>4. /\ flushed \in Seq(Block) /\ Len(flushed) = Len(bundles)
          /\ \A n \in 1..Len(bundles) : flushed[n] = OneBundle(display, rawItems[bundles[n]], bundles[n])
      BY <3>2, <3>3
    <3> HIDE DEF flushed
    <3>5. AllPlaced(flushed, Len(blocks), rawToBlock)
      BY <3>2, <3>4 DEF AllPlaced
    <3>6. QED
      BY <1>2, <3>1, <3>3, <3>4, <3>5
  <2>6. QED
    BY <2>1, <2>3, <2>4, <2>5
<1>3. QED
  BY <1>1, <1>2

(* At most one kind of things is collected, so at most one is flushed.     *)
LEMMA OnePart ==
    ASSUME InterpretInv, blockToRaw = {},
           NEW a \in Seq(Block), AllPlaced(a, Len(blocks), rawToBlock),
           collected.bundles = <<>> => a = <<>>,
           NEW b \in Seq(Block), AllPlaced(b, Len(blocks), rawToBlock),
           collected.worksheets = <<>> => b = <<>>,
           NEW c \in Seq(Block), AllPlaced(c, Len(blocks), rawToBlock),
           collected.schema = <<>> => c = <<>>
    PROVE  /\ a \o b \o c \in Seq(Block) /\ AllPlaced(a \o b \o c, Len(blocks), rawToBlock)
           /\ Len(a \o b \o c) = Len(a) + Len(b) + Len(c)
<1>1. OneKind
  BY DEF InterpretInv, Reading
<1>2. \/ a = <<>> /\ b = <<>>
      \/ a = <<>> /\ c = <<>>
      \/ b = <<>> /\ c = <<>>
  BY <1>1 DEF OneKind
<1>3. /\ a \o b \o c \in Seq(Block) /\ Len(a \o b \o c) = Len(a) + Len(b) + Len(c)
  BY ConcatProperties
<1>4. a \o b \o c = a \/ a \o b \o c = b \/ a \o b \o c = c
  <2>1. CASE a = <<>> /\ b = <<>>
    BY <2>1, ConcatEmptySeq
  <2>2. CASE a = <<>> /\ c = <<>>
    BY <2>2, ConcatEmptySeq
  <2>3. CASE b = <<>> /\ c = <<>>
    BY <2>3, ConcatEmptySeq
  <2>4. QED
    BY <1>2, <2>1, <2>2, <2>3
<1>5. QED
  BY <1>3, <1>4

(* The blocks, with what has been flushed. *)
LEMMA BlocksFlushed ==
    ASSUME InterpretInv, blockToRaw = {},
           NEW more \in Seq(Block), AllPlaced(more, Len(blocks), rawToBlock)
    PROVE  /\ blocks \o more \in Seq(Block) /\ AllPlaced(blocks \o more, 0, rawToBlock)
           /\ Len(blocks \o more) = Len(blocks) + Len(more)
<1>1. blocks \in Seq(Block) /\ AllPlaced(blocks, 0, rawToBlock)
  BY DEF InterpretInv, InterpretTypeOK
<1>2. QED
  BY <1>1, AllPlacedConcat, ConcatProperties

(* The things collected are counted. *)
LEMMA PendingType ==
    ASSUME NEW some, some.bundles \in Seq(Index), some.worksheets \in Seq(Index),
           some.schema \in Seq(Index)
    PROVE  Pending(some) \in Nat
<1>1. PICK m \in Nat, n \in Nat, o \in Nat :
        m = Len(some.bundles) /\ n = Len(some.worksheets) /\ o = Len(some.schema)
  OBVIOUS
<1>2. m + n + o \in Nat
  OBVIOUS
<1>3. QED
  BY <1>1, <1>2 DEF Pending

(* What remains collected, and the blocks before it. *)
LEMMA FlushedItem ==
    ASSUME InterpretInv, blockToRaw = {}, NEW item, item \in BundleItems \/ ~FlushFails
    PROVE  /\ Flushed(item) \in Seq(Block) /\ Len(Flushed(item)) \in Nat
           /\ AllPlaced(Flushed(item), 0, rawToBlock)
           /\ Len(Flushed(item)) + Pending(StillCollected(item)) <= Len(rawItems)
           /\ StillCollected(item) # Nothing => Flushed(item) = blocks
<1> DEFINE a == IF item \in BundleItems THEN <<>> ELSE FlushBundles(rawItems)
           b == IF item = "worksheet" THEN <<>> ELSE FlushWorksheets
           c == IF item \in SchemaFields THEN <<>> ELSE FlushSchema
           still == StillCollected(item)
<1>0. <<>> \in Seq(Block) /\ Len(<<>>) = 0 /\ AllPlaced(<<>>, Len(blocks), rawToBlock)
  BY DEF AllPlaced
<1>1. /\ a \in Seq(Block) /\ AllPlaced(a, Len(blocks), rawToBlock)
      /\ collected.bundles = <<>> => a = <<>>
      /\ Len(a) + Len(still.bundles) <= Len(collected.bundles)
  <2>1. CASE item \in BundleItems
    <3>1. a = <<>> /\ still.bundles = collected.bundles
      BY <2>1 DEF StillCollected
    <3>2. Len(collected.bundles) \in Nat
      BY CollectedTyped
    <3> HIDE DEF a, still
    <3>3. QED
      BY <1>0, <3>1, <3>2
  <2>2. CASE item \notin BundleItems
    <3>1. a = FlushBundles(rawItems) /\ still.bundles = <<>>
      BY <2>2 DEF StillCollected
    <3> HIDE DEF a, still
    <3>2. QED
      BY <2>2, <3>1, FlushedBundles, CollectedTyped
  <2>3. QED
    BY <2>1, <2>2
<1>2. /\ b \in Seq(Block) /\ AllPlaced(b, Len(blocks), rawToBlock)
      /\ collected.worksheets = <<>> => b = <<>>
      /\ Len(b) + Len(still.worksheets) <= Len(collected.worksheets)
  <2>1. CASE item = "worksheet"
    <3>1. b = <<>> /\ still.worksheets = collected.worksheets
      BY <2>1 DEF StillCollected
    <3>2. Len(collected.worksheets) \in Nat
      BY CollectedTyped
    <3> HIDE DEF b, still
    <3>3. QED
      BY <1>0, <3>1, <3>2
  <2>2. CASE item # "worksheet"
    <3>1. b = FlushWorksheets /\ still.worksheets = <<>>
      BY <2>2 DEF StillCollected
    <3> HIDE DEF b, still
    <3>2. QED
      BY <3>1, FlushedWorksheets, CollectedTyped
  <2>3. QED
    BY <2>1, <2>2
<1>3. /\ c \in Seq(Block) /\ AllPlaced(c, Len(blocks), rawToBlock)
      /\ collected.schema = <<>> => c = <<>>
      /\ Len(c) + Len(still.schema) <= Len(collected.schema)
  <2>1. CASE item \in SchemaFields
    <3>1. c = <<>> /\ still.schema = collected.schema
      BY <2>1 DEF StillCollected
    <3>2. Len(collected.schema) \in Nat
      BY CollectedTyped
    <3> HIDE DEF c, still
    <3>3. QED
      BY <1>0, <3>1, <3>2
  <2>2. CASE item \notin SchemaFields
    <3>1. c = FlushSchema /\ still.schema = <<>>
      BY <2>2 DEF StillCollected
    <3> HIDE DEF c, still
    <3>2. QED
      BY <3>1, FlushedSchema, CollectedTyped
  <2>3. QED
    BY <2>1, <2>2
<1>4. FlushedBy(item) = a \o b \o c
  BY DEF FlushedBy
<1>6. still # Nothing => a \o b \o c = <<>>
  <2>1. OneKind
    BY DEF InterpretInv, Reading
  <2>2. CASE item \in BundleItems
    <3>1. /\ item # "worksheet" /\ item \notin SchemaFields
      BY <2>2 DEF BundleItems, SchemaFields
    <3>2. still = [bundles |-> collected.bundles, worksheets |-> <<>>, schema |-> <<>>]
      BY <2>2, <3>1 DEF StillCollected
    <3>3. still # Nothing => collected.bundles # <<>>
      BY <3>2 DEF Nothing
    <3>4. still # Nothing => a = <<>> /\ b = <<>> /\ c = <<>>
      BY <2>1, <2>2, <3>3, <1>2, <1>3 DEF OneKind
    <3>5. QED
      BY <3>4, <1>0, ConcatEmptySeq
  <2>3. CASE item = "worksheet"
    <3>1. /\ item \notin BundleItems /\ item \notin SchemaFields
      BY <2>3 DEF BundleItems, SchemaFields
    <3>2. still = [bundles |-> <<>>, worksheets |-> collected.worksheets, schema |-> <<>>]
      BY <2>3, <3>1 DEF StillCollected
    <3>3. still # Nothing => collected.worksheets # <<>>
      BY <3>2 DEF Nothing
    <3>4. still # Nothing => a = <<>> /\ b = <<>> /\ c = <<>>
      BY <2>1, <2>3, <3>3, <1>1, <1>3 DEF OneKind
    <3>5. QED
      BY <3>4, <1>0, ConcatEmptySeq
  <2>4. CASE item \in SchemaFields
    <3>1. /\ item \notin BundleItems /\ item # "worksheet"
      BY <2>4 DEF BundleItems, SchemaFields
    <3>2. still = [bundles |-> <<>>, worksheets |-> <<>>, schema |-> collected.schema]
      BY <2>4, <3>1 DEF StillCollected
    <3>3. still # Nothing => collected.schema # <<>>
      BY <3>2 DEF Nothing
    <3>4. still # Nothing => a = <<>> /\ b = <<>> /\ c = <<>>
      BY <2>1, <2>4, <3>3, <1>1, <1>2 DEF OneKind
    <3>5. QED
      BY <3>4, <1>0, ConcatEmptySeq
  <2>5. CASE item \notin BundleItems /\ item # "worksheet" /\ item \notin SchemaFields
    BY <2>5 DEF StillCollected, Nothing
  <2>6. QED
    BY <2>2, <2>3, <2>4, <2>5
<1>5. /\ a \o b \o c \in Seq(Block) /\ AllPlaced(a \o b \o c, Len(blocks), rawToBlock)
      /\ Len(a \o b \o c) = Len(a) + Len(b) + Len(c)
  <2> HIDE DEF a, b, c, still
  <2>1. QED
    BY <1>1, <1>2, <1>3, OnePart
<1>7. still.bundles \in Seq(Index) /\ still.worksheets \in Seq(Index) /\ still.schema \in Seq(Index)
  BY CollectedTyped DEF StillCollected
<1>8. Len(blocks) + Pending(collected) <= Len(rawItems)
  BY DEF InterpretInv, Reading
<1> DEFINE more == a \o b \o c
<1>9. Flushed(item) = blocks \o more
  BY <1>4 DEF Flushed
<1>m. more = a \o b \o c
  OBVIOUS
<1> HIDE DEF a, b, c, still, more
<1>10. /\ blocks \o more \in Seq(Block) /\ AllPlaced(blocks \o more, 0, rawToBlock)
       /\ Len(blocks \o more) = Len(blocks) + Len(more)
  BY <1>5, <1>m, BlocksFlushed
<1>11. Len(blocks) + Len(more) + Pending(still) <= Len(rawItems)
  <2>1. Len(more) = Len(a) + Len(b) + Len(c)
    BY <1>5, <1>m
  <2>2. /\ Len(a) \in Nat /\ Len(b) \in Nat /\ Len(c) \in Nat /\ Len(still.bundles) \in Nat
        /\ Len(still.worksheets) \in Nat /\ Len(still.schema) \in Nat
    BY <1>1, <1>2, <1>3, <1>7, SMTT(30)
  <2>3. /\ Pending(still) = Len(still.bundles) + Len(still.worksheets) + Len(still.schema)
        /\ Pending(collected) =
             Len(collected.bundles) + Len(collected.worksheets) + Len(collected.schema)
    BY DEF Pending
  <2>4. /\ Len(collected.bundles) \in Nat /\ Len(collected.worksheets) \in Nat
        /\ Len(collected.schema) \in Nat /\ Len(blocks) \in Nat /\ Len(rawItems) \in Nat
    BY CollectedTyped
  <2>5. /\ Len(a) + Len(still.bundles) <= Len(collected.bundles)
        /\ Len(b) + Len(still.worksheets) <= Len(collected.worksheets)
        /\ Len(c) + Len(still.schema) <= Len(collected.schema)
    BY <1>1, <1>2, <1>3
  <2>6. QED
    <3>1. PICK m \in Nat, n \in Nat, o \in Nat : m = Len(a) /\ n = Len(b) /\ o = Len(c)
      BY <2>2
    <3>2. PICK x \in Nat, y \in Nat, z \in Nat :
            x = Len(still.bundles) /\ y = Len(still.worksheets) /\ z = Len(still.schema)
      BY <2>2
    <3>3. PICK p \in Nat, q \in Nat, r \in Nat :
            /\ p = Len(collected.bundles) /\ q = Len(collected.worksheets)
            /\ r = Len(collected.schema)
      BY <2>4
    <3>4. PICK before \in Nat, all \in Nat : before = Len(blocks) /\ all = Len(rawItems)
      BY <2>4
    <3>5. /\ m + x <= p /\ n + y <= q /\ o + z <= r
      BY <2>5, <3>1, <3>2, <3>3
    <3>6. before + (p + q + r) <= all
      BY <1>8, <2>3, <3>3, <3>4
    <3>7. before + (m + n + o) + (x + y + z) <= all
      BY <3>5, <3>6
    <3>8. QED
      BY <2>1, <2>3, <3>1, <3>2, <3>4, <3>7
<1>12. still # Nothing => blocks \o more = blocks
  BY <1>6, <1>m, CollectedTyped, ConcatEmptySeq
<1>13. Len(blocks \o more) \in Nat
  BY <1>10
<1>14. QED
  BY <1>9, <1>10, <1>11, <1>12, <1>13 DEF still

-----------------------------------------------------------------------------
(* One item *)

(* What the item taken changes in every action. *)
LEMMA TakenItem ==
    ASSUME InterpretInv, NEW item, Take(item)
    PROVE  /\ item \in Items /\ blockToRaw = {} /\ blockToRaw' = {}
           /\ rawItems' \in Seq(Items) /\ Len(rawItems') = Len(rawItems) + 1
           /\ Len(rawItems) < MaxItems
           /\ Here \in Index /\ Here = Len(rawToBlock) + 1 /\ Here = Len(rawItems) + 1
           /\ Here \in Nat
<1>1. /\ item \in Items /\ blockToRaw = {} /\ blockToRaw' = {} /\ Len(rawItems) < MaxItems
      /\ rawItems' = Append(rawItems, item)
  BY DEF Take
<1>2. Len(rawToBlock) = Len(rawItems)
  BY <1>1 DEF InterpretInv, Reading
<1>3. rawItems' \in Seq(Items) /\ Len(rawItems') = Len(rawItems) + 1
  BY <1>1, CollectedTyped
<1>4. Len(rawItems) \in Nat /\ MaxItems \in Nat
  BY CollectedTyped
<1>5. QED
  BY <1>1, <1>2, <1>3, <1>4 DEF Here, Index

(* What makes the next item keep the invariant. *)
LEMMA NextItem ==
    ASSUME InterpretInv, NEW item, Take(item),
           NEW at \in Place \union {NoPlace}, rawToBlock' = Append(rawToBlock, at),
           blocks' \in Seq(Block), AllPlaced(blocks, 0, rawToBlock)',
           collected' \in Collection, firstBundle' \in 0..MaxItems, display' \in Displays,
           joinable' \in BOOLEAN,
           Len(blocks') + Pending(collected') <= Len(rawItems) + 1, OneKind',
           Waiting(collected.bundles, rawToBlock, Len(blocks) + 1)',
           Waiting(collected.worksheets, rawToBlock, Len(blocks) + 1)',
           WaitingSchema(collected.schema, rawToBlock, Len(blocks) + 1)',
           FirstKnown'
    PROVE  InterpretInv'
<1>1. /\ blockToRaw = {} /\ blockToRaw' = {} /\ rawItems' \in Seq(Items)
      /\ Len(rawItems') = Len(rawItems) + 1 /\ Len(rawItems) < MaxItems
  BY TakenItem
<1>2. rawToBlock' \in Seq(Place \union {NoPlace}) /\ Len(rawToBlock') = Len(rawToBlock) + 1
  BY PlaceAdded, CollectedTyped
<1>3. Len(rawToBlock) = Len(rawItems)
  BY <1>1 DEF InterpretInv, Reading
<1>4. InterpretTypeOK'
  <2>1. \A map \in blockToRaw' : DOMAIN map \subseteq Place /\ \A x \in DOMAIN map : map[x] \in Nat
    BY <1>1
  <2>2. QED
    BY <1>1, <1>2, <2>1 DEF InterpretTypeOK
<1>5. Len(rawItems') <= MaxItems /\ Len(rawToBlock') = Len(rawItems')
  <2>1. Len(rawItems) \in Nat /\ MaxItems \in Nat
    BY CollectedTyped
  <2>2. Len(rawItems) < MaxItems /\ Len(rawItems') = Len(rawItems) + 1
    BY <1>1
  <2>3. Len(rawToBlock') = Len(rawItems) + 1
    BY <1>2, <1>3
  <2>4. QED
    BY <2>1, <2>2, <2>3
<1>6. Reading'
  BY <1>1, <1>5 DEF Reading
<1>7. QED
  BY <1>4, <1>6 DEF InterpretInv

(* An item that leaves nothing collected. *)
LEMMA NothingWaits ==
    ASSUME collected' = Nothing
    PROVE  /\ collected' \in Collection /\ OneKind' /\ Pending(collected') = 0
           /\ Waiting(collected.bundles, rawToBlock, Len(blocks) + 1)'
           /\ Waiting(collected.worksheets, rawToBlock, Len(blocks) + 1)'
           /\ WaitingSchema(collected.schema, rawToBlock, Len(blocks) + 1)'
           /\ collected'.bundles = <<>>
<1>1. /\ collected'.bundles = <<>> /\ collected'.worksheets = <<>> /\ collected'.schema = <<>>
      /\ collected' \in Collection
  BY DEF Nothing, Collection
<1>2. Len(<<>>) = 0
  OBVIOUS
<1>3. QED
  BY <1>1, <1>2 DEF OneKind, Pending, Waiting, WaitingSchema

(* The same, when it leaves nothing collected. *)
LEMMA ClearedItem ==
    ASSUME InterpretInv, NEW item, Take(item), collected' = Nothing,
           NEW at \in Place \union {NoPlace}, rawToBlock' = Append(rawToBlock, at),
           blocks' \in Seq(Block), AllPlaced(blocks, 0, rawToBlock)',
           Len(blocks') <= Len(rawItems) + 1,
           firstBundle' \in 0..MaxItems, display' \in Displays, joinable' \in BOOLEAN,
           NoneFirst'
    PROVE  InterpretInv'
<1>1. Len(blocks') + Pending(collected') <= Len(rawItems) + 1
  <2>1. Pending(collected') = 0 /\ Len(blocks') \in Nat
    BY NothingWaits
  <2>2. QED
    BY <2>1
<1>2. FirstKnown'
  BY NothingWaits DEF FirstKnown, NoneFirst
<1>3. QED
  BY <1>1, <1>2, NothingWaits, NextItem

(* What the item changes when it is interpreted. *)
LEMMA InterpretedItem ==
    ASSUME InterpretInv, NEW item, Interpret(item)
    PROVE  /\ Take(item) /\ blockToRaw = {} /\ (item \in BundleItems \/ ~FlushFails)
           /\ display' \in Displays /\ joinable' \in BOOLEAN /\ firstBundle' \in 0..MaxItems
           /\ item \notin BundleItems => firstBundle' = 0
<1>1. /\ Take(item) /\ (item \in BundleItems \/ ~FlushFails)
      /\ display' = (IF item \in Displays THEN item ELSE ResetDisplay(item))
      /\ firstBundle' = FirstBundle(item)
  BY DEF Interpret
<1>2. joinable' \in BOOLEAN
  BY DEF Interpret
<1>3. display' \in Displays
  BY <1>1, CollectedTyped DEF ResetDisplay, Displays
<1>4. FirstBundle(item) \in 0..MaxItems /\ (item \notin BundleItems => FirstBundle(item) = 0)
  <2>1. CASE item \notin BundleItems
    <3>1. FirstBundle(item) = 0
      BY <2>1 DEF FirstBundle
    <3>2. QED
      BY <2>1, <3>1, CollectedTyped
  <2>2. CASE item \in BundleItems /\ firstBundle = 0
    <3>1. FirstBundle(item) = Here
      BY <2>2 DEF FirstBundle
    <3>2. QED
      BY <1>1, <2>2, <3>1, TakenItem, CollectedTyped DEF Index
  <2>3. CASE item \in BundleItems /\ firstBundle # 0
    <3>1. FirstBundle(item) = firstBundle
      BY <2>3 DEF FirstBundle
    <3>2. QED
      BY <2>3, <3>1, CollectedTyped
  <2>4. QED
    BY <2>1, <2>2, <2>3
<1>5. QED
  BY <1>1, <1>2, <1>3, <1>4, TakenItem

(* What another kind of item leaves: nothing is collected, and the blocks  *)
(* with what was flushed are in place.                                     *)
LEMMA FlushedAll ==
    ASSUME InterpretInv, NEW item, Interpret(item)
    PROVE  /\ Flushed(item) \in Seq(Block) /\ Len(Flushed(item)) \in Nat
           /\ Len(Flushed(item)) <= Len(rawItems)
           /\ \A at \in Place \union {NoPlace} :
                AllPlaced(Flushed(item), 0, Append(rawToBlock, at))
           /\ <<Len(Flushed(item)) + 1, 1>> \in Place
           /\ Len(Flushed(item)) # 0 => <<Len(Flushed(item)), 1>> \in Place
<1>1. /\ Flushed(item) \in Seq(Block) /\ Len(Flushed(item)) \in Nat
      /\ AllPlaced(Flushed(item), 0, rawToBlock)
      /\ Len(Flushed(item)) + Pending(StillCollected(item)) <= Len(rawItems)
  BY InterpretedItem, FlushedItem
<1>2. Pending(StillCollected(item)) \in Nat
  <2>1. /\ StillCollected(item).bundles \in Seq(Index)
        /\ StillCollected(item).worksheets \in Seq(Index)
        /\ StillCollected(item).schema \in Seq(Index)
    BY CollectedTyped DEF StillCollected
  <2>2. QED
    BY <2>1, PendingType
<1>3. Len(Flushed(item)) <= Len(rawItems)
  BY <1>1, <1>2, CollectedTyped
<1>4. ASSUME NEW at \in Place \union {NoPlace}
      PROVE  AllPlaced(Flushed(item), 0, Append(rawToBlock, at))
  BY <1>1, PlaceAdded, AllPlacedStays, CollectedTyped
<1>5. Len(rawItems) < MaxItems /\ Len(rawItems) \in Nat /\ MaxItems \in Nat
  BY InterpretedItem, TakenItem, CollectedTyped
<1>6. /\ Len(Flushed(item)) + 1 \in 1..2 * MaxItems /\ 1 \in 1..MaxItems
      /\ Len(Flushed(item)) # 0 => Len(Flushed(item)) \in 1..2 * MaxItems
  BY <1>1, <1>3, <1>5
<1>7. QED
  BY <1>1, <1>3, <1>4, <1>6 DEF Place, Index

(* What is still collected, by the kind of the item. *)
LEMMA StillOf ==
    ASSUME NEW item
    PROVE  /\ item \in BundleItems =>
                StillCollected(item) = [bundles |-> collected.bundles, worksheets |-> <<>>, schema |-> <<>>]
           /\ item = "worksheet" =>
                StillCollected(item) = [bundles |-> <<>>, worksheets |-> collected.worksheets, schema |-> <<>>]
           /\ item \in SchemaFields =>
                StillCollected(item) = [bundles |-> <<>>, worksheets |-> <<>>, schema |-> collected.schema]
           /\ item \notin BundleItems /\ item # "worksheet" /\ item \notin SchemaFields =>
                StillCollected(item) = Nothing
<1>1. CASE item \in BundleItems
  <2>1. item # "worksheet" /\ item \notin SchemaFields
    BY <1>1 DEF BundleItems, SchemaFields
  <2>2. QED
    BY <1>1, <2>1 DEF StillCollected
<1>2. CASE item = "worksheet"
  <2>1. item \notin BundleItems /\ item \notin SchemaFields
    BY <1>2 DEF BundleItems, SchemaFields
  <2>2. QED
    BY <1>2, <2>1 DEF StillCollected
<1>3. CASE item \in SchemaFields
  <2>1. item \notin BundleItems /\ item # "worksheet"
    BY <1>3 DEF BundleItems, SchemaFields
  <2>2. QED
    BY <1>3, <2>1 DEF StillCollected
<1>4. CASE item \notin BundleItems /\ item # "worksheet" /\ item \notin SchemaFields
  BY <1>4 DEF StillCollected, Nothing
<1>5. QED
  BY <1>1, <1>2, <1>3, <1>4

(* One more thing that waits at its place. *)
LEMMA WaitingAdded ==
    ASSUME NEW some \in Seq(Index), NEW places \in Seq(Place \union {NoPlace}), NEW next \in Nat,
           Waiting(some, places, next), NEW at \in Place, at = <<next, Len(some) + 1>>,
           NEW i \in Index, i = Len(places) + 1
    PROVE  Waiting(Append(some, i), Append(places, at), next)
<1>1. ASSUME NEW n \in 1..Len(Append(some, i))
      PROVE  /\ Append(some, i)[n] \in 1..Len(Append(places, at))
             /\ Append(places, at)[Append(some, i)[n]] = <<next, n>>
  <2>1. Len(Append(some, i)) = Len(some) + 1 /\ Len(some) \in Nat /\ Len(places) \in Nat
        /\ Len(Append(places, at)) = Len(places) + 1
    OBVIOUS
  <2>2. CASE n = Len(some) + 1
    <3>1. Append(some, i)[n] = Len(places) + 1
      BY <2>1, <2>2
    <3>2. Append(places, at)[Len(places) + 1] = <<next, Len(some) + 1>>
      BY PlaceAdded
    <3>3. Len(places) + 1 \in 1..Len(places) + 1
      BY <2>1
    <3>4. QED
      BY <2>1, <2>2, <3>1, <3>2, <3>3
  <2>3. CASE n # Len(some) + 1
    <3>1. n \in 1..Len(some) /\ Append(some, i)[n] = some[n]
      BY <2>1, <2>3
    <3>2. some[n] \in 1..Len(places) /\ places[some[n]] = <<next, n>>
      BY <3>1 DEF Waiting
    <3>3. Append(places, at)[some[n]] = places[some[n]]
      BY <3>2, PlaceAdded
    <3>4. some[n] \in 1..Len(places) + 1
      BY <2>1, <3>2
    <3>5. QED
      BY <2>1, <3>1, <3>2, <3>3, <3>4
  <2>4. QED
    BY <2>2, <2>3
<1>2. QED
  BY <1>1 DEF Waiting

(* One more thing of the kind that is collected. *)
LEMMA PendingAdded ==
    ASSUME NEW some, some.bundles \in Seq(Index), some.worksheets \in Seq(Index),
           some.schema \in Seq(Index), NEW more, NEW before \in Nat, NEW all \in Nat,
           Len(more.bundles) + Len(more.worksheets) + Len(more.schema)
             = Len(some.bundles) + Len(some.worksheets) + Len(some.schema) + 1,
           before + Pending(some) <= all
    PROVE  before + Pending(more) <= all + 1
<1>1. Pending(more) = Pending(some) + 1
  BY DEF Pending
<1>2. Pending(some) \in Nat
  BY PendingType
<1>3. PICK n \in Nat : n = Pending(some)
  BY <1>2
<1>4. before + (n + 1) <= all + 1
  BY <1>3
<1>5. QED
  BY <1>1, <1>3, <1>4

(* The first of what is collected. *)
LEMMA FirstAppended ==
    ASSUME NEW some \in Seq(Index), NEW i \in Index
    PROVE  /\ Append(some, i) \in Seq(Index) /\ Append(some, i) # <<>>
           /\ Len(Append(some, i)) = Len(some) + 1
           /\ Len(Append(some, i)) \in Nat /\ Len(some) \in Nat
           /\ some = <<>> => Append(some, i)[1] = i
           /\ some # <<>> => Append(some, i)[1] = some[1]
<1>1. /\ Append(some, i) \in Seq(Index) /\ Len(Append(some, i)) = Len(some) + 1
      /\ Len(some) \in Nat
  OBVIOUS
<1>2. Len(Append(some, i)) \in Nat /\ Len(Append(some, i)) # 0
  BY <1>1
<1>3. Append(some, i) # <<>>
  BY <1>2
<1>4. ASSUME some = <<>> PROVE Append(some, i)[1] = i
  <2>1. Len(some) = 0
    BY <1>4
  <2>2. QED
    BY <2>1
<1>5. ASSUME some # <<>> PROVE Append(some, i)[1] = some[1]
  <2>1. 1 \in 1..Len(some)
    BY <1>5
  <2>2. QED
    BY <2>1
<1>6. QED
  BY <1>1, <1>2, <1>3, <1>4, <1>5

(* A bundle keeps the invariant. *)
LEMMA BundleStep ==
    ASSUME InterpretInv, NEW item, Bundle(item)
    PROVE  InterpretInv'
<1> DEFINE more == Append(collected.bundles, Here)
           at == <<Len(blocks') + 1, Len(collected.bundles) + 1>>
<1>1. /\ item \in BundleItems /\ Interpret(item) /\ blocks' = Flushed(item)
      /\ rawToBlock' = Append(rawToBlock, at)
      /\ collected' = [StillCollected(item) EXCEPT !.bundles = Append(@, Here)]
  BY DEF Bundle
<1>2. /\ Take(item) /\ blockToRaw = {} /\ display' \in Displays /\ joinable' \in BOOLEAN
      /\ firstBundle' \in 0..MaxItems
  BY <1>1, InterpretedItem
<1>3. /\ Here \in Index /\ Here = Len(rawToBlock) + 1 /\ Here \in Nat /\ Len(rawItems) < MaxItems
  BY <1>2, TakenItem
<1>4. StillCollected(item) = [bundles |-> collected.bundles, worksheets |-> <<>>, schema |-> <<>>]
  BY <1>1, StillOf
<1>5. collected' = [bundles |-> more, worksheets |-> <<>>, schema |-> <<>>]
  <2>1. collected' = [StillCollected(item) EXCEPT !.bundles = Append(@, Here)]
    BY <1>1
  <2>2. collected' = [[bundles |-> collected.bundles, worksheets |-> <<>>, schema |-> <<>>]
                        EXCEPT !.bundles = Append(@, Here)]
    BY ONLY <1>4, <2>1
  <2>3. QED
    BY ONLY <2>2
<1>6. /\ more \in Seq(Index) /\ Len(more) = Len(collected.bundles) + 1 /\ Len(more) \in Nat
      /\ more # <<>> /\ Len(collected.bundles) \in Nat
      /\ collected.bundles = <<>> => more[1] = Here
      /\ collected.bundles # <<>> => more[1] = collected.bundles[1]
  <2>1. collected.bundles \in Seq(Index) /\ Here \in Index
    BY <1>3, CollectedTyped
  <2>2. QED
    BY <2>1, FirstAppended
<1>7. /\ Flushed(item) \in Seq(Block) /\ Len(Flushed(item)) \in Nat
      /\ Len(Flushed(item)) + Pending(StillCollected(item)) <= Len(rawItems)
      /\ StillCollected(item) # Nothing => Flushed(item) = blocks
  BY <1>1, <1>2, FlushedItem
<1>8. /\ Len(Flushed(item)) <= Len(rawItems)
      /\ \A x \in Place \union {NoPlace} : AllPlaced(Flushed(item), 0, Append(rawToBlock, x))
  BY <1>1, FlushedAll
<1>9. Waiting(collected.bundles, rawToBlock, Len(blocks') + 1)
  <2>1. CASE collected.bundles = <<>>
    BY <2>1 DEF Waiting
  <2>2. CASE collected.bundles # <<>>
    <3>1. StillCollected(item) # Nothing
      BY <1>4, <2>2 DEF Nothing
    <3>2. blocks' = blocks
      BY <1>1, <1>7, <3>1
    <3>3. QED
      BY <1>2, <3>2 DEF InterpretInv, Reading
  <2>3. QED
    BY <2>1, <2>2
<1> HIDE DEF more
<1>10. Len(blocks') + Pending(collected') <= Len(rawItems) + 1
  <2>1. /\ StillCollected(item).bundles = collected.bundles
        /\ StillCollected(item).worksheets = <<>> /\ StillCollected(item).schema = <<>>
    BY <1>4
  <2>2. /\ collected'.bundles = more /\ collected'.worksheets = <<>> /\ collected'.schema = <<>>
    BY <1>5
  <2>3. Len(<<>>) = 0 /\ <<>> \in Seq(Index)
    OBVIOUS
  <2>4. Len(collected'.bundles) + Len(collected'.worksheets) + Len(collected'.schema)
          = Len(StillCollected(item).bundles) + Len(StillCollected(item).worksheets)
              + Len(StillCollected(item).schema) + 1
    BY <1>6, <2>1, <2>2, <2>3
  <2>5. QED
    BY <1>1, <1>7, <2>1, <2>3, <2>4, CollectedTyped, PendingAdded
<1>11. collected' \in Collection
  <2>1. <<>> \in Seq(Index)
    OBVIOUS
  <2>2. QED
    BY <1>5, <1>6, <2>1 DEF Collection
<1>12. at \in Place
  <2>1. Len(collected.bundles) <= Pending(StillCollected(item))
    <3>1. /\ StillCollected(item).bundles = collected.bundles
          /\ StillCollected(item).worksheets = <<>> /\ StillCollected(item).schema = <<>>
      BY <1>4
    <3>2. Len(<<>>) = 0
      OBVIOUS
    <3>3. QED
      BY <1>6, <3>1, <3>2 DEF Pending
  <2>2. Pending(StillCollected(item)) \in Nat
    <3>1. /\ StillCollected(item).bundles = collected.bundles
          /\ StillCollected(item).worksheets = <<>> /\ StillCollected(item).schema = <<>>
      BY <1>4
    <3>2. <<>> \in Seq(Index)
      OBVIOUS
    <3>3. QED
      BY <3>1, <3>2, CollectedTyped, PendingType
  <2>3. Len(collected.bundles) + 1 \in 1..MaxItems
    BY <1>3, <1>6, <1>7, <2>1, <2>2, CollectedTyped, SMTT(30)
  <2>4. Len(blocks') + 1 \in 1..2 * MaxItems
    BY <1>1, <1>3, <1>7, <1>8, CollectedTyped
  <2>5. QED
    BY <2>3, <2>4 DEF Place, Index
<1>13. Waiting(more, rawToBlock', Len(blocks') + 1)
  <2>1. Len(blocks') + 1 \in Nat
    BY <1>1, <1>7
  <2>2. QED
    BY <1>1, <1>3, <1>9, <1>12, <2>1, CollectedTyped, WaitingAdded DEF more
<1>14. FirstKnown'
  <2>1. SUFFICES ASSUME display' # "no such mode" PROVE firstBundle' = more[1]
    BY <1>5, <1>6 DEF FirstKnown
  <2>2. display' = display /\ firstBundle' = FirstBundle(item)
    BY <1>1 DEF Interpret, ResetDisplay, BundleItems, Displays
  <2>3. firstBundle = IF collected.bundles = <<>> THEN 0 ELSE collected.bundles[1]
    BY <1>2, <2>1, <2>2 DEF InterpretInv, Reading, FirstKnown
  <2>4. CASE collected.bundles = <<>>
    <3>1. FirstBundle(item) = Here
      BY <1>1, <2>3, <2>4 DEF FirstBundle
    <3>2. QED
      BY <1>6, <2>2, <2>4, <3>1
  <2>5. CASE collected.bundles # <<>>
    <3>1. collected.bundles[1] \in Index
      BY <2>5, CollectedTyped
    <3>2. firstBundle # 0
      BY <2>3, <2>5, <3>1 DEF Index
    <3>3. FirstBundle(item) = firstBundle
      BY <1>1, <3>2 DEF FirstBundle
    <3>4. QED
      BY <1>6, <2>2, <2>3, <2>5, <3>3
  <2>6. QED
    BY <2>4, <2>5
<1>15. /\ collected'.bundles = more /\ collected'.worksheets = <<>> /\ collected'.schema = <<>>
  BY <1>5
<1>16. /\ OneKind' /\ Waiting(collected.bundles, rawToBlock, Len(blocks) + 1)'
       /\ Waiting(collected.worksheets, rawToBlock, Len(blocks) + 1)'
       /\ WaitingSchema(collected.schema, rawToBlock, Len(blocks) + 1)'
  <2>1. Len(<<>>) = 0
    OBVIOUS
  <2>2. Waiting(<<>>, rawToBlock', Len(blocks') + 1) /\ WaitingSchema(<<>>, rawToBlock', Len(blocks') + 1)
    BY <2>1 DEF Waiting, WaitingSchema
  <2>3. QED
    BY <1>13, <1>15, <2>2 DEF OneKind
<1>17. blocks' \in Seq(Block) /\ AllPlaced(blocks, 0, rawToBlock)'
  BY <1>1, <1>7, <1>8, <1>12
<1> HIDE DEF at
<1>18. QED
  BY <1>1, <1>2, <1>10, <1>11, <1>12, <1>14, <1>16, <1>17, NextItem

(* A subworksheet does. *)
LEMMA SubworksheetStep ==
    ASSUME InterpretInv, NEW item, Subworksheet(item)
    PROVE  InterpretInv'
<1> DEFINE more == Append(collected.worksheets, Here)
           at == <<Len(blocks') + 1, Len(collected.worksheets) + 1>>
<1>1. /\ item = "worksheet" /\ Interpret(item) /\ blocks' = Flushed(item)
      /\ rawToBlock' = Append(rawToBlock, at)
      /\ collected' = [StillCollected(item) EXCEPT !.worksheets = Append(@, Here)]
  BY DEF Subworksheet
<1>0. item \notin BundleItems
  BY <1>1 DEF BundleItems
<1>2. /\ Take(item) /\ blockToRaw = {} /\ display' \in Displays /\ joinable' \in BOOLEAN
      /\ firstBundle' \in 0..MaxItems /\ (item \in BundleItems \/ ~FlushFails) /\ firstBundle' = 0
  BY <1>0, <1>1, InterpretedItem
<1>3. /\ Here \in Index /\ Here = Len(rawToBlock) + 1 /\ Here \in Nat /\ Len(rawItems) < MaxItems
  BY <1>2, TakenItem
<1>4. StillCollected(item) = [bundles |-> <<>>, worksheets |-> collected.worksheets, schema |-> <<>>]
  BY <1>1, StillOf
<1>5. collected' = [bundles |-> <<>>, worksheets |-> more, schema |-> <<>>]
  <2>1. collected' = [StillCollected(item) EXCEPT !.worksheets = Append(@, Here)]
    BY <1>1
  <2>2. collected' = [[bundles |-> <<>>, worksheets |-> collected.worksheets, schema |-> <<>>]
                        EXCEPT !.worksheets = Append(@, Here)]
    BY ONLY <1>4, <2>1
  <2>3. QED
    BY ONLY <2>2
<1>6. /\ more \in Seq(Index) /\ Len(more) = Len(collected.worksheets) + 1 /\ Len(more) \in Nat
      /\ Len(collected.worksheets) \in Nat
  <2>1. collected.worksheets \in Seq(Index) /\ Here \in Index
    BY <1>3, CollectedTyped
  <2>2. QED
    BY <2>1, FirstAppended
<1>7. /\ Flushed(item) \in Seq(Block) /\ Len(Flushed(item)) \in Nat
      /\ Len(Flushed(item)) + Pending(StillCollected(item)) <= Len(rawItems)
      /\ StillCollected(item) # Nothing => Flushed(item) = blocks
  BY <1>2, FlushedItem
<1>8. /\ Len(Flushed(item)) <= Len(rawItems)
      /\ \A x \in Place \union {NoPlace} : AllPlaced(Flushed(item), 0, Append(rawToBlock, x))
  BY <1>1, FlushedAll
<1>9. Waiting(collected.worksheets, rawToBlock, Len(blocks') + 1)
  <2>1. CASE collected.worksheets = <<>>
    BY <2>1 DEF Waiting
  <2>2. CASE collected.worksheets # <<>>
    <3>1. StillCollected(item) # Nothing
      BY <1>4, <2>2 DEF Nothing
    <3>2. blocks' = blocks
      BY <1>1, <1>7, <3>1
    <3>3. QED
      BY <1>2, <3>2 DEF InterpretInv, Reading
  <2>3. QED
    BY <2>1, <2>2
<1> HIDE DEF more
<1>10. Len(blocks') + Pending(collected') <= Len(rawItems) + 1
  <2>1. /\ StillCollected(item).bundles = <<>>
        /\ StillCollected(item).worksheets = collected.worksheets
        /\ StillCollected(item).schema = <<>>
    BY <1>4
  <2>2. /\ collected'.bundles = <<>> /\ collected'.worksheets = more /\ collected'.schema = <<>>
    BY <1>5
  <2>3. Len(<<>>) = 0 /\ <<>> \in Seq(Index)
    OBVIOUS
  <2>4. Len(collected'.bundles) + Len(collected'.worksheets) + Len(collected'.schema)
          = Len(StillCollected(item).bundles) + Len(StillCollected(item).worksheets)
              + Len(StillCollected(item).schema) + 1
    BY <1>6, <2>1, <2>2, <2>3
  <2>5. QED
    BY <1>1, <1>7, <2>1, <2>3, <2>4, CollectedTyped, PendingAdded
<1>11. collected' \in Collection
  <2>1. <<>> \in Seq(Index)
    OBVIOUS
  <2>2. QED
    BY <1>5, <1>6, <2>1 DEF Collection
<1>12. at \in Place
  <2>1. /\ StillCollected(item).bundles = <<>>
        /\ StillCollected(item).worksheets = collected.worksheets
        /\ StillCollected(item).schema = <<>>
    BY <1>4
  <2>2. Len(<<>>) = 0 /\ <<>> \in Seq(Index)
    OBVIOUS
  <2>3. Pending(StillCollected(item)) \in Nat /\ Len(collected.worksheets) <= Pending(StillCollected(item))
    <3>1. Len(collected.worksheets) <= Pending(StillCollected(item))
      BY <1>6, <2>1, <2>2 DEF Pending
    <3>2. QED
      BY <2>1, <2>2, <3>1, CollectedTyped, PendingType
  <2>4. Len(collected.worksheets) + 1 \in 1..MaxItems
    BY <1>3, <1>6, <1>7, <2>3, CollectedTyped, SMTT(30)
  <2>5. Len(blocks') + 1 \in 1..2 * MaxItems
    BY <1>1, <1>3, <1>7, <1>8, CollectedTyped
  <2>6. QED
    BY <2>4, <2>5 DEF Place, Index
<1>13. Waiting(more, rawToBlock', Len(blocks') + 1)
  <2>1. Len(blocks') + 1 \in Nat
    BY <1>1, <1>7
  <2>2. QED
    BY <1>1, <1>3, <1>9, <1>12, <2>1, CollectedTyped, WaitingAdded DEF more
<1>14. FirstKnown'
  BY <1>2, <1>5 DEF FirstKnown
<1>15. /\ collected'.bundles = <<>> /\ collected'.worksheets = more /\ collected'.schema = <<>>
  BY <1>5
<1>16. /\ OneKind' /\ Waiting(collected.bundles, rawToBlock, Len(blocks) + 1)'
       /\ Waiting(collected.worksheets, rawToBlock, Len(blocks) + 1)'
       /\ WaitingSchema(collected.schema, rawToBlock, Len(blocks) + 1)'
  <2>1. Len(<<>>) = 0
    OBVIOUS
  <2>2. Waiting(<<>>, rawToBlock', Len(blocks') + 1) /\ WaitingSchema(<<>>, rawToBlock', Len(blocks') + 1)
    BY <2>1 DEF Waiting, WaitingSchema
  <2>3. QED
    BY <1>13, <1>15, <2>2 DEF OneKind
<1>17. blocks' \in Seq(Block) /\ AllPlaced(blocks, 0, rawToBlock)'
  BY <1>1, <1>7, <1>8, <1>12
<1> HIDE DEF at
<1>18. QED
  BY <1>1, <1>2, <1>10, <1>11, <1>12, <1>14, <1>16, <1>17, NextItem

(* The fields of a schema, whose first one has its place. *)
LEMMA SchemaWaits ==
    ASSUME InterpretInv, NEW item, Take(item), NEW more \in Seq(Index), NEW at \in Place \union {NoPlace},
           rawToBlock' = Append(rawToBlock, at),
           collected' = [bundles |-> <<>>, worksheets |-> <<>>, schema |-> more],
           blocks' \in Seq(Block), AllPlaced(blocks, 0, rawToBlock)',
           Len(blocks') + Len(more) <= Len(rawItems) + 1,
           WaitingSchema(more, rawToBlock', Len(blocks') + 1),
           firstBundle' \in 0..MaxItems, display' \in Displays, joinable' \in BOOLEAN, NoneFirst'
    PROVE  InterpretInv'
<1>1. /\ collected'.bundles = <<>> /\ collected'.worksheets = <<>> /\ collected'.schema = more
  OBVIOUS
<1>2. Len(<<>>) = 0 /\ <<>> \in Seq(Index) /\ Len(more) \in Nat
  OBVIOUS
<1>3. collected' \in Collection
  BY <1>2 DEF Collection
<1>4. Pending(collected') = Len(more)
  BY <1>1, <1>2 DEF Pending
<1>5. /\ OneKind' /\ Waiting(collected.bundles, rawToBlock, Len(blocks) + 1)'
      /\ Waiting(collected.worksheets, rawToBlock, Len(blocks) + 1)'
      /\ WaitingSchema(collected.schema, rawToBlock, Len(blocks) + 1)'
  BY <1>1, <1>2 DEF OneKind, Waiting
<1>6. FirstKnown'
  BY <1>1 DEF FirstKnown, NoneFirst
<1>7. QED
  BY <1>3, <1>4, <1>5, <1>6, NextItem

(* A schema does. *)
LEMMA SchemaStep ==
    ASSUME InterpretInv, NEW item, Schema(item)
    PROVE  InterpretInv'
<1> DEFINE at == <<Len(blocks') + 1, 1>>
<1>1. /\ item = "schema" /\ Interpret(item) /\ blocks' = Flushed(item)
      /\ rawToBlock' = Append(rawToBlock, at)
      /\ collected' = [StillCollected(item) EXCEPT !.schema = <<Here>>]
  BY DEF Schema
<1>2. item \notin BundleItems /\ item # "worksheet" /\ item \notin SchemaFields
  BY <1>1 DEF BundleItems, SchemaFields
<1>3. /\ Take(item) /\ blockToRaw = {} /\ display' \in Displays /\ joinable' \in BOOLEAN
      /\ firstBundle' \in 0..MaxItems /\ firstBundle' = 0
  BY <1>1, <1>2, InterpretedItem
<1>4. /\ Here \in Index /\ Here = Len(rawToBlock) + 1 /\ Here \in Nat
  BY <1>3, TakenItem
<1>5. StillCollected(item) = Nothing
  BY <1>2, StillOf
<1>6. collected' = [bundles |-> <<>>, worksheets |-> <<>>, schema |-> <<Here>>]
  <2>1. collected' = [StillCollected(item) EXCEPT !.schema = <<Here>>]
    BY <1>1
  <2>2. QED
    BY ONLY <1>5, <2>1 DEF Nothing
<1>7. /\ Flushed(item) \in Seq(Block) /\ Len(Flushed(item)) \in Nat
      /\ Len(Flushed(item)) <= Len(rawItems)
      /\ \A x \in Place \union {NoPlace} : AllPlaced(Flushed(item), 0, Append(rawToBlock, x))
      /\ <<Len(Flushed(item)) + 1, 1>> \in Place
  BY <1>1, FlushedAll
<1>8. at \in Place
  BY <1>1, <1>7
<1>9. blocks' \in Seq(Block) /\ AllPlaced(blocks, 0, rawToBlock)'
  BY <1>1, <1>7, <1>8
<1> DEFINE only == <<Here>>
<1>10. only \in Seq(Index) /\ Len(only) = 1 /\ only[1] = Here
  BY <1>4
<1>11. collected' = [bundles |-> <<>>, worksheets |-> <<>>, schema |-> only]
  BY <1>6
<1> HIDE DEF only
<1>12. Len(blocks') + Len(only) <= Len(rawItems) + 1
  BY <1>1, <1>7, <1>10, CollectedTyped
<1>13. WaitingSchema(only, rawToBlock', Len(blocks') + 1)
  <2>1. /\ rawToBlock'[Here] = at /\ Here \in 1..Len(rawToBlock')
    <3>1. /\ rawToBlock'[Len(rawToBlock) + 1] = at /\ Len(rawToBlock') = Len(rawToBlock) + 1
      BY <1>1, <1>8, CollectedTyped, PlaceAdded
    <3>2. Len(rawToBlock) + 1 \in 1..Len(rawToBlock) + 1
      BY CollectedTyped
    <3>3. QED
      BY <1>4, <3>1, <3>2
  <2>2. QED
    BY <1>10, <2>1 DEF WaitingSchema
<1>14. NoneFirst'
  BY <1>3 DEF NoneFirst
<1> HIDE DEF at
<1>15. QED
  BY <1>1, <1>3, <1>8, <1>9, <1>10, <1>11, <1>12, <1>13, <1>14, SchemaWaits

(* A field of a schema does. *)
LEMMA FieldStep ==
    ASSUME InterpretInv, NEW item, Add(item)
    PROVE  InterpretInv'
<1> DEFINE more == Append(collected.schema, Here)
<1>1. /\ item = "add" /\ collected.schema # <<>> /\ Interpret(item) /\ blocks' = Flushed(item)
      /\ rawToBlock' = Append(rawToBlock, NoPlace)
      /\ collected' = [StillCollected(item) EXCEPT !.schema = Append(@, Here)]
  BY DEF Add
<1>2. item \notin BundleItems /\ item \in SchemaFields
  BY <1>1 DEF BundleItems, SchemaFields
<1>3. /\ Take(item) /\ blockToRaw = {} /\ display' \in Displays /\ joinable' \in BOOLEAN
      /\ firstBundle' \in 0..MaxItems /\ (item \in BundleItems \/ ~FlushFails) /\ firstBundle' = 0
  BY <1>1, <1>2, InterpretedItem
<1>4. /\ Here \in Index /\ Here = Len(rawToBlock) + 1 /\ Here \in Nat
  BY <1>3, TakenItem
<1>5. StillCollected(item) = [bundles |-> <<>>, worksheets |-> <<>>, schema |-> collected.schema]
  BY <1>2, StillOf
<1>6. collected' = [bundles |-> <<>>, worksheets |-> <<>>, schema |-> more]
  <2>1. collected' = [StillCollected(item) EXCEPT !.schema = Append(@, Here)]
    BY <1>1
  <2>2. collected' = [[bundles |-> <<>>, worksheets |-> <<>>, schema |-> collected.schema]
                        EXCEPT !.schema = Append(@, Here)]
    BY ONLY <1>5, <2>1
  <2>3. QED
    BY ONLY <2>2
<1>7. /\ more \in Seq(Index) /\ Len(more) = Len(collected.schema) + 1 /\ Len(more) \in Nat
      /\ Len(collected.schema) \in Nat /\ more[1] = collected.schema[1]
  BY <1>1, <1>4, CollectedTyped, FirstAppended
<1>8. /\ Flushed(item) \in Seq(Block) /\ Len(Flushed(item)) \in Nat
      /\ Len(Flushed(item)) + Pending(StillCollected(item)) <= Len(rawItems)
      /\ StillCollected(item) # Nothing => Flushed(item) = blocks
  BY <1>3, FlushedItem
<1>9. \A x \in Place \union {NoPlace} : AllPlaced(Flushed(item), 0, Append(rawToBlock, x))
  BY <1>1, FlushedAll
<1>10. blocks' = blocks
  <2>1. StillCollected(item) # Nothing
    BY <1>1, <1>5 DEF Nothing
  <2>2. QED
    BY <1>1, <1>8, <2>1
<1>11. blocks' \in Seq(Block) /\ AllPlaced(blocks, 0, rawToBlock)'
  BY <1>1, <1>8, <1>9
<1>12. Len(blocks') + Len(more) <= Len(rawItems) + 1
  <2>1. /\ StillCollected(item).bundles = <<>> /\ StillCollected(item).worksheets = <<>>
        /\ StillCollected(item).schema = collected.schema
    BY <1>5
  <2>2. Len(<<>>) = 0
    OBVIOUS
  <2>3. Pending(StillCollected(item)) = Len(collected.schema)
    BY <1>7, <2>1, <2>2 DEF Pending
  <2> HIDE DEF more
  <2>4. QED
    BY <1>1, <1>7, <1>8, <2>3, CollectedTyped, SMTT(30)
<1>13. WaitingSchema(more, rawToBlock', Len(blocks') + 1)
  <2>1. WaitingSchema(collected.schema, rawToBlock, Len(blocks) + 1)
    BY <1>3 DEF InterpretInv, Reading
  <2>2. /\ Len(rawToBlock') = Len(rawToBlock) + 1 /\ Len(rawToBlock) \in Nat
        /\ \A i \in 1..Len(rawToBlock) : rawToBlock'[i] = rawToBlock[i]
    BY <1>1, CollectedTyped, PlaceAdded
  <2>3. ASSUME NEW n \in 1..Len(more)
        PROVE  more[n] \in 1..Len(rawToBlock') /\ (n = 1 => rawToBlock'[more[n]] = <<Len(blocks') + 1, n>>)
    <3>1. CASE n = Len(collected.schema) + 1
      <4>1. n # 1
        BY <1>1, <3>1, CollectedTyped
      <4>2. more[n] = Len(rawToBlock) + 1
        BY <1>4, <3>1, CollectedTyped
      <4>3. QED
        BY <2>2, <4>1, <4>2
    <3>2. CASE n # Len(collected.schema) + 1
      <4>1. n \in 1..Len(collected.schema)
        BY <1>7, <3>2
      <4>2. more[n] = collected.schema[n]
        BY <1>4, <4>1, CollectedTyped
      <4>3. collected.schema[n] \in 1..Len(rawToBlock)
            /\ (n = 1 => rawToBlock[collected.schema[n]] = <<Len(blocks) + 1, n>>)
        BY <2>1, <4>1 DEF WaitingSchema
      <4>4. collected.schema[n] \in 1..Len(rawToBlock')
        BY <2>2, <4>3
      <4>5. rawToBlock'[collected.schema[n]] = rawToBlock[collected.schema[n]]
        BY <2>2, <4>3
      <4>6. QED
        BY <1>10, <4>2, <4>3, <4>4, <4>5
    <3>3. QED
      BY <3>1, <3>2
  <2>4. QED
    BY <2>3 DEF WaitingSchema
<1>14. NoneFirst'
  BY <1>3 DEF NoneFirst
<1> HIDE DEF more
<1>15. QED
  BY <1>1, <1>3, <1>6, <1>7, <1>11, <1>12, <1>13, <1>14, SchemaWaits

(* Other items leave nothing collected. *)
LEMMA OtherItem ==
    ASSUME InterpretInv, NEW item, Interpret(item), item \notin BundleItems, item # "worksheet",
           item \notin SchemaFields, collected' = StillCollected(item),
           NEW at \in Place \union {NoPlace}, rawToBlock' = Append(rawToBlock, at),
           blocks' \in Seq(Block), AllPlaced(blocks, 0, rawToBlock)',
           Len(blocks') <= Len(rawItems) + 1
    PROVE  InterpretInv'
<1>1. collected' = Nothing
  BY StillOf
<1>2. /\ Take(item) /\ display' \in Displays /\ joinable' \in BOOLEAN
      /\ firstBundle' \in 0..MaxItems /\ firstBundle' = 0
  BY InterpretedItem
<1>3. NoneFirst'
  BY <1>2 DEF NoneFirst
<1>4. QED
  BY <1>1, <1>2, <1>3, ClearedItem

(* An item that is not shown does. *)
LEMMA SilentStep ==
    ASSUME InterpretInv, NEW item, Silent(item)
    PROVE  InterpretInv'
<1>1. /\ item \in Displays \union {"blank", "comment"} /\ Interpret(item) /\ blocks' = Flushed(item)
      /\ rawToBlock' = Append(rawToBlock, NoPlace) /\ collected' = StillCollected(item)
  BY DEF Silent
<1>2. item \notin BundleItems /\ item # "worksheet" /\ item \notin SchemaFields
  BY <1>1 DEF Displays, BundleItems, SchemaFields
<1>3. /\ Flushed(item) \in Seq(Block) /\ Len(Flushed(item)) <= Len(rawItems)
      /\ Len(Flushed(item)) \in Nat
      /\ \A x \in Place \union {NoPlace} : AllPlaced(Flushed(item), 0, Append(rawToBlock, x))
  BY <1>1, FlushedAll
<1>4. blocks' \in Seq(Block) /\ AllPlaced(blocks, 0, rawToBlock)'
  BY <1>1, <1>3
<1>5. Len(blocks') <= Len(rawItems) + 1
  BY <1>1, <1>3, CollectedTyped
<1>6. QED
  BY <1>1, <1>2, <1>4, <1>5, OtherItem

(* A block with this item alone is at the place of the item. *)
LEMMA OwnBlock ==
    ASSUME NEW mode \in {"markup", "placeholder"}, NEW places \in Seq(Place \union {NoPlace}),
           NEW b \in Nat, NEW at \in Place, at = <<b, 1>>, NEW i \in Index, i = Len(places) + 1
    PROVE  Placed(Shows(mode, <<i>>), b, Append(places, at))
<1> DEFINE only == <<i>>
<1>1. /\ only \in Seq(Index) /\ Len(only) = 1 /\ only[1] = i
  OBVIOUS
<1> HIDE DEF only
<1>2. /\ Shows(mode, only).mode = mode /\ Shows(mode, only).items = only
  BY DEF Shows
<1>3. /\ Append(places, at)[i] = at /\ i \in 1..Len(Append(places, at))
  BY PlaceAdded
<1>4. IsAt(mode, b, 1, at) /\ mode # "table"
  BY DEF IsAt
<1> DEFINE block == Shows(mode, only)
<1>5. block.mode = mode /\ Len(block.items) = 1 /\ block.items[1] = i
  BY <1>1, <1>2
<1> HIDE DEF block
<1>6. Placed(block, b, Append(places, at))
  BY <1>3, <1>4, <1>5 DEF Placed, Aligned
<1>7. QED
  BY <1>6 DEF block, only

(* Another block of its own. *)
LEMMA ShownItem ==
    ASSUME InterpretInv, NEW item, Interpret(item), NEW mode \in {"markup", "placeholder"}
    PROVE  LET more == Append(Flushed(item), Shows(mode, <<Here>>))
               at == <<Len(more), 1>>
           IN  /\ more \in Seq(Block) /\ Len(more) <= Len(rawItems) + 1 /\ at \in Place
               /\ AllPlaced(more, 0, Append(rawToBlock, at))
<1> DEFINE block == Shows(mode, <<Here>>)
           more == Append(Flushed(item), block)
           at == <<Len(more), 1>>
<1>1. /\ Flushed(item) \in Seq(Block) /\ Len(Flushed(item)) <= Len(rawItems)
      /\ Len(Flushed(item)) \in Nat /\ <<Len(Flushed(item)) + 1, 1>> \in Place
      /\ \A x \in Place \union {NoPlace} : AllPlaced(Flushed(item), 0, Append(rawToBlock, x))
  BY FlushedAll
<1>2. Here \in Index /\ Here = Len(rawToBlock) + 1
  BY InterpretedItem, TakenItem
<1>3. block \in Block
  <2>1. <<Here>> \in Seq(Index)
    BY <1>2
  <2>2. QED
    BY <2>1, PlainBlock
<1> HIDE DEF block
<1>4. more \in Seq(Block) /\ Len(more) = Len(Flushed(item)) + 1
  BY <1>1, <1>3
<1>5. Len(more) <= Len(rawItems) + 1
  BY <1>1, <1>4, CollectedTyped
<1>6. at \in Place
  BY <1>1, <1>4
<1>7. Placed(block, Len(Flushed(item)) + 1, Append(rawToBlock, at))
  <2>1. Len(more) \in Nat
    BY <1>1, <1>4
  <2>2. Placed(Shows(mode, <<Here>>), Len(more), Append(rawToBlock, at))
    BY <1>2, <1>6, <2>1, CollectedTyped, OwnBlock
  <2>3. QED
    BY <1>4, <2>2 DEF block
<1>8. AllPlaced(more, 0, Append(rawToBlock, at))
  BY <1>1, <1>3, <1>6, <1>7, AllPlacedAppend
<1>9. QED
  BY <1>4, <1>5, <1>6, <1>8 DEF block

(* A search does. *)
LEMMA SearchStep ==
    ASSUME InterpretInv, NEW item, Search(item)
    PROVE  InterpretInv'
<1>1. /\ item \in {"search", "wsearch"} /\ Interpret(item)
      /\ blocks' = Append(Flushed(item), Shows("placeholder", <<Here>>))
      /\ rawToBlock' = Append(rawToBlock, <<Len(blocks'), 1>>)
      /\ collected' = StillCollected(item)
  BY DEF Search
<1>2. item \notin BundleItems /\ item # "worksheet" /\ item \notin SchemaFields
  BY <1>1 DEF BundleItems, SchemaFields
<1>3. /\ blocks' \in Seq(Block) /\ Len(blocks') <= Len(rawItems) + 1 /\ <<Len(blocks'), 1>> \in Place
      /\ AllPlaced(blocks, 0, rawToBlock)'
  BY <1>1, ShownItem
<1>4. QED
  BY <1>1, <1>2, <1>3, OtherItem

(* A paragraph joined to a block. *)
LEMMA JoinedBlock ==
    ASSUME NEW block \in Block, NEW i \in Index
    PROVE  /\ [block EXCEPT !.items = Append(@, i)] \in Block
           /\ [block EXCEPT !.items = Append(@, i)].mode = block.mode
           /\ [block EXCEPT !.items = Append(@, i)].error = block.error
           /\ [block EXCEPT !.items = Append(@, i)].items = Append(block.items, i)
BY SMTT(30) DEF Block

(* One block instead of another. *)
LEMMA BlockReplaced ==
    ASSUME NEW some \in Seq(Block), NEW b \in 1..Len(some), NEW block \in Block
    PROVE  /\ [some EXCEPT ![b] = block] \in Seq(Block)
           /\ Len([some EXCEPT ![b] = block]) = Len(some)
BY ExceptSeq

(* The joined paragraph is at the place of the block. *)
LEMMA JoinedPlaced ==
    ASSUME NEW block, block.items \in Seq(Index), block.mode = "markup", NEW joined,
           joined.mode = block.mode, joined.error = block.error,
           NEW i \in Index, joined.items = Append(block.items, i),
           NEW places \in Seq(Place \union {NoPlace}), i \in 1..Len(places),
           NEW b, places[i] = <<b, 1>>, Placed(block, b, places)
    PROVE  Placed(joined, b, places)
<1>1. ASSUME NEW n \in 1..Len(joined.items)
      PROVE  \/ joined.items[n] = i
             \/ n \in 1..Len(block.items) /\ joined.items[n] = block.items[n]
  BY <1>1
<1>2. \A n \in 1..Len(joined.items) : joined.items[n] \in 1..Len(places)
  BY <1>1 DEF Placed
<1>3. ASSUME ~joined.error, NEW n \in 1..Len(joined.items)
      PROVE  IsAt(joined.mode, b, n, places[joined.items[n]])
  <2>1. places[joined.items[n]] = <<b, 1>>
    <3>1. ~block.error
      BY <1>3
    <3>2. ASSUME n \in 1..Len(block.items) PROVE places[block.items[n]] = <<b, 1>>
      <4>1. IsAt(block.mode, b, n, places[block.items[n]])
        BY <3>1, <3>2 DEF Placed, Aligned
      <4>2. QED
        BY <4>1 DEF IsAt
    <3>3. QED
      BY <1>1, <3>2
  <2>2. QED
    BY <2>1 DEF IsAt
<1>4. joined.mode # "table"
  OBVIOUS
<1>5. Aligned(joined, b, places)
  BY <1>3, <1>4 DEF Aligned
<1>6. QED
  BY <1>2, <1>5 DEF Placed

(* An error appended. *)
LEMMA ErrorAppended ==
    ASSUME InterpretInv, NEW item, Take(item), NEW before \in Seq(Block), Len(before) <= Len(rawItems),
           \A x \in Place \union {NoPlace} : AllPlaced(before, 0, Append(rawToBlock, x)),
           <<Len(before) + 1, 1>> \in Place,
           blocks' = Append(before, Error(Here)), rawToBlock' = Append(rawToBlock, <<Len(blocks'), 1>>)
    PROVE  /\ blocks' \in Seq(Block) /\ Len(blocks') <= Len(rawItems) + 1
           /\ <<Len(blocks'), 1>> \in Place /\ AllPlaced(blocks, 0, rawToBlock)'
<1>1. Here \in Index /\ Here = Len(rawToBlock) + 1
  BY TakenItem
<1>2. Error(Here) \in Block
  BY <1>1, ErrorBlock
<1>3. blocks' \in Seq(Block) /\ Len(blocks') = Len(before) + 1 /\ Len(before) \in Nat
  BY <1>2
<1>4. <<Len(blocks'), 1>> \in Place
  BY <1>3
<1>5. Len(rawToBlock') = Len(rawToBlock) + 1
  BY <1>4, CollectedTyped, PlaceAdded
<1>6. Here \in 1..Len(rawToBlock')
  BY <1>1, <1>5, CollectedTyped
<1>7. Placed(Error(Here), Len(before) + 1, rawToBlock')
  BY <1>1, <1>6, ErrorPlaced
<1>8. AllPlaced(before, 0, rawToBlock')
  BY <1>4
<1>9. AllPlaced(blocks, 0, rawToBlock)'
  BY <1>2, <1>7, <1>8, AllPlacedAppend
<1>10. Len(blocks') <= Len(rawItems) + 1
  BY <1>3, CollectedTyped
<1>11. QED
  BY <1>3, <1>4, <1>9, <1>10

(* A paragraph does. *)
LEMMA TextStep ==
    ASSUME InterpretInv, NEW item, Text(item)
    PROVE  InterpretInv'
<1> DEFINE before == Flushed(item)
<1>1. /\ item = "text" /\ Interpret(item)
      /\ blocks' = IF joinable /\ before # <<>> /\ Last(before).mode = "markup"
                     THEN [before EXCEPT ![Len(before)].items = Append(@, Here)]
                     ELSE Append(before, Shows("markup", <<Here>>))
      /\ rawToBlock' = Append(rawToBlock, <<Len(blocks'), 1>>)
      /\ collected' = StillCollected(item)
  BY DEF Text
<1>2. item \notin BundleItems /\ item # "worksheet" /\ item \notin SchemaFields
  BY <1>1 DEF BundleItems, SchemaFields
<1>3. CASE ~(joinable /\ before # <<>> /\ Last(before).mode = "markup")
  <2>1. blocks' = Append(Flushed(item), Shows("markup", <<Here>>))
    BY <1>1, <1>3
  <2>2. /\ blocks' \in Seq(Block) /\ Len(blocks') <= Len(rawItems) + 1 /\ <<Len(blocks'), 1>> \in Place
        /\ AllPlaced(blocks, 0, rawToBlock)'
    BY <1>1, <2>1, ShownItem
  <2>3. QED
    BY <1>1, <1>2, <2>2, OtherItem
<1>4. CASE joinable /\ before # <<>> /\ Last(before).mode = "markup"
  <2> DEFINE last == Len(before)
             joined == [before[last] EXCEPT !.items = Append(@, Here)]
             at == <<last, 1>>
  <2>1. blocks' = [before EXCEPT ![last] = joined]
    BY <1>1, <1>4
  <2>2. /\ before \in Seq(Block) /\ Len(before) <= Len(rawItems) /\ Len(before) \in Nat
        /\ \A x \in Place \union {NoPlace} : AllPlaced(before, 0, Append(rawToBlock, x))
        /\ Len(before) # 0 => <<Len(before), 1>> \in Place
    BY <1>1, FlushedAll
  <2>3. Here \in Index /\ Here = Len(rawToBlock) + 1
    BY <1>1, InterpretedItem, TakenItem
  <2>4. before[last].mode = "markup" /\ last \in 1..Len(before) /\ last # 0
    BY <1>4, <2>2 DEF Last
  <2> HIDE DEF before
  <2>5. /\ before[last] \in Block /\ before[last].items \in Seq(Index)
    <3>1. before[last] \in Block
      BY <2>2, <2>4
    <3>2. QED
      BY <3>1 DEF Block
  <2>6. /\ joined \in Block /\ joined.mode = before[last].mode /\ joined.error = before[last].error
        /\ joined.items = Append(before[last].items, Here)
    <3> DEFINE block == before[last]
    <3>1. block \in Block
      BY <2>5
    <3> HIDE DEF block
    <3>2. /\ [block EXCEPT !.items = Append(@, Here)] \in Block
          /\ [block EXCEPT !.items = Append(@, Here)].mode = block.mode
          /\ [block EXCEPT !.items = Append(@, Here)].error = block.error
          /\ [block EXCEPT !.items = Append(@, Here)].items = Append(block.items, Here)
      BY <2>3, <3>1, JoinedBlock
    <3>3. QED
      BY <3>2 DEF block
  <2>7. blocks' \in Seq(Block) /\ Len(blocks') = Len(before)
    <3> HIDE DEF joined
    <3>1. last \in 1..Len(before) /\ joined \in Block
      BY <2>4, <2>6
    <3>2. QED
      BY <2>1, <2>2, <3>1, BlockReplaced
  <2>8. at \in Place
    BY <2>2, <2>4
  <2>9. rawToBlock' = Append(rawToBlock, at)
    BY <1>1, <2>7
  <2>10. /\ rawToBlock'[Here] = at /\ Here \in 1..Len(rawToBlock')
         /\ rawToBlock' \in Seq(Place \union {NoPlace})
    <3>1. /\ rawToBlock'[Len(rawToBlock) + 1] = at /\ Len(rawToBlock') = Len(rawToBlock) + 1
          /\ rawToBlock' \in Seq(Place \union {NoPlace})
      BY <2>8, <2>9, CollectedTyped, PlaceAdded
    <3>2. Len(rawToBlock) + 1 \in 1..Len(rawToBlock) + 1
      BY CollectedTyped
    <3>3. QED
      BY <2>3, <3>1, <3>2
  <2> HIDE DEF joined
  <2>11. ASSUME NEW b \in 1..Len(blocks') PROVE Placed(blocks'[b], 0 + b, rawToBlock')
    <3>1. AllPlaced(before, 0, rawToBlock')
      BY <2>2, <2>8, <2>9
    <3>2. b \in 1..Len(before) /\ Placed(before[b], 0 + b, rawToBlock') /\ 0 + b = b
      BY <2>7, <3>1 DEF AllPlaced
    <3>3. CASE b # last
      <4>1. blocks'[b] = before[b]
        BY <2>1, <2>2, <3>2, <3>3
      <4>2. QED
        BY <3>2, <4>1
    <3>4. CASE b = last
      <4>1. blocks'[b] = joined
        BY <2>1, <2>2, <3>2, <3>4
      <4>2. Placed(joined, last, rawToBlock')
        <5>1. Placed(before[last], last, rawToBlock')
          BY <3>2, <3>4
        <5>2. QED
          BY <2>3, <2>4, <2>5, <2>6, <2>10, <5>1, JoinedPlaced
      <4>3. QED
        BY <3>2, <3>4, <4>1, <4>2
    <3>5. QED
      BY <3>3, <3>4
  <2>12. AllPlaced(blocks, 0, rawToBlock)'
    BY <2>11 DEF AllPlaced
  <2>13. Len(blocks') <= Len(rawItems) + 1
    BY <2>2, <2>7, CollectedTyped
  <2> HIDE DEF at
  <2>14. QED
    BY <1>1, <1>2, <2>7, <2>8, <2>9, <2>12, <2>13, OtherItem
<1>5. QED
  BY <1>3, <1>4

(* Nothing is collected after an error. *)
LEMMA SenselessStep ==
    ASSUME InterpretInv, NEW item, Senseless(item)
    PROVE  InterpretInv'
<1> DEFINE before == Flushed(item)
<1>1. /\ item \in {"unknown", "addschema undefined", "add"} /\ Interpret(item)
      /\ blocks' = Append(before, Error(Here))
      /\ rawToBlock' = Append(rawToBlock, <<Len(blocks'), 1>>)
      /\ collected' = Nothing
  BY DEF Senseless
<1>2. item \notin BundleItems
  BY <1>1 DEF BundleItems
<1>3. /\ Take(item) /\ display' \in Displays /\ joinable' \in BOOLEAN
      /\ firstBundle' \in 0..MaxItems /\ firstBundle' = 0
  BY <1>1, <1>2, InterpretedItem
<1>4. /\ before \in Seq(Block) /\ Len(before) <= Len(rawItems) /\ Len(before) \in Nat
      /\ \A x \in Place \union {NoPlace} : AllPlaced(before, 0, Append(rawToBlock, x))
      /\ <<Len(before) + 1, 1>> \in Place
  BY <1>1, FlushedAll
<1>5. NoneFirst'
  BY <1>3 DEF NoneFirst
<1> HIDE DEF before
<1>6. /\ blocks' \in Seq(Block) /\ Len(blocks') <= Len(rawItems) + 1 /\ <<Len(blocks'), 1>> \in Place
      /\ AllPlaced(blocks, 0, rawToBlock)'
  BY <1>1, <1>3, <1>4, ErrorAppended
<1>7. QED
  BY <1>1, <1>3, <1>5, <1>6, ClearedItem

(* A mode that is not known is an error, which keeps the invariant. *)
LEMMA NotFlushedStep ==
    ASSUME InterpretInv, NEW item, NotFlushed(item)
    PROVE  InterpretInv'
<1>1. /\ Take(item) /\ FlushFails /\ blocks' = Append(blocks, Error(Here))
      /\ rawToBlock' = Append(rawToBlock, <<Len(blocks'), 1>>) /\ collected' = Nothing
      /\ firstBundle' = firstBundle /\ display' = display
  BY DEF NotFlushed
<1>2. joinable' \in BOOLEAN
  BY DEF NotFlushed
<1>3. /\ firstBundle' \in 0..MaxItems /\ display' \in Displays /\ NoneFirst'
  BY <1>1, CollectedTyped DEF FlushFails, NoneFirst
<1>4. /\ blocks \in Seq(Block) /\ Len(blocks) \in Nat /\ AllPlaced(blocks, 0, rawToBlock)
  BY CollectedTyped DEF InterpretInv
<1>5. Len(blocks) <= Len(rawItems)
  <2>1. Len(blocks) + Pending(collected) <= Len(rawItems)
    BY <1>1, TakenItem DEF InterpretInv, Reading
  <2>2. Pending(collected) \in Nat
    BY CollectedTyped, PendingType
  <2>3. QED
    BY <2>1, <2>2, CollectedTyped
<1>6. <<Len(blocks) + 1, 1>> \in Place
  <2>1. Len(rawItems) < MaxItems
    BY <1>1, TakenItem
  <2>2. Len(blocks) + 1 \in 1..2 * MaxItems /\ 1 \in 1..MaxItems
    BY <1>4, <1>5, <2>1, CollectedTyped
  <2>3. QED
    BY <2>2 DEF Place, Index
<1>7. \A x \in Place \union {NoPlace} : AllPlaced(blocks, 0, Append(rawToBlock, x))
  BY <1>4, CollectedTyped, PlaceAdded, AllPlacedStays
<1>8. /\ blocks' \in Seq(Block) /\ Len(blocks') <= Len(rawItems) + 1 /\ <<Len(blocks'), 1>> \in Place
      /\ AllPlaced(blocks, 0, rawToBlock)'
  BY <1>1, <1>4, <1>5, <1>6, <1>7, ErrorAppended
<1>9. QED
  BY <1>1, <1>2, <1>3, <1>8, ClearedItem

-----------------------------------------------------------------------------
(* The end of the list *)

(* Natural numbers have a smallest one. *)
LEMMA SmallestIn ==
    ASSUME NEW S \in SUBSET Nat, S # {}
    PROVE  \E x \in S : \A y \in S : x <= y
<1>1. PICK x \in S : \A y \in S : ~(<<y, x>> \in OpToRel(<, Nat))
  BY WFMin, NatLessThanWellFounded
<1>2. ASSUME NEW y \in S, y < x PROVE FALSE
  <2>1. <<y, x>> \in Nat \X Nat
    OBVIOUS
  <2>2. <<y, x>>[1] < <<y, x>>[2]
    BY <1>2
  <2>3. <<y, x>> \in OpToRel(<, Nat)
    BY <2>1, <2>2 DEF OpToRel
  <2>4. QED
    BY <1>1, <2>3
<1>3. \A y \in S : x <= y
  BY <1>2
<1>4. QED
  BY <1>3

(* The place of an item that is shown nowhere is that of another, and the  *)
(* others keep theirs.                                                     *)
LEMMA ResolvedExtends ==
    ASSUME NEW places \in Seq(Place \union {NoPlace})
    PROVE  Resolved(places) \in Seq(Place \union {NoPlace}) /\ Extends(places, Resolved(places))
<1> DEFINE Shown(i) == {j \in DOMAIN places : j >= i /\ places[j] # NoPlace}
           Found(i) == IF Shown(i) = {} THEN NoPlace ELSE places[Min(Shown(i))]
<1>1. Resolved(places) = [i \in DOMAIN places |-> Found(i)]
  BY DEF Resolved
<1>2. DOMAIN places = 1..Len(places) /\ Len(places) \in Nat
  OBVIOUS
<1>3. ASSUME NEW i \in 1..Len(places), Shown(i) # {}
      PROVE  Min(Shown(i)) \in Shown(i) /\ \A j \in Shown(i) : Min(Shown(i)) <= j
  <2> DEFINE S == Shown(i)
  <2>1. S \subseteq Nat /\ S # {}
    BY <1>2, <1>3
  <2> HIDE DEF S
  <2>2. \E x \in S : \A y \in S : x <= y
    BY <2>1, SmallestIn
  <2>3. Min(S) \in S /\ \A y \in S : Min(S) <= y
    BY <2>2 DEF Min
  <2>4. QED
    BY <2>3 DEF S
<1>4. ASSUME NEW i \in 1..Len(places) PROVE Found(i) \in Place \union {NoPlace}
  <2>1. CASE Shown(i) = {}
    BY <2>1
  <2>2. CASE Shown(i) # {}
    <3>1. Min(Shown(i)) \in 1..Len(places)
      BY <1>2, <1>3, <2>2
    <3>2. Found(i) = places[Min(Shown(i))]
      BY <2>2
    <3>3. QED
      BY <3>1, <3>2
  <2>3. QED
    BY <2>1, <2>2
<1>5. ASSUME NEW i \in 1..Len(places), places[i] # NoPlace PROVE Found(i) = places[i]
  <2>1. i \in Shown(i)
    BY <1>2, <1>5
  <2>2. Min(Shown(i)) \in Shown(i) /\ Min(Shown(i)) <= i
    BY <1>3, <2>1
  <2>3. Min(Shown(i)) = i
    BY <1>2, <2>2
  <2>4. QED
    BY <2>1, <2>3
<1> HIDE DEF Found
<1>6. Resolved(places) \in Seq(Place \union {NoPlace}) /\ Len(Resolved(places)) = Len(places)
  BY <1>1, <1>2, <1>4
<1>7. QED
  BY <1>1, <1>2, <1>5, <1>6 DEF Extends

(* The map back leads to the last item of a place. *)
LEMMA MapBackTyped ==
    ASSUME NEW places \in Seq(Place \union {NoPlace})
    PROVE  /\ DOMAIN BlockToRaw(places) \subseteq Place
           /\ \A at \in DOMAIN BlockToRaw(places) : BlockToRaw(places)[at] \in Nat
<1> DEFINE S(at) == {i \in DOMAIN places : places[i] = at}
           D == ToSet(places) \ {NoPlace}
<1>1. BlockToRaw(places) = [at \in D |-> Max(S(at))]
  BY DEF BlockToRaw
<1>2. D \subseteq Place
  BY DEF ToSet
<1>3. ASSUME NEW at \in D PROVE Max(S(at)) \in Nat
  <2> DEFINE T == S(at)
  <2>1. PICK i \in DOMAIN places : places[i] = at
    BY <1>3 DEF ToSet
  <2>2. DOMAIN places = 1..Len(places) /\ Len(places) + 1 \in Nat
    OBVIOUS
  <2>3. T # {} /\ T \subseteq Nat /\ \A j \in T : j < Len(places) + 1
    BY <2>1, <2>2
  <2> HIDE DEF T
  <2>4. \E x \in T : \A y \in T : y <= x
    BY <2>2, <2>3, Greatest
  <2>5. \E x \in T : \A y \in T : x >= y
    BY <2>3, <2>4
  <2>6. Max(T) \in T
    BY <2>5 DEF Max
  <2>7. QED
    BY <2>3, <2>6 DEF T
<1>4. DOMAIN BlockToRaw(places) = D
  BY <1>1
<1> HIDE DEF D, S
<1>5. QED
  BY <1>1, <1>2, <1>3, <1>4

(* What is still collected is flushed, or replaced by an error. *)
LEMMA FlushedAtTheEnd ==
    ASSUME InterpretInv, blockToRaw = {}, ~FlushFails
    PROVE  /\ blocks \o FlushedAtEnd \in Seq(Block)
           /\ AllPlaced(blocks \o FlushedAtEnd, 0, rawToBlock)
<1>1. /\ FlushBundles(rawItems) \in Seq(Block)
      /\ AllPlaced(FlushBundles(rawItems), Len(blocks), rawToBlock)
      /\ collected.bundles = <<>> => FlushBundles(rawItems) = <<>>
  BY FlushedBundles
<1>2. /\ FlushWorksheets \in Seq(Block) /\ AllPlaced(FlushWorksheets, Len(blocks), rawToBlock)
      /\ collected.worksheets = <<>> => FlushWorksheets = <<>>
  BY FlushedWorksheets
<1>3. /\ FlushSchema \in Seq(Block) /\ AllPlaced(FlushSchema, Len(blocks), rawToBlock)
      /\ collected.schema = <<>> => FlushSchema = <<>>
  BY FlushedSchema
<1> DEFINE a == FlushBundles(rawItems)
           b == FlushWorksheets
           c == FlushSchema
           more == a \o b \o c
<1>4. FlushedAtEnd = more
  BY DEF FlushedAtEnd
<1>5. more \in Seq(Block) /\ AllPlaced(more, Len(blocks), rawToBlock)
  <2> HIDE DEF a, b, c
  <2>1. /\ a \in Seq(Block) /\ AllPlaced(a, Len(blocks), rawToBlock)
        /\ collected.bundles = <<>> => a = <<>>
    BY <1>1 DEF a
  <2>2. /\ b \in Seq(Block) /\ AllPlaced(b, Len(blocks), rawToBlock)
        /\ collected.worksheets = <<>> => b = <<>>
    BY <1>2 DEF b
  <2>3. /\ c \in Seq(Block) /\ AllPlaced(c, Len(blocks), rawToBlock)
        /\ collected.schema = <<>> => c = <<>>
    BY <1>3 DEF c
  <2>4. QED
    BY <2>1, <2>2, <2>3, OnePart
<1> HIDE DEF more
<1>6. QED
  BY <1>4, <1>5, BlocksFlushed

(* No more blocks and bundles than items. *)
LEMMA ReadUpToNow ==
    ASSUME InterpretInv, blockToRaw = {}
    PROVE  /\ Len(rawToBlock) = Len(rawItems) /\ Len(rawItems) <= MaxItems
           /\ Len(blocks) + Len(collected.bundles) <= Len(rawItems)
<1>1. /\ Len(rawToBlock) = Len(rawItems) /\ Len(rawItems) <= MaxItems
      /\ Len(blocks) + Pending(collected) <= Len(rawItems)
  BY DEF InterpretInv, Reading
<1>2. PICK m \in Nat, n \in Nat, o \in Nat :
        /\ m = Len(collected.bundles) /\ n = Len(collected.worksheets)
        /\ o = Len(collected.schema)
  BY CollectedTyped
<1>3. PICK before \in Nat, all \in Nat : before = Len(blocks) /\ all = Len(rawItems)
  BY CollectedTyped
<1>4. Pending(collected) = m + n + o
  BY <1>2 DEF Pending
<1>5. before + (m + n + o) <= all
  BY <1>1, <1>3, <1>4
<1>6. before + m <= all
  BY <1>5
<1>7. QED
  BY <1>1, <1>2, <1>3, <1>6

(* The end of the list keeps the invariant. *)
LEMMA EndStep ==
    ASSUME InterpretInv, EndOfItems
    PROVE  InterpretInv'
<1> DEFINE places == IF FlushFails THEN Append(rawToBlock, <<Len(blocks'), 1>>) ELSE rawToBlock
<1>1. /\ blockToRaw = {}
      /\ blocks' = IF FlushFails THEN Append(blocks, Error(Len(rawItems))) ELSE blocks \o FlushedAtEnd
      /\ rawToBlock' = Resolved(places) /\ blockToRaw' = {BlockToRaw(places)}
      /\ collected' = Nothing /\ rawItems' = rawItems /\ firstBundle' = firstBundle
      /\ display' = display
  BY DEF EndOfItems
<1>2. joinable' = joinable /\ joinable \in BOOLEAN
  BY DEF EndOfItems, InterpretInv, InterpretTypeOK
<1>3. /\ blocks \in Seq(Block) /\ Len(blocks) \in Nat /\ AllPlaced(blocks, 0, rawToBlock)
      /\ rawToBlock \in Seq(Place \union {NoPlace})
  BY CollectedTyped DEF InterpretInv
<1>4. /\ blocks' \in Seq(Block) /\ places \in Seq(Place \union {NoPlace})
      /\ AllPlaced(blocks', 0, places)
  <2>1. CASE ~FlushFails
    <3>1. places = rawToBlock /\ blocks' = blocks \o FlushedAtEnd
      BY <1>1, <2>1
    <3> HIDE DEF places
    <3>2. QED
      BY <1>1, <1>3, <2>1, <3>1, FlushedAtTheEnd
  <2>2. CASE FlushFails
    <3> DEFINE at == <<Len(blocks'), 1>>
    <3>1. places = Append(rawToBlock, at) /\ blocks' = Append(blocks, Error(Len(rawItems)))
      BY <1>1, <2>2
    <3>2. collected.bundles # <<>>
      BY <2>2 DEF FlushFails
    <3>3. Len(collected.bundles) \in Nat /\ Len(collected.bundles) >= 1
      BY <3>2, CollectedTyped
    <3>4. /\ Len(rawToBlock) = Len(rawItems) /\ Len(rawItems) <= MaxItems
          /\ Len(blocks) + Len(collected.bundles) <= Len(rawItems)
          /\ Len(rawItems) \in Nat /\ MaxItems \in Nat /\ Len(rawToBlock) \in Nat
      BY <1>1, CollectedTyped, ReadUpToNow
    <3>5. Len(rawItems) \in Index
      BY <1>3, <3>3, <3>4 DEF Index
    <3>6. Error(Len(rawItems)) \in Block
      BY <3>5, ErrorBlock
    <3>7. blocks' \in Seq(Block) /\ Len(blocks') = Len(blocks) + 1
      BY <1>3, <3>1, <3>6
    <3>8. at \in Place
      <4>1. Len(blocks') \in 1..2 * MaxItems /\ 1 \in 1..MaxItems
        BY <1>3, <3>3, <3>4, <3>7
      <4>2. QED
        BY <4>1 DEF Place, Index
    <3> HIDE DEF places, at
    <3>9. /\ places \in Seq(Place \union {NoPlace}) /\ Extends(rawToBlock, places)
          /\ Len(places) = Len(rawToBlock) + 1
      BY <1>3, <3>1, <3>8, PlaceAdded
    <3>10. AllPlaced(blocks, 0, places)
      BY <1>3, <3>9, AllPlacedStays
    <3>11. Len(rawItems) \in 1..Len(places)
      BY <1>3, <3>3, <3>4, <3>9
    <3>12. Placed(Error(Len(rawItems)), Len(blocks) + 1, places)
      BY <3>5, <3>11, ErrorPlaced
    <3>13. AllPlaced(Append(blocks, Error(Len(rawItems))), 0, places)
      BY <1>3, <3>6, <3>10, <3>12, AllPlacedAppend
    <3>14. QED
      BY <3>1, <3>7, <3>9, <3>13
  <2>3. QED
    BY <2>1, <2>2
<1> HIDE DEF places
<1>5. rawToBlock' \in Seq(Place \union {NoPlace}) /\ Extends(places, rawToBlock')
  BY <1>1, <1>4, ResolvedExtends
<1>6. AllPlaced(blocks, 0, rawToBlock)'
  BY <1>4, <1>5, AllPlacedStays
<1>7. InterpretTypeOK'
  <2>1. /\ rawItems' \in Seq(Items) /\ firstBundle' \in 0..MaxItems /\ display' \in Displays
    BY <1>1, CollectedTyped
  <2>2. collected' \in Collection
    BY <1>1, NothingWaits
  <2>3. \A map \in blockToRaw' : DOMAIN map \subseteq Place /\ \A at \in DOMAIN map : map[at] \in Nat
    BY <1>1, <1>4, MapBackTyped
  <2>4. QED
    BY <1>2, <1>4, <1>5, <2>1, <2>2, <2>3 DEF InterpretTypeOK
<1>8. Reading'
  BY <1>1 DEF Reading
<1>9. QED
  BY <1>6, <1>7, <1>8 DEF InterpretInv

-----------------------------------------------------------------------------
(* The invariant holds at the start. *)
LEMMA InterpretStart == InterpretInit => InterpretInv
<1> SUFFICES ASSUME InterpretInit PROVE InterpretInv
  OBVIOUS
<1>1. /\ rawItems = <<>> /\ blocks = <<>> /\ rawToBlock = <<>> /\ collected = Nothing
      /\ firstBundle = 0 /\ display = "table" /\ blockToRaw = {}
  BY DEF InterpretInit
<1>2. joinable \in BOOLEAN
  BY DEF InterpretInit
<1>3. /\ collected.bundles = <<>> /\ collected.worksheets = <<>> /\ collected.schema = <<>>
      /\ collected \in Collection
  BY <1>1 DEF Nothing, Collection
<1>4. MaxItems \in Nat /\ Len(<<>>) = 0 /\ \A S : <<>> \in Seq(S)
  BY NoPlaceAssumption
<1>5. InterpretTypeOK
  <2>1. 0 \in 0..MaxItems /\ "table" \in Displays
    BY <1>4 DEF Displays
  <2>2. QED
    BY <1>1, <1>2, <1>3, <1>4, <2>1 DEF InterpretTypeOK
<1>6. Pending(collected) = 0
  BY <1>3, <1>4 DEF Pending
<1>7. /\ Len(rawToBlock) = Len(rawItems) /\ Len(rawItems) <= MaxItems
      /\ Len(blocks) + Pending(collected) <= Len(rawItems)
  BY <1>1, <1>4, <1>6
<1>8. /\ OneKind /\ Waiting(collected.bundles, rawToBlock, Len(blocks) + 1)
      /\ Waiting(collected.worksheets, rawToBlock, Len(blocks) + 1)
      /\ WaitingSchema(collected.schema, rawToBlock, Len(blocks) + 1) /\ FirstKnown
  BY <1>1, <1>3, <1>4 DEF OneKind, Waiting, WaitingSchema, FirstKnown
<1>9. AllPlaced(blocks, 0, rawToBlock)
  BY <1>1, <1>4 DEF AllPlaced
<1>10. QED
  BY <1>5, <1>7, <1>8, <1>9 DEF InterpretInv, Reading

(* It holds when nothing changes. *)
LEMMA InterpretStutter ==
    ASSUME InterpretInv, UNCHANGED interpretVars
    PROVE  InterpretInv'
<1>1. /\ rawItems' = rawItems /\ blocks' = blocks /\ rawToBlock' = rawToBlock
      /\ collected' = collected /\ firstBundle' = firstBundle /\ display' = display
      /\ blockToRaw' = blockToRaw
  BY DEF interpretVars
<1>2. joinable' = joinable
  BY DEF interpretVars
<1>3. InterpretTypeOK'
  BY <1>1, <1>2 DEF InterpretInv, InterpretTypeOK
<1>4. Reading'
  BY <1>1 DEF InterpretInv, Reading, OneKind, FirstKnown, Waiting, WaitingSchema
<1>5. AllPlaced(blocks, 0, rawToBlock)'
  BY <1>1 DEF InterpretInv
<1>6. QED
  BY <1>3, <1>4, <1>5 DEF InterpretInv

(* Every step keeps it. *)
LEMMA InterpretStep == InterpretInv /\ [InterpretNext]_interpretVars => InterpretInv'
<1> SUFFICES ASSUME InterpretInv, [InterpretNext]_interpretVars PROVE InterpretInv'
  OBVIOUS
<1>1. ASSUME NEW item \in Items, Bundle(item) PROVE InterpretInv'
  BY <1>1, BundleStep
<1>2. ASSUME NEW item \in Items, Subworksheet(item) PROVE InterpretInv'
  BY <1>2, SubworksheetStep
<1>3. ASSUME NEW item \in Items, Text(item) PROVE InterpretInv'
  BY <1>3, TextStep
<1>4. ASSUME NEW item \in Items, Silent(item) PROVE InterpretInv'
  BY <1>4, SilentStep
<1>5. ASSUME NEW item \in Items, Schema(item) PROVE InterpretInv'
  BY <1>5, SchemaStep
<1>6. ASSUME NEW item \in Items, Add(item) PROVE InterpretInv'
  BY <1>6, FieldStep
<1>7. ASSUME NEW item \in Items, Search(item) PROVE InterpretInv'
  BY <1>7, SearchStep
<1>8. ASSUME NEW item \in Items, Senseless(item) PROVE InterpretInv'
  BY <1>8, SenselessStep
<1>9. ASSUME NEW item \in Items, NotFlushed(item) PROVE InterpretInv'
  BY <1>9, NotFlushedStep
<1>10. CASE EndOfItems
  BY <1>10, EndStep
<1>11. CASE UNCHANGED interpretVars
  BY <1>11, InterpretStutter
<1>12. QED
  BY <1>1, <1>2, <1>3, <1>4, <1>5, <1>6, <1>7, <1>8, <1>9, <1>10, <1>11 DEF InterpretNext

(* It always holds. *)
LEMMA InterpretAlways == InterpretSpec => []InterpretInv
BY InterpretStart, InterpretStep, PTL DEF InterpretSpec

(* What the interpretation keeps is what its type says: no more blocks     *)
(* than items, and places for them.                                        *)
THEOREM InterpretTypeCorrect == InterpretSpec => []InterpretTypeOK
<1>1. InterpretInv => InterpretTypeOK
  BY DEF InterpretInv
<1>2. QED
  BY <1>1, InterpretAlways, PTL

(* interpret_items: whatever is shown is shown where raw_to_block says,    *)
(* whatever the worksheet and however long it is.                          *)
THEOREM AlwaysAligned == InterpretSpec => []AlignedWithBlocks
<1>1. InterpretInv => AlignedWithBlocks
  <2> SUFFICES ASSUME InterpretInv, NEW b \in DOMAIN blocks, ~blocks[b].error
               PROVE  /\ \A n \in DOMAIN blocks[b].items :
                           LET at == rawToBlock[blocks[b].items[n]] IN
                           CASE blocks[b].mode \in {"table", "graph", "subworksheets"} -> at = <<b, n>>
                             [] blocks[b].mode \in {"record", "contents"} -> at[1] + at[2] = b + 1
                             [] blocks[b].mode = "schema" -> n = 1 => at = <<b, 1>>
                             [] OTHER -> at = <<b, 1>>
                      /\ blocks[b].mode = "table" => blocks[b].first = blocks[b].items[1]
    BY DEF AlignedWithBlocks
  <2> DEFINE mode == blocks[b].mode
             items == blocks[b].items
  <2>1. b \in 1..Len(blocks) /\ blocks[b] \in Block /\ 0 + b = b
    BY CollectedTyped
  <2>2. /\ mode \in Displays \union {"markup", "subworksheets", "schema", "placeholder"}
        /\ items \in Seq(Index) /\ DOMAIN items = 1..Len(items)
    BY <2>1 DEF Block
  <2>3. Aligned(blocks[b], b, rawToBlock)
    BY <2>1 DEF InterpretInv, AllPlaced, Placed
  <2>4. /\ \A n \in 1..Len(items) : IsAt(mode, b, n, rawToBlock[items[n]])
        /\ mode = "table" => blocks[b].first = items[1]
    BY <2>3 DEF Aligned
  <2> HIDE DEF mode, items
  <2>5. ASSUME NEW n \in DOMAIN items
        PROVE  LET at == rawToBlock[items[n]] IN
               CASE mode \in {"table", "graph", "subworksheets"} -> at = <<b, n>>
                 [] mode \in {"record", "contents"} -> at[1] + at[2] = b + 1
                 [] mode = "schema" -> n = 1 => at = <<b, 1>>
                 [] OTHER -> at = <<b, 1>>
    <3> DEFINE at == rawToBlock[items[n]]
    <3>1. IsAt(mode, b, n, at)
      BY <2>2, <2>4
    <3> HIDE DEF at
    <3>2. CASE mode \in {"table", "graph", "subworksheets"}
      <4>1. at = <<b, n>> /\ mode \notin {"record", "contents"} /\ mode # "schema"
        BY <3>1, <3>2 DEF IsAt
      <4>2. QED
        BY <3>2, <4>1 DEF at
    <3>3. CASE mode \in {"record", "contents"}
      <4>1. /\ at[1] + at[2] = b + 1 /\ mode \notin {"table", "graph", "subworksheets"}
            /\ mode # "schema"
        BY <3>1, <3>3 DEF IsAt
      <4>2. QED
        BY <3>3, <4>1 DEF at
    <3>4. CASE mode = "schema"
      <4>1. /\ n = 1 => at = <<b, 1>>
            /\ mode \notin {"table", "graph", "subworksheets"} /\ mode \notin {"record", "contents"}
        BY <3>1, <3>4 DEF IsAt
      <4>2. QED
        BY <3>4, <4>1 DEF at
    <3>5. CASE mode \in {"markup", "placeholder", "hidden", "no such mode"}
      <4>1. /\ at = <<b, 1>> /\ mode # "schema"
            /\ mode \notin {"table", "graph", "subworksheets"} /\ mode \notin {"record", "contents"}
        BY <3>1, <3>5 DEF IsAt
      <4>2. QED
        BY <4>1 DEF at
    <3>6. \/ mode \in {"table", "graph", "subworksheets"} \/ mode \in {"record", "contents"}
          \/ mode = "schema" \/ mode \in {"markup", "placeholder", "hidden", "no such mode"}
      BY <2>2 DEF Displays
    <3>7. QED
      BY <3>2, <3>3, <3>4, <3>5, <3>6
  <2>6. QED
    BY <2>4, <2>5 DEF mode, items
<1>2. QED
  BY <1>1, InterpretAlways, PTL

-----------------------------------------------------------------------------
(* What is shown, and what stands for what is not.                         *)
(* Item i is shown in one of these blocks, or an error stands for it.      *)
ShownIn(some, i) == \E b \in 1..Len(some) : \E n \in 1..Len(some[b].items) : some[b].items[n] = i
FailedIn(some, k) == \E b \in 1..Len(some) : some[b].error /\ some[b].items[1] = k

(* What EverythingShown wants to be shown, and what it accepts instead.    *)
WantedItem(raw, i) == raw[i] \in BundleItems \union {"worksheet", "text", "schema"}

HiddenItem(raw, i) ==
    /\ raw[i] \in BundleItems
    /\ \E j \in 1..i - 1 :
         raw[j] = "hidden" /\ \A k \in j + 1..i - 1 : raw[k] \in BundleItems \union {"search"}

ExcusedItem(raw, some, i) ==
    \E k \in i..Len(raw) :
      /\ FailedIn(some, k)
      /\ \/ \A j \in i..k - 1 : raw[j] \in BundleItems
         \/ raw[i] = "schema" /\ \A j \in i + 1..k : raw[j] \in SchemaFields

(* Item i is collected, in one sequence or in one of the three.            *)
Within(s, i) == \E n \in 1..Len(s) : s[n] = i
Kept(kept, i) == Within(kept.bundles, i) \/ Within(kept.worksheets, i) \/ Within(kept.schema, i)

(* Items come in their order, and no block is empty. *)
Increasing(s) == \A m, n \in 1..Len(s) : m < n => s[m] < s[n]

Ordered(some) ==
    /\ \A b \in 1..Len(some) : Len(some[b].items) >= 1
    /\ \A b, c \in 1..Len(some) : \A m \in 1..Len(some[b].items), n \in 1..Len(some[c].items) :
         b < c \/ (b = c /\ m < n) => some[b].items[m] < some[c].items[n]

(* Blocks are of items that were read, and end where what is collected     *)
(* begins: bundles and schemas that nothing has interrupted.               *)
Drawn(raw, some, kept) ==
    /\ Ordered(some)
    /\ \A i \in Index : ShownIn(some, i) => i <= Len(raw) /\ \A k \in Index : Kept(kept, k) => i < k
    /\ Increasing(kept.bundles) /\ Increasing(kept.worksheets) /\ Increasing(kept.schema)
    /\ \A i \in Index : Kept(kept, i) => i <= Len(raw)
    /\ \A i \in Index : Within(kept.bundles, i) => \A j \in i..Len(raw) : raw[j] \in BundleItems
    /\ \A i \in Index : Within(kept.schema, i) =>
         /\ raw[i] \in {"schema", "add"}
         /\ \A j \in i + 1..Len(raw) : raw[j] \in SchemaFields

(* Each item that is wanted is shown, or will be, or has an excuse.        *)
Told(raw, some, kept) ==
    \A i \in 1..Len(raw) : WantedItem(raw, i) =>
      ShownIn(some, i) \/ HiddenItem(raw, i) \/ ExcusedItem(raw, some, i) \/ Kept(kept, i)

(* The mode is hidden since a directive that nothing has ended. *)
HiddenSince(raw) ==
    \E j \in 1..Len(raw) :
      raw[j] = "hidden" /\ \A k \in j + 1..Len(raw) : raw[k] \in BundleItems \union {"search"}

ShownInv ==
    /\ Drawn(rawItems, blocks, collected) /\ Told(rawItems, blocks, collected)
    /\ display = "hidden" => HiddenSince(rawItems)

-----------------------------------------------------------------------------
(* Blocks one after another *)

(* The items of a block are indexes. *)
LEMMA BlockItems ==
    ASSUME NEW some \in Seq(Block), NEW b \in 1..Len(some)
    PROVE  /\ some[b] \in Block /\ some[b].items \in Seq(Index) /\ Len(some[b].items) \in Nat
           /\ \A n \in 1..Len(some[b].items) : some[b].items[n] \in Index
<1>1. some[b] \in Block
  OBVIOUS
<1>2. some[b].items \in Seq(Index)
  BY <1>1 DEF Block
<1>3. QED
  BY <1>1, <1>2

(* Indexes are natural numbers. *)
LEMMA IndexType == ASSUME NEW i \in Index PROVE i \in Nat /\ i >= 1 /\ i <= MaxItems /\ MaxItems \in Nat
BY NoPlaceAssumption DEF Index

(* What is shown after more blocks. *)
LEMMA ShownConcat ==
    ASSUME NEW some \in Seq(Block), NEW more \in Seq(Block)
    PROVE  /\ \A i : ShownIn(some \o more, i) <=> ShownIn(some, i) \/ ShownIn(more, i)
           /\ \A i : FailedIn(some, i) \/ FailedIn(more, i) => FailedIn(some \o more, i)
<1> DEFINE all == some \o more
<1>1. /\ Len(some) \in Nat /\ Len(more) \in Nat /\ Len(all) = Len(some) + Len(more)
      /\ \A b \in 1..Len(some) : all[b] = some[b]
      /\ \A b \in 1..Len(more) : Len(some) + b \in 1..Len(all) /\ all[Len(some) + b] = more[b]
  OBVIOUS
<1>2. \A b \in 1..Len(all) : b \in 1..Len(some) \/ b - Len(some) \in 1..Len(more)
  BY <1>1
<1>3. \A b \in 1..Len(all) : Len(some) + (b - Len(some)) = b
  BY <1>1
<1> HIDE DEF all
<1>4. ASSUME NEW i PROVE ShownIn(all, i) <=> ShownIn(some, i) \/ ShownIn(more, i)
  <2>1. ASSUME ShownIn(all, i) PROVE ShownIn(some, i) \/ ShownIn(more, i)
    <3>1. PICK b \in 1..Len(all) : \E n \in 1..Len(all[b].items) : all[b].items[n] = i
      BY <2>1 DEF ShownIn
    <3>2. CASE b \in 1..Len(some)
      BY <1>1, <3>1, <3>2 DEF ShownIn
    <3>3. CASE b - Len(some) \in 1..Len(more)
      <4>1. all[b] = more[b - Len(some)]
        BY <1>1, <1>3, <3>3
      <4>2. QED
        BY <3>1, <3>3, <4>1 DEF ShownIn
    <3>4. QED
      BY <1>2, <3>2, <3>3
  <2>2. ASSUME ShownIn(some, i) PROVE ShownIn(all, i)
    <3>1. PICK b \in 1..Len(some) : \E n \in 1..Len(some[b].items) : some[b].items[n] = i
      BY <2>2 DEF ShownIn
    <3>2. b \in 1..Len(all) /\ all[b] = some[b]
      BY <1>1
    <3>3. QED
      BY <3>1, <3>2 DEF ShownIn
  <2>3. ASSUME ShownIn(more, i) PROVE ShownIn(all, i)
    <3>1. PICK b \in 1..Len(more) : \E n \in 1..Len(more[b].items) : more[b].items[n] = i
      BY <2>3 DEF ShownIn
    <3>2. Len(some) + b \in 1..Len(all) /\ all[Len(some) + b] = more[b]
      BY <1>1
    <3>3. QED
      BY <3>1, <3>2 DEF ShownIn
  <2>4. QED
    BY <2>1, <2>2, <2>3
<1>5. ASSUME NEW i, FailedIn(some, i) PROVE FailedIn(all, i)
  <2>1. PICK b \in 1..Len(some) : some[b].error /\ some[b].items[1] = i
    BY <1>5 DEF FailedIn
  <2>2. b \in 1..Len(all) /\ all[b] = some[b]
    BY <1>1
  <2>3. QED
    BY <2>1, <2>2 DEF FailedIn
<1>6. ASSUME NEW i, FailedIn(more, i) PROVE FailedIn(all, i)
  <2>1. PICK b \in 1..Len(more) : more[b].error /\ more[b].items[1] = i
    BY <1>6 DEF FailedIn
  <2>2. Len(some) + b \in 1..Len(all) /\ all[Len(some) + b] = more[b]
    BY <1>1
  <2>3. QED
    BY <2>1, <2>2 DEF FailedIn
<1>7. QED
  BY <1>4, <1>5, <1>6 DEF all

(* Blocks in order stay so when those that follow show later items. *)
LEMMA OrderedConcat ==
    ASSUME NEW some \in Seq(Block), NEW more \in Seq(Block), Ordered(some), Ordered(more),
           \A i, k \in Index : ShownIn(some, i) /\ ShownIn(more, k) => i < k
    PROVE  Ordered(some \o more)
<1> DEFINE all == some \o more
<1>1. /\ Len(some) \in Nat /\ Len(more) \in Nat /\ Len(all) = Len(some) + Len(more)
      /\ \A b \in 1..Len(some) : all[b] = some[b]
      /\ \A b \in 1..Len(more) : all[Len(some) + b] = more[b]
  OBVIOUS
<1>2. ASSUME NEW b \in 1..Len(all), b \notin 1..Len(some)
      PROVE  b - Len(some) \in 1..Len(more) /\ all[b] = more[b - Len(some)]
  <2>1. b - Len(some) \in 1..Len(more) /\ Len(some) + (b - Len(some)) = b
    BY <1>1, <1>2
  <2>2. QED
    BY <1>1, <2>1
<1> HIDE DEF all
<1>3. ASSUME NEW b \in 1..Len(all) PROVE Len(all[b].items) >= 1
  <2>1. CASE b \in 1..Len(some)
    BY <1>1, <2>1 DEF Ordered
  <2>2. CASE b \notin 1..Len(some)
    BY <1>2, <2>2 DEF Ordered
  <2>3. QED
    BY <2>1, <2>2
<1>4. ASSUME NEW b \in 1..Len(all), NEW c \in 1..Len(all), NEW m \in 1..Len(all[b].items),
             NEW n \in 1..Len(all[c].items), b < c \/ (b = c /\ m < n)
      PROVE  all[b].items[m] < all[c].items[n]
  <2>1. CASE b \in 1..Len(some) /\ c \in 1..Len(some)
    BY <1>1, <1>4, <2>1 DEF Ordered
  <2>2. CASE b \notin 1..Len(some) /\ c \notin 1..Len(some)
    <3> DEFINE d == b - Len(some)
               e == c - Len(some)
    <3>1. d \in 1..Len(more) /\ e \in 1..Len(more) /\ all[b] = more[d] /\ all[c] = more[e]
      BY <1>2, <2>2
    <3>2. d < e \/ (d = e /\ m < n)
      BY <1>1, <1>4
    <3> HIDE DEF d, e
    <3>3. m \in 1..Len(more[d].items) /\ n \in 1..Len(more[e].items)
      BY <3>1
    <3>4. more[d].items[m] < more[e].items[n]
      BY <3>1, <3>2, <3>3 DEF Ordered
    <3>5. QED
      BY <3>1, <3>4
  <2>3. CASE b \in 1..Len(some) /\ c \notin 1..Len(some)
    <3>1. /\ all[b] = some[b] /\ c - Len(some) \in 1..Len(more)
          /\ all[c] = more[c - Len(some)]
      BY <1>1, <1>2, <2>3
    <3>2. /\ m \in 1..Len(some[b].items) /\ n \in 1..Len(more[c - Len(some)].items)
          /\ ShownIn(some, all[b].items[m]) /\ ShownIn(more, all[c].items[n])
      BY <2>3, <3>1 DEF ShownIn
    <3>3. all[b].items[m] \in Index /\ all[c].items[n] \in Index
      BY <2>3, <3>1, <3>2, BlockItems
    <3>4. QED
      BY <3>2, <3>3
  <2>4. CASE b \notin 1..Len(some) /\ c \in 1..Len(some)
    BY <1>1, <1>4, <2>4
  <2>5. QED
    BY <2>1, <2>2, <2>3, <2>4
<1>5. QED
  BY <1>3, <1>4 DEF Ordered, all

(* Blocks that show what was collected, in its order. *)
Displayed(more, s) ==
    /\ more \in Seq(Block) /\ Ordered(more)
    /\ \A i : ShownIn(more, i) <=> Within(s, i)

(* Nothing shows nothing. *)
LEMMA NoBlock == Displayed(<<>>, <<>>)
<1>1. Len(<<>>) = 0 /\ <<>> \in Seq(Block)
  OBVIOUS
<1>2. QED
  BY <1>1 DEF Displayed, Ordered, ShownIn, Within

(* One block shows its items. *)
LEMMA OneBlock ==
    ASSUME NEW block \in Block, Increasing(block.items), block.items # <<>>
    PROVE  Displayed(<<block>>, block.items)
<1>1. Len(<<block>>) = 1 /\ <<block>>[1] = block /\ <<block>> \in Seq(Block)
  OBVIOUS
<1>2. block.items \in Seq(Index)
  BY DEF Block
<1>3. Len(block.items) >= 1
  BY <1>2
<1>4. Ordered(<<block>>)
  <2>1. \A b \in 1..Len(<<block>>) : b = 1 /\ <<block>>[b] = block
    BY <1>1
  <2>2. \A m, n \in 1..Len(block.items) : m < n => block.items[m] < block.items[n]
    BY DEF Increasing
  <2>3. QED
    BY <1>3, <2>1, <2>2 DEF Ordered
<1>5. ASSUME NEW i PROVE ShownIn(<<block>>, i) <=> Within(block.items, i)
  BY <1>1 DEF ShownIn, Within
<1>6. QED
  BY <1>1, <1>4, <1>5 DEF Displayed

(* A block for each item shows them. *)
LEMMA EachBlock ==
    ASSUME NEW s \in Seq(Index), Increasing(s), NEW more \in Seq(Block), Len(more) = Len(s),
           \A b \in 1..Len(s) : more[b].items = <<s[b]>>
    PROVE  Displayed(more, s)
<1>1. ASSUME NEW b \in 1..Len(more)
      PROVE  /\ Len(more[b].items) = 1 /\ more[b].items[1] = s[b]
             /\ 1..Len(more[b].items) = {1}
  <2>1. more[b].items = <<s[b]>> /\ s[b] \in Index
    OBVIOUS
  <2>2. \A x : Len(<<x>>) = 1 /\ <<x>>[1] = x
    OBVIOUS
  <2>3. 1..1 = {1}
    OBVIOUS
  <2>4. QED
    BY <2>1, <2>2, <2>3
<1>2. Ordered(more)
  <2>1. \A b \in 1..Len(more) : Len(more[b].items) >= 1
    BY <1>1
  <2>2. ASSUME NEW b \in 1..Len(more), NEW c \in 1..Len(more), NEW m \in 1..Len(more[b].items),
               NEW n \in 1..Len(more[c].items), b < c \/ (b = c /\ m < n)
        PROVE  more[b].items[m] < more[c].items[n]
    <3>1. m = 1 /\ n = 1
      BY <1>1
    <3>2. b < c
      BY <2>2, <3>1
    <3>3. s[b] < s[c]
      BY <3>2 DEF Increasing
    <3>4. QED
      BY <1>1, <3>1, <3>3
  <2>3. QED
    BY <2>1, <2>2 DEF Ordered
<1>3. ASSUME NEW i PROVE ShownIn(more, i) <=> Within(s, i)
  <2>1. ASSUME ShownIn(more, i) PROVE Within(s, i)
    <3>1. PICK b \in 1..Len(more) : \E n \in 1..Len(more[b].items) : more[b].items[n] = i
      BY <2>1 DEF ShownIn
    <3>2. PICK n \in 1..Len(more[b].items) : more[b].items[n] = i
      BY <3>1
    <3>3. n = 1
      BY <1>1
    <3>4. QED
      BY <1>1, <3>2, <3>3 DEF Within
  <2>2. ASSUME Within(s, i) PROVE ShownIn(more, i)
    <3>1. PICK b \in 1..Len(s) : s[b] = i
      BY <2>2 DEF Within
    <3>2. 1 \in 1..Len(more[b].items) /\ more[b].items[1] = i
      BY <1>1, <3>1
    <3>3. QED
      BY <3>2 DEF ShownIn
  <2>3. QED
    BY <2>1, <2>2
<1>4. QED
  BY <1>2, <1>3 DEF Displayed

-----------------------------------------------------------------------------
(* What is flushed is shown *)

(* Bundles are shown in the order in which they were collected, unless     *)
(* they are hidden. *)
LEMMA BundlesShown ==
    ASSUME InterpretInv, blockToRaw = {}, ~FlushFails, collected.bundles # <<>>,
           display # "hidden", Increasing(collected.bundles)
    PROVE  Displayed(FlushBundles(rawItems), collected.bundles)
<1> DEFINE bundles == collected.bundles
<1>1. display \in {"table", "graph", "record", "contents"}
  BY CollectedTyped DEF FlushFails, Displays
<1>2. bundles \in Seq(Index) /\ FlushBundles(rawItems) \in Seq(Block)
  BY CollectedTyped, FlushedBundles
<1>3. CASE display = "table"
  <2> DEFINE block == [Shows("table", bundles) EXCEPT !.first = firstBundle]
  <2>1. FlushBundles(rawItems) = <<block>>
    BY <1>3 DEF FlushBundles
  <2>2. block \in Block /\ block.items = bundles
    <3>1. "table" \in Displays \union {"markup", "subworksheets", "schema", "placeholder"}
      BY DEF Displays
    <3>2. QED
      BY <1>2, <3>1, CollectedTyped, ShownBlock
  <2> HIDE DEF block
  <2>3. QED
    BY <2>1, <2>2, OneBlock
<1>4. CASE display = "graph"
  <2> DEFINE block == Shows("graph", bundles)
  <2>1. FlushBundles(rawItems) = <<block>>
    BY <1>4 DEF FlushBundles
  <2>2. block \in Block /\ block.items = bundles
    BY <1>2, PlainBlock DEF Displays
  <2> HIDE DEF block
  <2>3. QED
    BY <2>1, <2>2, OneBlock
<1>5. CASE display \in {"record", "contents"}
  <2> DEFINE flushed == [n \in DOMAIN bundles |-> OneBundle(display, rawItems[bundles[n]], bundles[n])]
  <2>1. FlushBundles(rawItems) = flushed
    BY <1>5 DEF FlushBundles
  <2>2. DOMAIN bundles = 1..Len(bundles) /\ Len(bundles) \in Nat
    BY <1>2
  <2>3. \A n \in 1..Len(bundles) : flushed[n] = OneBundle(display, rawItems[bundles[n]], bundles[n])
    BY <2>2
  <2>4. DOMAIN flushed = 1..Len(bundles)
    BY <2>2
  <2> HIDE DEF flushed
  <2>5. flushed \in Seq(Block) /\ Len(flushed) = Len(bundles)
    BY <1>2, <2>1, <2>2, <2>4
  <2>6. ASSUME NEW n \in 1..Len(bundles) PROVE flushed[n].items = <<bundles[n]>>
    <3> DEFINE i == bundles[n]
               item == rawItems[i]
               only == <<i>>
    <3>1. OneBundle(display, item, i).items = only
      <4> HIDE DEF i, item, only
      <4>1. CASE display = "contents" /\ item = "inaccessible bundle"
        BY <4>1 DEF OneBundle, Error, only
      <4>2. CASE ~(display = "contents" /\ item = "inaccessible bundle")
        BY <4>2 DEF OneBundle, Shows, only
      <4>3. QED
        BY <4>1, <4>2
    <3>2. QED
      BY <2>3, <3>1
  <2>7. QED
    BY <1>2, <2>1, <2>5, <2>6, EachBlock
<1>6. QED
  BY <1>1, <1>3, <1>4, <1>5

(* So are worksheets and schemas. *)
LEMMA WorksheetsShown ==
    ASSUME InterpretInv, collected.worksheets # <<>>, Increasing(collected.worksheets)
    PROVE  Displayed(FlushWorksheets, collected.worksheets)
<1> DEFINE block == Shows("subworksheets", collected.worksheets)
<1>1. FlushWorksheets = <<block>>
  BY DEF FlushWorksheets
<1>2. block \in Block /\ block.items = collected.worksheets
  BY CollectedTyped, PlainBlock
<1> HIDE DEF block
<1>3. QED
  BY <1>1, <1>2, OneBlock

LEMMA SchemaShown ==
    ASSUME InterpretInv, collected.schema # <<>>, Increasing(collected.schema)
    PROVE  Displayed(FlushSchema, collected.schema)
<1> DEFINE block == Shows("schema", collected.schema)
<1>1. FlushSchema = <<block>>
  BY DEF FlushSchema
<1>2. block \in Block /\ block.items = collected.schema
  BY CollectedTyped, PlainBlock
<1> HIDE DEF block
<1>3. QED
  BY <1>1, <1>2, OneBlock

(* What a flush may do: nothing; forget what is hidden; show what was      *)
(* collected, and collect anew.                                            *)
Flushes(now, kept) ==
    \/ now = blocks /\ kept = collected
    \/ /\ now = blocks /\ kept = Nothing /\ display = "hidden"
       /\ collected.worksheets = <<>> /\ collected.schema = <<>>
    \/ /\ kept = Nothing
       /\ \E more \in Seq(Block), s \in Seq(Index) :
            /\ now = blocks \o more /\ Displayed(more, s)
            /\ \A i : Kept(collected, i) <=> Within(s, i)

(* One part of what is flushed, the others being empty. *)
LEMMA PartAlone ==
    ASSUME NEW some \in Seq(Block)
    PROVE  /\ some \o <<>> = some
           /\ some \o <<>> \o <<>> = some /\ <<>> \o some \o <<>> = some
           /\ <<>> \o <<>> \o some = some
OBVIOUS

(* Only one sequence is not empty. *)
LEMMA KeptAlone ==
    ASSUME NEW kept \in Collection
    PROVE  /\ ~\E i : Within(<<>>, i)
           /\ kept = [bundles |-> kept.bundles, worksheets |-> kept.worksheets, schema |-> kept.schema]
           /\ kept.bundles = <<>> /\ kept.worksheets = <<>> /\ kept.schema = <<>> => kept = Nothing
           /\ kept.worksheets = <<>> /\ kept.schema = <<>> =>
                \A i : Kept(kept, i) <=> Within(kept.bundles, i)
           /\ kept.bundles = <<>> /\ kept.schema = <<>> =>
                \A i : Kept(kept, i) <=> Within(kept.worksheets, i)
           /\ kept.bundles = <<>> /\ kept.worksheets = <<>> =>
                \A i : Kept(kept, i) <=> Within(kept.schema, i)
           /\ ~\E i : Kept(Nothing, i)
<1>1. ~\E i : Within(<<>>, i)
  BY DEF Within
<1>2. kept = [bundles |-> kept.bundles, worksheets |-> kept.worksheets, schema |-> kept.schema]
  BY DEF Collection
<1>3. ~\E i : Kept(Nothing, i)
  BY <1>1 DEF Kept, Nothing
<1>4. kept.bundles = <<>> /\ kept.worksheets = <<>> /\ kept.schema = <<>> => kept = Nothing
  BY <1>2 DEF Nothing
<1>5. QED
  BY <1>1, <1>2, <1>3, <1>4 DEF Kept

(* Before an item is interpreted, or at the end, one of them happens. *)
LEMMA FlushOrKeep ==
    ASSUME InterpretInv, blockToRaw = {}, NEW item, item \in BundleItems \/ ~FlushFails,
           Increasing(collected.bundles), Increasing(collected.worksheets),
           Increasing(collected.schema)
    PROVE  Flushes(Flushed(item), StillCollected(item))
<1> DEFINE a == IF item \in BundleItems THEN <<>> ELSE FlushBundles(rawItems)
           b == IF item = "worksheet" THEN <<>> ELSE FlushWorksheets
           c == IF item \in SchemaFields THEN <<>> ELSE FlushSchema
           still == StillCollected(item)
<1>1. Flushed(item) = blocks \o (a \o b \o c)
  BY DEF Flushed, FlushedBy
<1>2. /\ still.bundles = IF item \in BundleItems THEN collected.bundles ELSE <<>>
      /\ still.worksheets = IF item = "worksheet" THEN collected.worksheets ELSE <<>>
      /\ still.schema = IF item \in SchemaFields THEN collected.schema ELSE <<>>
  BY DEF StillCollected
<1>3. collected \in Collection /\ still \in Collection
  <2>1. collected \in Collection
    BY DEF InterpretInv, InterpretTypeOK
  <2>2. still \in Collection
    BY CollectedTyped DEF StillCollected, Collection
  <2>3. QED
    BY <2>1, <2>2
<1>4. /\ collected.bundles # <<>> => collected.worksheets = <<>> /\ collected.schema = <<>>
      /\ collected.worksheets # <<>> => collected.schema = <<>>
  BY DEF InterpretInv, Reading, OneKind
<1>5. blocks \in Seq(Block) /\ <<>> \in Seq(Block)
  BY CollectedTyped
<1>6. /\ collected.bundles = <<>> \/ (item \notin BundleItems /\ display = "hidden") \/ item \in BundleItems => a = <<>>
      /\ collected.worksheets = <<>> \/ item = "worksheet" => b = <<>>
      /\ collected.schema = <<>> \/ item \in SchemaFields => c = <<>>
  BY DEF FlushBundles, FlushWorksheets, FlushSchema
<1>7. /\ item \notin BundleItems => a = FlushBundles(rawItems)
      /\ item # "worksheet" => b = FlushWorksheets
      /\ item \notin SchemaFields => c = FlushSchema
  OBVIOUS
<1> HIDE DEF a, b, c, still
<1>8. CASE collected.bundles # <<>>
  <2>1. b = <<>> /\ c = <<>> /\ still.worksheets = <<>> /\ still.schema = <<>>
    BY <1>2, <1>4, <1>6, <1>8
  <2>2. CASE item \in BundleItems
    <3>1. a = <<>> /\ still.bundles = collected.bundles
      BY <1>2, <1>6, <2>2
    <3>2. still = collected
      BY <1>3, <1>4, <1>8, <2>1, <3>1, KeptAlone
    <3>3. Flushed(item) = blocks
      BY <1>1, <1>5, <2>1, <3>1, PartAlone
    <3>4. QED
      BY <3>2, <3>3 DEF Flushes, still
  <2>3. CASE item \notin BundleItems /\ display = "hidden"
    <3>1. a = <<>> /\ still.bundles = <<>>
      BY <1>2, <1>6, <2>3
    <3>2. still = Nothing
      BY <1>3, <2>1, <3>1, KeptAlone
    <3>3. Flushed(item) = blocks
      BY <1>1, <1>5, <2>1, <3>1, PartAlone
    <3>4. QED
      BY <1>4, <1>8, <2>3, <3>2, <3>3 DEF Flushes, still
  <2>4. CASE item \notin BundleItems /\ display # "hidden"
    <3>1. a = FlushBundles(rawItems) /\ still.bundles = <<>>
      BY <1>2, <1>7, <2>4
    <3>2. still = Nothing
      BY <1>3, <2>1, <3>1, KeptAlone
    <3>3. Displayed(a, collected.bundles) /\ a \in Seq(Block)
      BY <1>8, <2>4, <3>1, BundlesShown DEF Displayed
    <3>4. Flushed(item) = blocks \o a
      BY <1>1, <2>1, <3>3, PartAlone
    <3>5. \A i : Kept(collected, i) <=> Within(collected.bundles, i)
      BY <1>3, <1>4, <1>8, KeptAlone
    <3>6. collected.bundles \in Seq(Index)
      BY CollectedTyped
    <3>7. QED
      BY <3>2, <3>3, <3>4, <3>5, <3>6 DEF Flushes, still
  <2>5. QED
    BY <2>2, <2>3, <2>4
<1>9. CASE collected.bundles = <<>> /\ collected.worksheets # <<>>
  <2>1. a = <<>> /\ c = <<>> /\ still.bundles = <<>> /\ still.schema = <<>>
    BY <1>2, <1>4, <1>6, <1>9
  <2>2. CASE item = "worksheet"
    <3>1. b = <<>> /\ still.worksheets = collected.worksheets
      BY <1>2, <1>6, <2>2
    <3>2. still = collected
      BY <1>3, <1>4, <1>9, <2>1, <3>1, KeptAlone
    <3>3. Flushed(item) = blocks
      BY <1>1, <1>5, <2>1, <3>1, PartAlone
    <3>4. QED
      BY <3>2, <3>3 DEF Flushes, still
  <2>3. CASE item # "worksheet"
    <3>1. b = FlushWorksheets /\ still.worksheets = <<>>
      BY <1>2, <1>7, <2>3
    <3>2. still = Nothing
      BY <1>3, <2>1, <3>1, KeptAlone
    <3>3. Displayed(b, collected.worksheets) /\ b \in Seq(Block)
      BY <1>9, <3>1, WorksheetsShown DEF Displayed
    <3>4. Flushed(item) = blocks \o b
      BY <1>1, <2>1, <3>3, PartAlone
    <3>5. \A i : Kept(collected, i) <=> Within(collected.worksheets, i)
      BY <1>3, <1>4, <1>9, KeptAlone
    <3>6. collected.worksheets \in Seq(Index)
      BY CollectedTyped
    <3>7. QED
      BY <3>2, <3>3, <3>4, <3>5, <3>6 DEF Flushes, still
  <2>4. QED
    BY <2>2, <2>3
<1>10. CASE collected.bundles = <<>> /\ collected.worksheets = <<>>
  <2>1. a = <<>> /\ b = <<>> /\ still.bundles = <<>> /\ still.worksheets = <<>>
    BY <1>2, <1>6, <1>10
  <2>2. CASE item \in SchemaFields \/ collected.schema = <<>>
    <3>1. c = <<>> /\ still.schema = collected.schema
      BY <1>2, <1>6, <2>2
    <3>2. still = collected
      BY <1>3, <1>10, <2>1, <3>1, KeptAlone
    <3>3. Flushed(item) = blocks
      BY <1>1, <1>5, <2>1, <3>1, PartAlone
    <3>4. QED
      BY <3>2, <3>3 DEF Flushes, still
  <2>3. CASE item \notin SchemaFields /\ collected.schema # <<>>
    <3>1. c = FlushSchema /\ still.schema = <<>>
      BY <1>2, <1>7, <2>3
    <3>2. still = Nothing
      BY <1>3, <2>1, <3>1, KeptAlone
    <3>3. Displayed(c, collected.schema) /\ c \in Seq(Block)
      BY <2>3, <3>1, SchemaShown DEF Displayed
    <3>4. Flushed(item) = blocks \o c
      BY <1>1, <2>1, <3>3, PartAlone
    <3>5. \A i : Kept(collected, i) <=> Within(collected.schema, i)
      BY <1>3, <1>10, KeptAlone
    <3>6. collected.schema \in Seq(Index)
      BY CollectedTyped
    <3>7. QED
      BY <3>2, <3>3, <3>4, <3>5, <3>6 DEF Flushes, still
  <2>4. QED
    BY <2>2, <2>3
<1>11. QED
  BY <1>8, <1>9, <1>10

-----------------------------------------------------------------------------
(* What a flush does to what is told of the items *)

(* With nothing collected only the blocks count. *)
LEMMA DrawnNothing ==
    ASSUME NEW raw, NEW some, Ordered(some), \A i \in Index : ShownIn(some, i) => i <= Len(raw)
    PROVE  Drawn(raw, some, Nothing)
<1>1. /\ ~\E i : Within(<<>>, i)
      /\ ~\E i : Kept(Nothing, i)
      /\ Increasing(<<>>)
  BY DEF Within, Kept, Nothing, Increasing
<1>2. Nothing.bundles = <<>> /\ Nothing.worksheets = <<>> /\ Nothing.schema = <<>>
  BY DEF Nothing
<1>3. QED
  BY <1>1, <1>2 DEF Drawn

(* A bundle that is collected while the display is hidden is hidden. *)
LEMMA HiddenBundle ==
    ASSUME NEW raw \in Seq(Items), HiddenSince(raw), NEW i \in 1..Len(raw),
           \A j \in i..Len(raw) : raw[j] \in BundleItems
    PROVE  HiddenItem(raw, i)
<1>1. PICK j \in 1..Len(raw) :
        raw[j] = "hidden" /\ \A k \in j + 1..Len(raw) : raw[k] \in BundleItems \union {"search"}
  BY DEF HiddenSince
<1>2. Len(raw) \in Nat
  OBVIOUS
<1>3. ~(i <= j)
  <2>1. "hidden" \notin BundleItems
    BY DEF BundleItems
  <2>2. QED
    BY <1>1, <1>2, <2>1
<1>4. j \in 1..i - 1 /\ \A k \in j + 1..i - 1 : k \in j + 1..Len(raw)
  BY <1>2, <1>3
<1>5. raw[i] \in BundleItems
  BY <1>2
<1>6. QED
  BY <1>1, <1>4, <1>5 DEF HiddenItem

(* What can be told of one item. *)
Story(raw, some, kept, i) ==
    ShownIn(some, i) \/ HiddenItem(raw, i) \/ ExcusedItem(raw, some, i) \/ Kept(kept, i)

(* It stays true when more is read and shown, and nothing kept is lost.    *)
LEMMA StoryStays ==
    ASSUME NEW raw \in Seq(Items), NEW more \in Seq(Items), Len(raw) <= Len(more),
           \A i \in 1..Len(raw) : more[i] = raw[i],
           NEW some, NEW now, \A i : ShownIn(some, i) => ShownIn(now, i),
           \A i : FailedIn(some, i) => FailedIn(now, i),
           NEW kept, NEW left, NEW i \in 1..Len(raw), Story(raw, some, kept, i),
           Kept(kept, i) => Story(more, now, left, i)
    PROVE  Story(more, now, left, i)
<1>1. Len(raw) \in Nat /\ Len(more) \in Nat
  OBVIOUS
<1>2. CASE ShownIn(some, i)
  BY <1>2 DEF Story
<1>3. CASE HiddenItem(raw, i)
  <2>1. PICK j \in 1..i - 1 :
          raw[j] = "hidden" /\ \A k \in j + 1..i - 1 : raw[k] \in BundleItems \union {"search"}
    BY <1>3 DEF HiddenItem
  <2>2. raw[i] \in BundleItems
    BY <1>3 DEF HiddenItem
  <2>3. j \in 1..Len(raw) /\ \A k \in j + 1..i - 1 : k \in 1..Len(raw)
    BY <1>1
  <2>4. /\ more[i] \in BundleItems /\ more[j] = "hidden"
        /\ \A k \in j + 1..i - 1 : more[k] \in BundleItems \union {"search"}
    BY <2>1, <2>2, <2>3
  <2>5. HiddenItem(more, i)
    BY <2>4 DEF HiddenItem
  <2>6. QED
    BY <2>5 DEF Story
<1>4. CASE ExcusedItem(raw, some, i)
  <2>1. PICK k \in i..Len(raw) :
          /\ FailedIn(some, k)
          /\ \/ \A j \in i..k - 1 : raw[j] \in BundleItems
             \/ raw[i] = "schema" /\ \A j \in i + 1..k : raw[j] \in SchemaFields
    BY <1>4 DEF ExcusedItem
  <2>2. /\ k \in i..Len(more) /\ FailedIn(now, k)
        /\ \A j \in i..k - 1 : j \in 1..Len(raw)
        /\ \A j \in i + 1..k : j \in 1..Len(raw)
    BY <1>1, <2>1
  <2>3. \/ \A j \in i..k - 1 : more[j] \in BundleItems
        \/ more[i] = "schema" /\ \A j \in i + 1..k : more[j] \in SchemaFields
    BY <2>1, <2>2
  <2>4. ExcusedItem(more, now, i)
    BY <2>2, <2>3 DEF ExcusedItem
  <2>5. QED
    BY <2>4 DEF Story
<1>5. CASE Kept(kept, i)
  BY <1>5
<1>6. QED
  BY <1>2, <1>3, <1>4, <1>5 DEF Story

(* What is told before a flush can be told after it. *)
LEMMA FlushTold ==
    ASSUME InterpretInv, ShownInv, NEW now \in Seq(Block), NEW kept \in Collection, Flushes(now, kept)
    PROVE  /\ Drawn(rawItems, now, kept) /\ Told(rawItems, now, kept)
           /\ \A i : ShownIn(blocks, i) => ShownIn(now, i)
           /\ \A i : FailedIn(blocks, i) => FailedIn(now, i)
<1>1. /\ Drawn(rawItems, blocks, collected) /\ Told(rawItems, blocks, collected)
      /\ display = "hidden" => HiddenSince(rawItems)
  BY DEF ShownInv
<1>2. /\ rawItems \in Seq(Items) /\ Len(rawItems) \in Nat /\ blocks \in Seq(Block)
      /\ collected \in Collection
  BY CollectedTyped DEF InterpretInv, InterpretTypeOK
<1>3. \A i \in 1..Len(rawItems) : WantedItem(rawItems, i) => Story(rawItems, blocks, collected, i)
  BY <1>1 DEF Told, Story
<1>4. CASE now = blocks /\ kept = collected
  BY <1>1, <1>4
<1>5. CASE /\ now = blocks /\ kept = Nothing /\ display = "hidden"
           /\ collected.worksheets = <<>> /\ collected.schema = <<>>
  <2>1. Drawn(rawItems, now, kept)
    BY <1>1, <1>5, DrawnNothing DEF Drawn
  <2>2. ASSUME NEW i \in 1..Len(rawItems), Kept(collected, i) PROVE HiddenItem(rawItems, i)
    <3>1. Within(collected.bundles, i)
      BY <1>2, <1>5, <2>2, KeptAlone
    <3>2. i \in Index
      BY <3>1, CollectedTyped DEF Within
    <3>3. \A j \in i..Len(rawItems) : rawItems[j] \in BundleItems
      BY <1>1, <3>1, <3>2 DEF Drawn
    <3>4. QED
      BY <1>1, <1>2, <1>5, <3>3, HiddenBundle
  <2>3. ASSUME NEW i \in 1..Len(rawItems), WantedItem(rawItems, i)
        PROVE  Story(rawItems, now, kept, i)
    BY <1>3, <1>5, <2>2, <2>3 DEF Story
  <2>4. QED
    BY <1>5, <2>1, <2>3 DEF Told, Story
<1>6. CASE /\ kept = Nothing
           /\ \E more \in Seq(Block), s \in Seq(Index) :
                /\ now = blocks \o more /\ Displayed(more, s)
                /\ \A i : Kept(collected, i) <=> Within(s, i)
  <2>1. PICK more \in Seq(Block), s \in Seq(Index) :
          /\ now = blocks \o more /\ Displayed(more, s)
          /\ \A i : Kept(collected, i) <=> Within(s, i)
    BY <1>6
  <2>2. Ordered(more) /\ \A i : ShownIn(more, i) <=> Kept(collected, i)
    BY <2>1 DEF Displayed
  <2>3. /\ \A i : ShownIn(now, i) <=> ShownIn(blocks, i) \/ ShownIn(more, i)
        /\ \A i : FailedIn(blocks, i) => FailedIn(now, i)
    BY <1>2, <2>1, ShownConcat
  <2>4. /\ Ordered(blocks)
        /\ \A i, k \in Index : ShownIn(blocks, i) /\ ShownIn(more, k) => i < k
        /\ \A i \in Index : ShownIn(blocks, i) \/ ShownIn(more, i) => i <= Len(rawItems)
    BY <1>1, <2>2 DEF Drawn
  <2>5. Ordered(now)
    BY <1>2, <2>1, <2>2, <2>4, OrderedConcat
  <2>6. Drawn(rawItems, now, kept)
    BY <1>6, <2>3, <2>4, <2>5, DrawnNothing
  <2>7. ASSUME NEW i \in 1..Len(rawItems), WantedItem(rawItems, i)
        PROVE  Story(rawItems, now, kept, i)
    <3>1. Kept(collected, i) => Story(rawItems, now, kept, i)
      BY <2>2, <2>3 DEF Story
    <3>2. Story(rawItems, blocks, collected, i)
      BY <1>3, <2>7
    <3>3. /\ \A k : ShownIn(blocks, k) => ShownIn(now, k)
          /\ \A k : FailedIn(blocks, k) => FailedIn(now, k)
          /\ Len(rawItems) <= Len(rawItems) /\ \A k \in 1..Len(rawItems) : rawItems[k] = rawItems[k]
      BY <1>2, <2>3
    <3>4. QED
      BY <1>2, <3>1, <3>2, <3>3, StoryStays
  <2>8. Told(rawItems, now, kept)
    BY <2>7 DEF Told, Story
  <2>9. QED
    BY <2>3, <2>6, <2>8
<1>7. QED
  BY <1>4, <1>5, <1>6 DEF Flushes

-----------------------------------------------------------------------------
(* What the next item does to it *)

(* An item that comes later. *)
LEMMA AppendedTo ==
    ASSUME NEW s \in Seq(Index), NEW i \in Index
    PROVE  /\ \A k : Within(Append(s, i), k) <=> Within(s, k) \/ k = i
           /\ Increasing(s) /\ (\A k \in Index : Within(s, k) => k < i) => Increasing(Append(s, i))
<1> DEFINE t == Append(s, i)
<1>1. /\ Len(s) \in Nat /\ Len(t) = Len(s) + 1 /\ t[Len(s) + 1] = i
      /\ \A n \in 1..Len(s) : t[n] = s[n] /\ s[n] \in Index
  OBVIOUS
<1>2. \A n \in 1..Len(t) : n \in 1..Len(s) \/ n = Len(s) + 1
  BY <1>1
<1>3. Len(s) + 1 \in 1..Len(t) /\ \A n \in 1..Len(s) : n \in 1..Len(t)
  BY <1>1
<1> HIDE DEF t
<1>4. \A k : Within(t, k) <=> Within(s, k) \/ k = i
  BY <1>1, <1>2, <1>3 DEF Within
<1>5. ASSUME Increasing(s), \A k \in Index : Within(s, k) => k < i PROVE Increasing(t)
  <2>1. ASSUME NEW m \in 1..Len(t), NEW n \in 1..Len(t), m < n PROVE t[m] < t[n]
    <3>1. m \in 1..Len(s)
      BY <1>1, <2>1
    <3>2. CASE n \in 1..Len(s)
      BY <1>1, <1>5, <2>1, <3>1, <3>2 DEF Increasing
    <3>3. CASE n = Len(s) + 1
      BY <1>1, <1>5, <3>1, <3>3 DEF Within
    <3>4. QED
      BY <1>2, <3>2, <3>3
  <2>2. QED
    BY <2>1 DEF Increasing
<1>6. QED
  BY <1>4, <1>5 DEF t

(* One item more is in the blocks or in what is collected, not in both.    *)
LEMMA DrawnNext ==
    ASSUME NEW raw \in Seq(Items), NEW item \in Items, Len(raw) + 1 \in Index,
           NEW some \in Seq(Block), NEW kept \in Collection, Drawn(raw, some, kept),
           NEW now \in Seq(Block), NEW left \in Collection, now = some \/ left = Nothing,
           Ordered(now),
           \A i \in Index : ShownIn(now, i) => ShownIn(some, i) \/ i = Len(raw) + 1,
           \A i \in Index : Kept(left, i) => Kept(kept, i) \/ i = Len(raw) + 1,
           Increasing(left.bundles), Increasing(left.worksheets), Increasing(left.schema),
           \A i \in Index : Within(left.bundles, i) =>
             item \in BundleItems /\ (Within(kept.bundles, i) \/ i = Len(raw) + 1),
           \A i \in Index : Within(left.schema, i) =>
             \/ item \in {"schema", "add"} /\ i = Len(raw) + 1
             \/ item \in SchemaFields /\ Within(kept.schema, i)
    PROVE  Drawn(Append(raw, item), now, left)
<1> DEFINE more == Append(raw, item)
           here == Len(raw) + 1
<1>1. /\ Len(raw) \in Nat /\ Len(more) = here /\ more[here] = item
      /\ \A i \in 1..Len(raw) : more[i] = raw[i]
  OBVIOUS
<1>2. \A i \in Index : i \in Nat /\ i >= 1
  BY IndexType
<1> HIDE DEF more
<1>3. ASSUME NEW i \in Index, ShownIn(now, i)
      PROVE  i <= Len(more) /\ \A k \in Index : Kept(left, k) => i < k
  <2>1. CASE now = some
    <3>1. i <= Len(raw) /\ \A k \in Index : Kept(kept, k) => i < k
      BY <1>3, <2>1 DEF Drawn
    <3>2. QED
      BY <1>1, <1>2, <3>1
  <2>2. CASE left = Nothing
    <3>1. ~\E k : Kept(left, k)
      BY <2>2, KeptAlone
    <3>2. i <= Len(raw) \/ i = here
      BY <1>3 DEF Drawn
    <3>3. QED
      BY <1>1, <1>2, <3>1, <3>2
  <2>3. QED
    BY <2>1, <2>2
<1>4. ASSUME NEW i \in Index, Kept(left, i) PROVE i <= Len(more)
  <2>1. i <= Len(raw) \/ i = here
    BY <1>4 DEF Drawn
  <2>2. QED
    BY <1>1, <1>2, <2>1
<1>5. ASSUME NEW i \in Index, Within(left.bundles, i), NEW j \in i..Len(more)
      PROVE  more[j] \in BundleItems
  <2>1. CASE j = here
    BY <1>1, <1>5, <2>1
  <2>2. CASE j # here
    <3>1. i # here /\ j \in i..Len(raw) /\ j \in 1..Len(raw)
      BY <1>1, <1>2, <2>2
    <3>2. raw[j] \in BundleItems
      BY <1>5, <3>1 DEF Drawn
    <3>3. QED
      BY <1>1, <3>1, <3>2
  <2>3. QED
    BY <2>1, <2>2
<1>6. ASSUME NEW i \in Index, Within(left.schema, i)
      PROVE  more[i] \in {"schema", "add"} /\ \A j \in i + 1..Len(more) : more[j] \in SchemaFields
  <2>1. CASE item \in {"schema", "add"} /\ i = here
    BY <1>1, <2>1
  <2>2. CASE item \in SchemaFields /\ Within(kept.schema, i)
    <3>1. /\ raw[i] \in {"schema", "add"} /\ \A j \in i + 1..Len(raw) : raw[j] \in SchemaFields
          /\ i <= Len(raw)
      BY <2>2 DEF Drawn, Kept
    <3>2. i \in 1..Len(raw)
      BY <1>1, <1>2, <3>1
    <3>3. ASSUME NEW j \in i + 1..Len(more) PROVE more[j] \in SchemaFields
      <4>1. CASE j = here
        BY <1>1, <2>2, <4>1
      <4>2. CASE j # here
        <5>1. j \in i + 1..Len(raw) /\ j \in 1..Len(raw)
          BY <1>1, <1>2, <4>2
        <5>2. QED
          BY <1>1, <3>1, <5>1
      <4>3. QED
        BY <4>1, <4>2
    <3>4. QED
      BY <1>1, <3>1, <3>2, <3>3
  <2>3. QED
    BY <1>6, <2>1, <2>2
<1>7. QED
  BY <1>3, <1>4, <1>5, <1>6 DEF Drawn, more

(* What is told of the items before, and of this one. *)
LEMMA ToldNext ==
    ASSUME NEW raw \in Seq(Items), NEW item \in Items, NEW some, NEW kept, Told(raw, some, kept),
           NEW now, NEW left, \A i : ShownIn(some, i) => ShownIn(now, i),
           \A i : FailedIn(some, i) => FailedIn(now, i),
           \A i \in 1..Len(raw) : WantedItem(raw, i) /\ Kept(kept, i) =>
             Story(Append(raw, item), now, left, i),
           WantedItem(Append(raw, item), Len(raw) + 1) =>
             Story(Append(raw, item), now, left, Len(raw) + 1)
    PROVE  Told(Append(raw, item), now, left)
<1> DEFINE more == Append(raw, item)
           here == Len(raw) + 1
<1>1. /\ Len(raw) \in Nat /\ Len(more) = here /\ more \in Seq(Items) /\ Len(raw) <= Len(more)
      /\ \A i \in 1..Len(raw) : more[i] = raw[i]
  OBVIOUS
<1>2. \A i \in 1..Len(more) : i \in 1..Len(raw) \/ i = here
  BY <1>1
<1>3. WantedItem(more, here) => Story(more, now, left, here)
  OBVIOUS
<1>4. \A i \in 1..Len(raw) : WantedItem(raw, i) /\ Kept(kept, i) => Story(more, now, left, i)
  OBVIOUS
<1> HIDE DEF more, here
<1>5. ASSUME NEW i \in 1..Len(raw), WantedItem(more, i) PROVE Story(more, now, left, i)
  <2>1. WantedItem(raw, i)
    BY <1>1, <1>5 DEF WantedItem
  <2>2. Story(raw, some, kept, i)
    BY <2>1 DEF Told, Story
  <2>3. Kept(kept, i) => Story(more, now, left, i)
    BY <1>4, <2>1
  <2>4. QED
    BY <1>1, <2>2, <2>3, StoryStays
<1>6. \A i \in 1..Len(more) : WantedItem(more, i) => Story(more, now, left, i)
  BY <1>2, <1>3, <1>5
<1>7. Told(more, now, left)
  BY <1>6 DEF Told, Story
<1>8. QED
  BY <1>7 DEF more

(* A block of its own for the item. *)
LEMMA OwnShown ==
    ASSUME NEW some \in Seq(Block), Ordered(some), NEW block \in Block, NEW i \in Index,
           block.items = <<i>>, \A k \in Index : ShownIn(some, k) => k < i
    PROVE  /\ Append(some, block) \in Seq(Block) /\ Ordered(Append(some, block))
           /\ \A k : ShownIn(Append(some, block), k) <=> ShownIn(some, k) \/ k = i
           /\ \A k : FailedIn(some, k) => FailedIn(Append(some, block), k)
           /\ block.error => FailedIn(Append(some, block), i)
<1>1. Append(some, block) = some \o <<block>> /\ <<block>> \in Seq(Block)
  OBVIOUS
<1>2. /\ Len(<<i>>) = 1 /\ <<i>>[1] = i /\ <<i>> # <<>> /\ Len(<<block>>) = 1
      /\ <<block>>[1] = block
  OBVIOUS
<1>3. Increasing(block.items)
  BY <1>2 DEF Increasing
<1>4. Displayed(<<block>>, block.items)
  BY <1>2, <1>3, OneBlock
<1>5. \A k : ShownIn(<<block>>, k) <=> k = i
  <2>1. \A k : Within(<<i>>, k) <=> k = i
    BY <1>2 DEF Within
  <2>2. \A k : ShownIn(<<block>>, k) <=> Within(<<i>>, k)
    BY <1>4 DEF Displayed
  <2>3. QED
    BY <2>1, <2>2
<1>6. Ordered(some \o <<block>>)
  BY <1>1, <1>4, <1>5, OrderedConcat DEF Displayed
<1>7. block.error => FailedIn(<<block>>, i)
  BY <1>2 DEF FailedIn
<1>8. /\ \A k : ShownIn(some \o <<block>>, k) <=> ShownIn(some, k) \/ ShownIn(<<block>>, k)
      /\ \A k : FailedIn(some, k) \/ FailedIn(<<block>>, k) => FailedIn(some \o <<block>>, k)
  BY <1>1, ShownConcat
<1>9. Append(some, block) \in Seq(Block)
  OBVIOUS
<1>10. /\ \A k : ShownIn(some \o <<block>>, k) <=> ShownIn(some, k) \/ k = i
       /\ \A k : FailedIn(some, k) => FailedIn(some \o <<block>>, k)
       /\ block.error => FailedIn(some \o <<block>>, i)
  BY <1>5, <1>7, <1>8
<1>11. QED
  BY <1>1, <1>6, <1>9, <1>10

(* A paragraph that joins the last block. *)
LEMMA JoinedShown ==
    ASSUME NEW some \in Seq(Block), some # <<>>, Ordered(some), NEW joined \in Block, NEW i \in Index,
           joined.items = Append(some[Len(some)].items, i), joined.error = some[Len(some)].error,
           \A k \in Index : ShownIn(some, k) => k < i
    PROVE  LET now == [some EXCEPT ![Len(some)] = joined] IN
           /\ Ordered(now)
           /\ \A k : ShownIn(now, k) <=> ShownIn(some, k) \/ k = i
           /\ \A k : FailedIn(some, k) => FailedIn(now, k)
<1> DEFINE now == [some EXCEPT ![Len(some)] = joined]
           last == Len(some)
           items == some[last].items
<1>1. last \in 1..Len(some) /\ Len(some) \in Nat /\ Len(some) >= 1
  OBVIOUS
<1>2. /\ Len(now) = Len(some) /\ now[last] = joined
      /\ \A b \in 1..Len(some) : b # last => now[b] = some[b]
  BY <1>1
<1>3. items \in Seq(Index) /\ Len(items) \in Nat /\ \A n \in 1..Len(items) : items[n] \in Index
  BY <1>1, BlockItems
<1>4. Len(items) >= 1
  BY <1>1 DEF Ordered
<1>5. joined.items = Append(items, i) /\ joined.error = some[last].error
  OBVIOUS
<1> HIDE DEF now, last, items
<1>6. /\ Len(joined.items) = Len(items) + 1 /\ joined.items[Len(items) + 1] = i
      /\ \A n \in 1..Len(items) : joined.items[n] = items[n]
  BY <1>3, <1>5
<1>7. /\ joined.items[1] = items[1] /\ Len(joined.items) >= 1
      /\ Len(items) + 1 \in 1..Len(joined.items)
      /\ \A n \in 1..Len(items) : n \in 1..Len(joined.items)
      /\ \A n \in 1..Len(joined.items) : n \in 1..Len(items) \/ n = Len(items) + 1
  BY <1>3, <1>4, <1>6
<1>8. ASSUME NEW b \in 1..Len(some), NEW n \in 1..Len(now[b].items)
      PROVE  \/ n \in 1..Len(some[b].items) /\ now[b].items[n] = some[b].items[n]
             \/ b = last /\ n = Len(items) + 1 /\ now[b].items[n] = i
  <2>1. CASE b # last
    BY <1>2, <2>1
  <2>2. CASE b = last
    BY <1>2, <1>6, <1>7, <2>2 DEF items
  <2>3. QED
    BY <2>1, <2>2
<1>9. ASSUME NEW b \in 1..Len(some), NEW n \in 1..Len(some[b].items)
      PROVE  n \in 1..Len(now[b].items) /\ now[b].items[n] = some[b].items[n]
  <2>1. CASE b # last
    BY <1>2, <2>1
  <2>2. CASE b = last
    BY <1>2, <1>6, <1>7, <2>2 DEF items
  <2>3. QED
    BY <2>1, <2>2
<1>10. ASSUME NEW k PROVE ShownIn(now, k) <=> ShownIn(some, k) \/ k = i
  <2>1. ASSUME ShownIn(now, k) PROVE ShownIn(some, k) \/ k = i
    BY <1>2, <1>8, <2>1 DEF ShownIn
  <2>2. ASSUME ShownIn(some, k) PROVE ShownIn(now, k)
    BY <1>2, <1>9, <2>2 DEF ShownIn
  <2>3. ShownIn(now, i)
    BY <1>1, <1>2, <1>6, <1>7 DEF ShownIn, last
  <2>4. QED
    BY <2>1, <2>2, <2>3
<1>11. ASSUME NEW k, FailedIn(some, k) PROVE FailedIn(now, k)
  <2>1. PICK b \in 1..Len(some) : some[b].error /\ some[b].items[1] = k
    BY <1>11 DEF FailedIn
  <2>2. CASE b # last
    BY <1>2, <2>1, <2>2 DEF FailedIn
  <2>3. CASE b = last
    <3>1. now[b].items[1] = k
      BY <1>2, <1>7, <2>1, <2>3 DEF items
    <3>2. now[b].error
      <4>1. now[b].error = some[b].error
        BY <1>2, <1>5, <2>3
      <4>2. QED
        BY <2>1, <4>1, Zenon
    <3>3. QED
      BY <1>2, <2>1, <3>1, <3>2 DEF FailedIn
  <2>4. QED
    BY <2>2, <2>3
<1>12. Ordered(now)
  <2>1. ASSUME NEW b \in 1..Len(now) PROVE Len(now[b].items) >= 1
    <3>1. CASE b # last
      BY <1>2, <3>1 DEF Ordered
    <3>2. CASE b = last
      BY <1>2, <1>7, <3>2
    <3>3. QED
      BY <3>1, <3>2
  <2>2. ASSUME NEW b \in 1..Len(now), NEW c \in 1..Len(now), NEW m \in 1..Len(now[b].items),
               NEW n \in 1..Len(now[c].items), b < c \/ (b = c /\ m < n)
        PROVE  now[b].items[m] < now[c].items[n]
    <3>1. b \in 1..Len(some) /\ c \in 1..Len(some)
      BY <1>2
    <3>2. CASE n \in 1..Len(some[c].items) /\ now[c].items[n] = some[c].items[n]
      <4>1. ~(b = last /\ m = Len(items) + 1)
        BY <1>1, <1>2, <1>3, <2>2, <3>1, <3>2 DEF items, last
      <4>2. m \in 1..Len(some[b].items) /\ now[b].items[m] = some[b].items[m]
        BY <1>8, <3>1, <4>1
      <4>3. QED
        BY <2>2, <3>1, <3>2, <4>2 DEF Ordered
    <3>3. CASE c = last /\ n = Len(items) + 1 /\ now[c].items[n] = i
      <4>1. ~(b = last /\ m = Len(items) + 1)
        BY <1>1, <1>2, <1>3, <2>2, <3>1, <3>3 DEF items, last
      <4>2. m \in 1..Len(some[b].items) /\ now[b].items[m] = some[b].items[m]
        BY <1>8, <3>1, <4>1
      <4>3. ShownIn(some, now[b].items[m]) /\ now[b].items[m] \in Index
        BY <3>1, <4>2, BlockItems DEF ShownIn
      <4>4. QED
        BY <3>3, <4>3
    <3>4. QED
      BY <1>8, <3>1, <3>2, <3>3
  <2>3. QED
    BY <2>1, <2>2 DEF Ordered
<1>13. QED
  BY <1>10, <1>11, <1>12 DEF now, last

-----------------------------------------------------------------------------
(* Steps *)

(* The mode is hidden from its directive on, until another item than a     *)
(* bundle or a search. *)
LEMMA HiddenNext ==
    ASSUME InterpretInv, ShownInv, NEW item, Interpret(item), display' = "hidden"
    PROVE  HiddenSince(rawItems')
<1>1. Take(item) /\ display' = IF item \in Displays THEN item ELSE ResetDisplay(item)
  BY DEF Interpret
<1>2. /\ rawItems \in Seq(Items) /\ Len(rawItems) \in Nat /\ item \in Items
      /\ rawItems' = Append(rawItems, item)
  BY <1>1, CollectedTyped DEF Take
<1>3. /\ Len(rawItems') = Len(rawItems) + 1 /\ rawItems'[Len(rawItems) + 1] = item
      /\ \A i \in 1..Len(rawItems) : rawItems'[i] = rawItems[i]
  BY <1>2
<1>4. CASE item \in Displays
  <2>1. item = "hidden"
    BY <1>1, <1>4
  <2>2. Len(rawItems) + 1 \in 1..Len(rawItems')
    BY <1>2, <1>3
  <2>3. \A k \in (Len(rawItems) + 1) + 1..Len(rawItems') : FALSE
    BY <1>2, <1>3
  <2>4. QED
    BY <1>3, <2>1, <2>2, <2>3 DEF HiddenSince
<1>5. CASE item \notin Displays
  <2>1. item \in BundleItems \union {"search"} /\ display = "hidden"
    BY <1>1, <1>5 DEF ResetDisplay
  <2>2. PICK j \in 1..Len(rawItems) :
          /\ rawItems[j] = "hidden"
          /\ \A k \in j + 1..Len(rawItems) : rawItems[k] \in BundleItems \union {"search"}
    BY <2>1 DEF ShownInv, HiddenSince
  <2>3. j \in 1..Len(rawItems') /\ rawItems'[j] = "hidden"
    BY <1>2, <1>3, <2>2
  <2>4. ASSUME NEW k \in j + 1..Len(rawItems')
        PROVE  rawItems'[k] \in BundleItems \union {"search"}
    <3>1. CASE k = Len(rawItems) + 1
      BY <1>3, <2>1, <3>1
    <3>2. CASE k # Len(rawItems) + 1
      <4>1. k \in j + 1..Len(rawItems) /\ k \in 1..Len(rawItems)
        BY <1>2, <1>3, <3>2
      <4>2. QED
        BY <1>3, <2>2, <4>1
    <3>3. QED
      BY <3>1, <3>2
  <2>5. QED
    BY <2>3, <2>4 DEF HiddenSince
<1>6. QED
  BY <1>4, <1>5

(* What is told when an item has flushed what it must. *)
LEMMA ItemReady ==
    ASSUME InterpretInv, ShownInv, NEW item, Interpret(item)
    PROVE  /\ Flushed(item) \in Seq(Block) /\ StillCollected(item) \in Collection
           /\ Drawn(rawItems, Flushed(item), StillCollected(item))
           /\ Told(rawItems, Flushed(item), StillCollected(item))
           /\ rawItems \in Seq(Items) /\ item \in Items /\ rawItems' = Append(rawItems, item)
           /\ Here = Len(rawItems) + 1 /\ Len(rawItems) + 1 \in Index /\ Here \in Index
           /\ Ordered(Flushed(item))
           /\ \A k \in Index : ShownIn(Flushed(item), k) => k < Here
           /\ \A k \in Index : Kept(StillCollected(item), k) => k < Here
           /\ display' = "hidden" => HiddenSince(rawItems')
<1>1. /\ Take(item) /\ blockToRaw = {} /\ (item \in BundleItems \/ ~FlushFails)
  BY InterpretedItem
<1>2. /\ item \in Items /\ Here \in Index /\ Here = Len(rawItems) + 1
  BY <1>1, TakenItem
<1>3. rawItems' = Append(rawItems, item)
  BY <1>1 DEF Take
<1>4. rawItems \in Seq(Items) /\ Len(rawItems) \in Nat
  BY CollectedTyped
<1>5. Flushed(item) \in Seq(Block)
  BY <1>1, FlushedItem
<1>6. StillCollected(item) \in Collection
  BY CollectedTyped DEF StillCollected, Collection
<1>7. /\ Increasing(collected.bundles) /\ Increasing(collected.worksheets)
      /\ Increasing(collected.schema)
  BY DEF ShownInv, Drawn
<1>8. Flushes(Flushed(item), StillCollected(item))
  BY <1>1, <1>7, FlushOrKeep
<1>9. /\ Drawn(rawItems, Flushed(item), StillCollected(item))
      /\ Told(rawItems, Flushed(item), StillCollected(item))
  BY <1>5, <1>6, <1>8, FlushTold
<1>10. /\ Ordered(Flushed(item))
       /\ \A k \in Index : ShownIn(Flushed(item), k) => k <= Len(rawItems)
       /\ \A k \in Index : Kept(StillCollected(item), k) => k <= Len(rawItems)
  BY <1>9 DEF Drawn
<1>11. \A k \in Index : k <= Len(rawItems) => k < Here
  BY <1>2, <1>4, IndexType
<1>12. QED
  BY <1>2, <1>3, <1>4, <1>5, <1>6, <1>9, <1>10, <1>11, HiddenNext

(* An item that is collected. *)
LEMMA KeptShown ==
    ASSUME InterpretInv, ShownInv, NEW item, Interpret(item), blocks' = Flushed(item),
           collected' \in Collection,
           \A i : Kept(collected', i) <=> Kept(StillCollected(item), i) \/ i = Here,
           Increasing(collected'.bundles), Increasing(collected'.worksheets),
           Increasing(collected'.schema),
           \A i \in Index : Within(collected'.bundles, i) =>
             item \in BundleItems /\ (Within(StillCollected(item).bundles, i) \/ i = Here),
           \A i \in Index : Within(collected'.schema, i) =>
             \/ item \in {"schema", "add"} /\ i = Here
             \/ item \in SchemaFields /\ Within(StillCollected(item).schema, i)
    PROVE  ShownInv'
<1> DEFINE now == Flushed(item)
           kept == StillCollected(item)
           left == collected'
<1>1. /\ now \in Seq(Block) /\ kept \in Collection /\ Drawn(rawItems, now, kept)
      /\ Told(rawItems, now, kept) /\ rawItems \in Seq(Items) /\ item \in Items
      /\ rawItems' = Append(rawItems, item) /\ Here = Len(rawItems) + 1
      /\ Len(rawItems) + 1 \in Index /\ Ordered(now)
      /\ display' = "hidden" => HiddenSince(rawItems')
  BY ItemReady
<1>2. /\ left \in Collection /\ blocks' = now
      /\ \A i : Kept(left, i) <=> Kept(kept, i) \/ i = Len(rawItems) + 1
      /\ Increasing(left.bundles) /\ Increasing(left.worksheets) /\ Increasing(left.schema)
      /\ \A i \in Index : Within(left.bundles, i) =>
           item \in BundleItems /\ (Within(kept.bundles, i) \/ i = Len(rawItems) + 1)
      /\ \A i \in Index : Within(left.schema, i) =>
           \/ item \in {"schema", "add"} /\ i = Len(rawItems) + 1
           \/ item \in SchemaFields /\ Within(kept.schema, i)
  BY <1>1
<1>3. ShownInv' = (/\ Drawn(rawItems', blocks', left) /\ Told(rawItems', blocks', left)
                   /\ display' = "hidden" => HiddenSince(rawItems'))
  BY DEF ShownInv
<1> HIDE DEF now, kept, left
<1>4. Drawn(Append(rawItems, item), now, left)
  BY <1>1, <1>2, DrawnNext
<1>5. Told(Append(rawItems, item), now, left)
  BY <1>1, <1>2, ToldNext DEF Story
<1>6. QED
  BY <1>1, <1>2, <1>3, <1>4, <1>5

(* A collection of sequences. *)
LEMMA CollectionOf ==
    ASSUME NEW a \in Seq(Index), NEW b \in Seq(Index), NEW c \in Seq(Index)
    PROVE  [bundles |-> a, worksheets |-> b, schema |-> c] \in Collection
BY DEF Collection

(* A bundle is. *)
LEMMA BundleShown ==
    ASSUME InterpretInv, ShownInv, NEW item, Bundle(item)
    PROVE  ShownInv'
<1>1. /\ item \in BundleItems /\ Interpret(item) /\ blocks' = Flushed(item)
      /\ collected' = [StillCollected(item) EXCEPT !.bundles = Append(@, Here)]
  BY DEF Bundle
<1> DEFINE s == collected.bundles
           t == Append(s, Here)
<1>2. StillCollected(item) = [bundles |-> s, worksheets |-> <<>>, schema |-> <<>>]
  BY <1>1, StillOf
<1>3. s \in Seq(Index) /\ Here \in Index
  BY <1>1, CollectedTyped, ItemReady
<1>4. collected' = [bundles |-> t, worksheets |-> <<>>, schema |-> <<>>]
  <2>1. collected' = [StillCollected(item) EXCEPT !.bundles = Append(@, Here)]
    BY <1>1
  <2>2. collected' = [[bundles |-> s, worksheets |-> <<>>, schema |-> <<>>]
                        EXCEPT !.bundles = Append(@, Here)]
    BY ONLY <1>2, <2>1
  <2>3. QED
    BY ONLY <2>2
<1>5. Increasing(s) /\ \A k \in Index : Within(s, k) => k < Here
  BY <1>1, <1>2, ItemReady DEF ShownInv, Drawn, Kept
<1>6. /\ \A k : Within(t, k) <=> Within(s, k) \/ k = Here
      /\ Increasing(t) /\ t \in Seq(Index)
  BY <1>3, <1>5, AppendedTo
<1>7. (~\E k : Within(<<>>, k)) /\ Increasing(<<>>) /\ <<>> \in Seq(Index)
  BY DEF Within, Increasing
<1> HIDE DEF s, t
<1>8. /\ collected'.bundles = t /\ collected'.worksheets = <<>> /\ collected'.schema = <<>>
      /\ StillCollected(item).bundles = s /\ StillCollected(item).worksheets = <<>>
      /\ StillCollected(item).schema = <<>>
  BY <1>2, <1>4
<1>9. collected' \in Collection
  <2>1. t \in Seq(Index)
    BY <1>6
  <2>2. <<>> \in Seq(Index)
    OBVIOUS
  <2>3. QED
    BY <1>4, <2>1, <2>2, CollectionOf
<1>10. \A i : Kept(collected', i) <=> Kept(StillCollected(item), i) \/ i = Here
  BY <1>6, <1>7, <1>8 DEF Kept
<1>11. QED
  BY <1>1, <1>6, <1>7, <1>8, <1>9, <1>10, KeptShown

(* A subworksheet is. *)
LEMMA SubworksheetShown ==
    ASSUME InterpretInv, ShownInv, NEW item, Subworksheet(item)
    PROVE  ShownInv'
<1>1. /\ item = "worksheet" /\ Interpret(item) /\ blocks' = Flushed(item)
      /\ collected' = [StillCollected(item) EXCEPT !.worksheets = Append(@, Here)]
  BY DEF Subworksheet
<1> DEFINE s == collected.worksheets
           t == Append(s, Here)
<1>2. StillCollected(item) = [bundles |-> <<>>, worksheets |-> s, schema |-> <<>>]
  BY <1>1, StillOf
<1>3. s \in Seq(Index) /\ Here \in Index
  BY <1>1, CollectedTyped, ItemReady
<1>4. collected' = [bundles |-> <<>>, worksheets |-> t, schema |-> <<>>]
  <2>1. collected' = [StillCollected(item) EXCEPT !.worksheets = Append(@, Here)]
    BY <1>1
  <2>2. collected' = [[bundles |-> <<>>, worksheets |-> s, schema |-> <<>>]
                        EXCEPT !.worksheets = Append(@, Here)]
    BY ONLY <1>2, <2>1
  <2>3. QED
    BY ONLY <2>2
<1>5. Increasing(s) /\ \A k \in Index : Within(s, k) => k < Here
  BY <1>1, <1>2, ItemReady DEF ShownInv, Drawn, Kept
<1>6. /\ \A k : Within(t, k) <=> Within(s, k) \/ k = Here
      /\ Increasing(t) /\ t \in Seq(Index)
  BY <1>3, <1>5, AppendedTo
<1>7. (~\E k : Within(<<>>, k)) /\ Increasing(<<>>) /\ <<>> \in Seq(Index)
  BY DEF Within, Increasing
<1> HIDE DEF s, t
<1>8. /\ collected'.bundles = <<>> /\ collected'.worksheets = t /\ collected'.schema = <<>>
      /\ StillCollected(item).bundles = <<>> /\ StillCollected(item).worksheets = s
      /\ StillCollected(item).schema = <<>>
  BY <1>2, <1>4
<1>9. collected' \in Collection
  <2>1. t \in Seq(Index)
    BY <1>6
  <2>2. <<>> \in Seq(Index)
    OBVIOUS
  <2>3. QED
    BY <1>4, <2>1, <2>2, CollectionOf
<1>10. \A i : Kept(collected', i) <=> Kept(StillCollected(item), i) \/ i = Here
  BY <1>6, <1>7, <1>8 DEF Kept
<1>11. QED
  BY <1>1, <1>6, <1>7, <1>8, <1>9, <1>10, KeptShown

(* A schema begins. *)
LEMMA SchemaStarts ==
    ASSUME InterpretInv, ShownInv, NEW item, Schema(item)
    PROVE  ShownInv'
<1>1. /\ item = "schema" /\ Interpret(item) /\ blocks' = Flushed(item)
      /\ collected' = [StillCollected(item) EXCEPT !.schema = <<Here>>]
  BY DEF Schema
<1>2. item \notin BundleItems /\ item # "worksheet" /\ item \notin SchemaFields
  BY <1>1 DEF BundleItems, SchemaFields
<1>3. StillCollected(item) = [bundles |-> <<>>, worksheets |-> <<>>, schema |-> <<>>]
  BY <1>2, StillOf DEF Nothing
<1>4. Here \in Index
  BY <1>1, ItemReady
<1> DEFINE t == <<Here>>
<1>5. t \in Seq(Index) /\ Len(t) = 1 /\ t[1] = Here
  BY <1>4
<1>6. collected' = [bundles |-> <<>>, worksheets |-> <<>>, schema |-> t]
  BY <1>1, <1>3
<1> HIDE DEF t
<1>7. (\A k : Within(t, k) <=> k = Here) /\ Increasing(t)
  BY <1>5 DEF Within, Increasing
<1>8. (~\E k : Within(<<>>, k)) /\ Increasing(<<>>) /\ <<>> \in Seq(Index)
  BY DEF Within, Increasing
<1>9. /\ collected'.bundles = <<>> /\ collected'.worksheets = <<>> /\ collected'.schema = t
      /\ StillCollected(item).bundles = <<>> /\ StillCollected(item).worksheets = <<>>
      /\ StillCollected(item).schema = <<>>
  BY <1>3, <1>6
<1>10. collected' \in Collection
  <2>1. t \in Seq(Index)
    BY <1>5
  <2>2. <<>> \in Seq(Index)
    OBVIOUS
  <2>3. QED
    BY <1>6, <2>1, <2>2, CollectionOf
<1>11. \A i : Kept(collected', i) <=> Kept(StillCollected(item), i) \/ i = Here
  BY <1>7, <1>8, <1>9 DEF Kept
<1>12. QED
  BY <1>1, <1>7, <1>8, <1>9, <1>10, <1>11, KeptShown

(* A field of a schema. *)
LEMMA FieldShown ==
    ASSUME InterpretInv, ShownInv, NEW item, Add(item)
    PROVE  ShownInv'
<1>1. /\ item = "add" /\ Interpret(item) /\ blocks' = Flushed(item)
      /\ collected' = [StillCollected(item) EXCEPT !.schema = Append(@, Here)]
  BY DEF Add
<1>2. item \in SchemaFields
  BY <1>1 DEF SchemaFields
<1> DEFINE s == collected.schema
           t == Append(s, Here)
<1>3. StillCollected(item) = [bundles |-> <<>>, worksheets |-> <<>>, schema |-> s]
  BY <1>2, StillOf
<1>4. s \in Seq(Index) /\ Here \in Index
  BY <1>1, CollectedTyped, ItemReady
<1>5. collected' = [bundles |-> <<>>, worksheets |-> <<>>, schema |-> t]
  <2>1. collected' = [StillCollected(item) EXCEPT !.schema = Append(@, Here)]
    BY <1>1
  <2>2. collected' = [[bundles |-> <<>>, worksheets |-> <<>>, schema |-> s]
                        EXCEPT !.schema = Append(@, Here)]
    BY ONLY <1>3, <2>1
  <2>3. QED
    BY ONLY <2>2
<1>6. Increasing(s) /\ \A k \in Index : Within(s, k) => k < Here
  BY <1>1, <1>3, ItemReady DEF ShownInv, Drawn, Kept
<1>7. /\ \A k : Within(t, k) <=> Within(s, k) \/ k = Here
      /\ Increasing(t) /\ t \in Seq(Index)
  BY <1>4, <1>6, AppendedTo
<1>8. (~\E k : Within(<<>>, k)) /\ Increasing(<<>>) /\ <<>> \in Seq(Index)
  BY DEF Within, Increasing
<1> HIDE DEF s, t
<1>9. /\ collected'.bundles = <<>> /\ collected'.worksheets = <<>> /\ collected'.schema = t
      /\ StillCollected(item).bundles = <<>> /\ StillCollected(item).worksheets = <<>>
      /\ StillCollected(item).schema = s
  BY <1>3, <1>5
<1>10. collected' \in Collection
  <2>1. t \in Seq(Index)
    BY <1>7
  <2>2. <<>> \in Seq(Index)
    OBVIOUS
  <2>3. QED
    BY <1>5, <2>1, <2>2, CollectionOf
<1>11. \A i : Kept(collected', i) <=> Kept(StillCollected(item), i) \/ i = Here
  BY <1>7, <1>8, <1>9 DEF Kept
<1>12. QED
  BY <1>1, <1>2, <1>7, <1>8, <1>9, <1>10, <1>11, KeptShown

(* The item that is shown in a block of its own, or joins the last one,    *)
(* when nothing is collected any more. *)
LEMMA ShownAlone ==
    ASSUME InterpretInv, ShownInv, NEW item, Interpret(item), StillCollected(item) = Nothing,
           collected' = Nothing, blocks' \in Seq(Block), Ordered(blocks'),
           \A k : ShownIn(Flushed(item), k) => ShownIn(blocks', k),
           \A k : ShownIn(blocks', k) => ShownIn(Flushed(item), k) \/ k = Here,
           \A k : FailedIn(Flushed(item), k) => FailedIn(blocks', k),
           WantedItem(rawItems', Here) => ShownIn(blocks', Here)
    PROVE  ShownInv'
<1> DEFINE before == Flushed(item)
           now == blocks'
<1>1. /\ before \in Seq(Block) /\ Drawn(rawItems, before, Nothing)
      /\ Told(rawItems, before, Nothing) /\ rawItems \in Seq(Items) /\ item \in Items
      /\ rawItems' = Append(rawItems, item) /\ Here = Len(rawItems) + 1
      /\ Len(rawItems) + 1 \in Index /\ Nothing \in Collection
      /\ display' = "hidden" => HiddenSince(rawItems')
  BY ItemReady
<1>2. /\ now \in Seq(Block) /\ Ordered(now)
      /\ \A k : ShownIn(before, k) => ShownIn(now, k)
      /\ \A k : ShownIn(now, k) => ShownIn(before, k) \/ k = Len(rawItems) + 1
      /\ \A k : FailedIn(before, k) => FailedIn(now, k)
      /\ WantedItem(Append(rawItems, item), Len(rawItems) + 1) => ShownIn(now, Len(rawItems) + 1)
  BY <1>1
<1>3. ShownInv' = (/\ Drawn(rawItems', now, Nothing) /\ Told(rawItems', now, Nothing)
                   /\ display' = "hidden" => HiddenSince(rawItems'))
  BY DEF ShownInv
<1> HIDE DEF before, now
<1>4. /\ ~\E i : Kept(Nothing, i)
      /\ ~\E i : Within(<<>>, i)
      /\ Increasing(<<>>)
      /\ Nothing.bundles = <<>> /\ Nothing.worksheets = <<>> /\ Nothing.schema = <<>>
  BY DEF Kept, Within, Nothing, Increasing
<1>5. Drawn(Append(rawItems, item), now, Nothing)
  BY <1>1, <1>2, <1>4, DrawnNext
<1>6. Told(Append(rawItems, item), now, Nothing)
  BY <1>1, <1>2, <1>4, ToldNext DEF Story
<1>7. QED
  BY <1>1, <1>3, <1>5, <1>6

(* Blank lines, comments and directives are not shown. *)
LEMMA SilentShown ==
    ASSUME InterpretInv, ShownInv, NEW item, Silent(item)
    PROVE  ShownInv'
<1>1. /\ item \in Displays \union {"blank", "comment"} /\ Interpret(item)
      /\ blocks' = Flushed(item) /\ collected' = StillCollected(item)
  BY DEF Silent
<1>2. /\ item \notin BundleItems /\ item # "worksheet" /\ item \notin SchemaFields
      /\ item \notin BundleItems \union {"worksheet", "text", "schema"}
  BY <1>1 DEF BundleItems, SchemaFields, Displays
<1>3. StillCollected(item) = Nothing
  BY <1>2, StillOf
<1>4. rawItems \in Seq(Items) /\ rawItems' = Append(rawItems, item) /\ Here = Len(rawItems) + 1
  BY <1>1, ItemReady
<1>5. ~WantedItem(rawItems', Here)
  <2>1. rawItems'[Len(rawItems) + 1] = item
    BY <1>4
  <2>2. QED
    BY <1>2, <1>4, <2>1 DEF WantedItem
<1>6. blocks' \in Seq(Block) /\ Ordered(blocks')
  BY <1>1, ItemReady
<1>7. QED
  BY <1>1, <1>3, <1>5, <1>6, ShownAlone

(* An item in a block of its own. *)
LEMMA BlockShown ==
    ASSUME InterpretInv, ShownInv, NEW item, Interpret(item), StillCollected(item) = Nothing,
           collected' = Nothing, NEW block \in Block, block.items = <<Here>>,
           blocks' = Append(Flushed(item), block)
    PROVE  ShownInv'
<1>1. /\ Flushed(item) \in Seq(Block) /\ Ordered(Flushed(item)) /\ Here \in Index
      /\ \A k \in Index : ShownIn(Flushed(item), k) => k < Here
  BY ItemReady
<1>2. /\ Append(Flushed(item), block) \in Seq(Block) /\ Ordered(Append(Flushed(item), block))
      /\ \A k : ShownIn(Append(Flushed(item), block), k) <=> ShownIn(Flushed(item), k) \/ k = Here
      /\ \A k : FailedIn(Flushed(item), k) => FailedIn(Append(Flushed(item), block), k)
  BY <1>1, OwnShown
<1>3. QED
  BY <1>2, ShownAlone

(* A paragraph is shown, in a block of its own or joined to another. *)
LEMMA TextShown ==
    ASSUME InterpretInv, ShownInv, NEW item, Text(item)
    PROVE  ShownInv'
<1> DEFINE before == Flushed(item)
           block == Shows("markup", <<Here>>)
<1>1. /\ item = "text" /\ Interpret(item) /\ collected' = StillCollected(item)
      /\ blocks' = IF joinable /\ before # <<>> /\ Last(before).mode = "markup"
                     THEN [before EXCEPT ![Len(before)].items = Append(@, Here)]
                     ELSE Append(before, block)
  BY DEF Text
<1>2. /\ item \notin BundleItems /\ item # "worksheet" /\ item \notin SchemaFields
  BY <1>1 DEF BundleItems, SchemaFields
<1>3. StillCollected(item) = Nothing /\ collected' = Nothing
  BY <1>1, <1>2, StillOf
<1>4. /\ before \in Seq(Block) /\ Ordered(before) /\ Here \in Index
      /\ \A k \in Index : ShownIn(before, k) => k < Here
  BY <1>1, ItemReady
<1>5. CASE blocks' = Append(before, block)
  <2>1. <<Here>> \in Seq(Index)
    BY <1>4
  <2>2. block \in Block /\ block.items = <<Here>>
    BY <2>1, PlainBlock
  <2> HIDE DEF block
  <2>3. QED
    BY <1>1, <1>3, <1>5, <2>2, BlockShown
<1>6. CASE /\ before # <<>>
           /\ blocks' = [before EXCEPT ![Len(before)].items = Append(@, Here)]
  <2> DEFINE last == before[Len(before)]
             joined == [last EXCEPT !.items = Append(@, Here)]
  <2>1. Len(before) \in 1..Len(before) /\ last \in Block
    BY <1>4, <1>6
  <2>2. blocks' = [before EXCEPT ![Len(before)] = joined]
    BY <1>6
  <2> HIDE DEF before
  <2>3. joined \in Block /\ joined.items = Append(last.items, Here) /\ joined.error = last.error
    BY <1>4, <2>1, JoinedBlock
  <2> HIDE DEF joined, last
  <2>4. blocks' \in Seq(Block)
    BY <1>4, <2>1, <2>2, <2>3, BlockReplaced
  <2>5. /\ Ordered(blocks')
        /\ \A k : ShownIn(blocks', k) <=> ShownIn(before, k) \/ k = Here
        /\ \A k : FailedIn(before, k) => FailedIn(blocks', k)
    <3>1. joined.items = Append(before[Len(before)].items, Here)
      BY <2>3 DEF last
    <3>2. joined.error = before[Len(before)].error
      BY <2>3 DEF last
    <3>3. before # <<>> /\ joined \in Block
      BY <1>6, <2>3
    <3>4. blocks' = [before EXCEPT ![Len(before)] = joined]
      BY <2>2
    <3>5. LET now == [before EXCEPT ![Len(before)] = joined] IN
          /\ Ordered(now)
          /\ \A k : ShownIn(now, k) <=> ShownIn(before, k) \/ k = Here
          /\ \A k : FailedIn(before, k) => FailedIn(now, k)
      <4> HIDE DEF Here
      <4>1. QED
        BY ONLY <1>4, <3>1, <3>2, <3>3, JoinedShown
    <3>6. QED
      BY <3>4, <3>5
  <2>6. QED
    BY <1>1, <1>3, <2>4, <2>5, ShownAlone DEF before
<1>7. QED
  BY <1>1, <1>5, <1>6

(* A search is. *)
LEMMA SearchShown ==
    ASSUME InterpretInv, ShownInv, NEW item, Search(item)
    PROVE  ShownInv'
<1>1. /\ item \in {"search", "wsearch"} /\ Interpret(item) /\ collected' = StillCollected(item)
      /\ blocks' = Append(Flushed(item), Shows("placeholder", <<Here>>))
  BY DEF Search
<1>2. /\ item \notin BundleItems /\ item # "worksheet" /\ item \notin SchemaFields
  BY <1>1 DEF BundleItems, SchemaFields
<1>3. StillCollected(item) = Nothing /\ collected' = Nothing
  BY <1>1, <1>2, StillOf
<1>4. <<Here>> \in Seq(Index)
  BY <1>1, ItemReady
<1>5. /\ Shows("placeholder", <<Here>>) \in Block
      /\ Shows("placeholder", <<Here>>).items = <<Here>>
  BY <1>4, PlainBlock
<1>6. QED
  BY <1>1, <1>3, <1>5, BlockShown

(* A directive without sense is an error, also for the schema it belongs   *)
(* to. *)
LEMMA SenselessShown ==
    ASSUME InterpretInv, ShownInv, NEW item, Senseless(item)
    PROVE  ShownInv'
<1>1. /\ Interpret(item) /\ blocks' = Append(Flushed(item), Error(Here)) /\ collected' = Nothing
      /\ \/ item \in {"unknown", "addschema undefined"}
         \/ item = "add" /\ collected.schema = <<>>
  BY DEF Senseless
<1>2. Here \in Index
  BY <1>1, ItemReady
<1>3. Error(Here) \in Block /\ Error(Here).items = <<Here>> /\ Error(Here).error
  BY <1>2, ErrorBlock
<1>4. CASE StillCollected(item) = Nothing
  BY <1>1, <1>3, <1>4, BlockShown
<1>5. CASE StillCollected(item) # Nothing
  <2> DEFINE before == Flushed(item)
             now == blocks'
             kept == StillCollected(item)
             more == Append(rawItems, item)
             here == Len(rawItems) + 1
  <2>1. item = "addschema undefined"
    <3>1. ~(item = "unknown")
      <4>1. "unknown" \notin BundleItems /\ "unknown" \notin SchemaFields
        BY DEF BundleItems, SchemaFields
      <4>2. QED
        BY <1>5, <4>1, StillOf
    <3>2. ~(item = "add" /\ collected.schema = <<>>)
      <4>1. "add" \in SchemaFields
        BY DEF SchemaFields
      <4>2. QED
        BY <1>5, <4>1, StillOf DEF Nothing
    <3>3. QED
      BY <1>1, <3>1, <3>2
  <2>2. item \in SchemaFields /\ item \notin BundleItems \union {"worksheet", "text", "schema"}
    BY <2>1 DEF SchemaFields, BundleItems
  <2>3. kept = [bundles |-> <<>>, worksheets |-> <<>>, schema |-> collected.schema]
    BY <2>2, StillOf
  <2>4. /\ before \in Seq(Block) /\ kept \in Collection /\ Drawn(rawItems, before, kept)
        /\ Told(rawItems, before, kept) /\ rawItems \in Seq(Items) /\ item \in Items
        /\ rawItems' = more /\ Here = here /\ here \in Index /\ Ordered(before)
        /\ \A k \in Index : ShownIn(before, k) => k < Here
        /\ display' = "hidden" => HiddenSince(rawItems')
    BY <1>1, ItemReady
  <2>5. /\ now \in Seq(Block) /\ Ordered(now)
        /\ \A k : ShownIn(now, k) <=> ShownIn(before, k) \/ k = here
        /\ \A k : FailedIn(before, k) => FailedIn(now, k)
        /\ FailedIn(now, here)
    <3>1. /\ Append(before, Error(Here)) \in Seq(Block) /\ Ordered(Append(before, Error(Here)))
          /\ \A k : ShownIn(Append(before, Error(Here)), k) <=> ShownIn(before, k) \/ k = Here
          /\ \A k : FailedIn(before, k) => FailedIn(Append(before, Error(Here)), k)
          /\ Error(Here).error => FailedIn(Append(before, Error(Here)), Here)
      BY <1>2, <1>3, <2>4, OwnShown
    <3>2. now = Append(before, Error(Here)) /\ Here = here
      BY <1>1, <2>4
    <3>3. QED
      BY <1>3, <3>1, <3>2
  <2>6. ShownInv' = (/\ Drawn(rawItems', now, Nothing) /\ Told(rawItems', now, Nothing)
                     /\ display' = "hidden" => HiddenSince(rawItems'))
    BY <1>1 DEF ShownInv
  <2>7. /\ Len(rawItems) \in Nat /\ Len(more) = here /\ more[here] = item
        /\ \A i \in 1..Len(rawItems) : more[i] = rawItems[i]
    BY <2>4
  <2> HIDE DEF before, now, kept, more
  <2>8. Drawn(more, now, Nothing)
    <3>1. ASSUME NEW i \in Index, ShownIn(now, i) PROVE i <= Len(more)
      <4>1. i <= Len(rawItems) \/ i = here
        BY <2>4, <2>5, <3>1 DEF Drawn
      <4>2. QED
        BY <2>7, <4>1, IndexType
    <3>2. QED
      BY <2>5, <3>1, DrawnNothing
  <2>9. ASSUME NEW i \in 1..Len(rawItems), WantedItem(rawItems, i), Kept(kept, i)
        PROVE  Story(more, now, Nothing, i)
    <3>1. Within(kept.schema, i)
      BY <2>3, <2>4, <2>9, KeptAlone
    <3>2. i \in Index
      BY <2>3, <3>1, CollectedTyped DEF Within
    <3>3. /\ rawItems[i] \in {"schema", "add"}
          /\ \A j \in i + 1..Len(rawItems) : rawItems[j] \in SchemaFields
      BY <2>4, <3>1, <3>2 DEF Drawn
    <3>4. more[i] = "schema"
      <4>1. "add" \notin BundleItems \union {"worksheet", "text", "schema"}
        BY DEF BundleItems
      <4>2. QED
        BY <2>7, <2>9, <3>3, <4>1 DEF WantedItem
    <3>5. ASSUME NEW j \in i + 1..here PROVE more[j] \in SchemaFields
      <4>1. CASE j = here
        BY <2>2, <2>7, <4>1
      <4>2. CASE j # here
        <5>1. j \in i + 1..Len(rawItems) /\ j \in 1..Len(rawItems)
          BY <2>7, <4>2
        <5>2. QED
          BY <2>7, <3>3, <5>1
      <4>3. QED
        BY <4>1, <4>2
    <3>6. here \in i..Len(more)
      BY <2>7
    <3>7. ExcusedItem(more, now, i)
      BY <2>5, <3>4, <3>5, <3>6 DEF ExcusedItem
    <3>8. QED
      BY <3>7 DEF Story
  <2>10. ~WantedItem(more, here)
    BY <2>2, <2>7 DEF WantedItem
  <2>11. Told(more, now, Nothing)
    BY <2>4, <2>5, <2>9, <2>10, ToldNext DEF more
  <2>12. QED
    BY <2>4, <2>6, <2>8, <2>11
<1>6. QED
  BY <1>4, <1>5

(* When the flush fails, bundles were collected and nothing else, and none *)
(* is hidden. *)
LEMMA FailingFlush ==
    ASSUME InterpretInv, ShownInv, blockToRaw = {}, FlushFails
    PROVE  /\ display = "no such mode" /\ collected.bundles # <<>> /\ collected \in Collection
           /\ \A i : Kept(collected, i) <=> Within(collected.bundles, i)
           /\ collected.bundles[1] \in Index /\ Kept(collected, collected.bundles[1])
           /\ \A i \in Index : Kept(collected, i) =>
                i <= Len(rawItems) /\ \A j \in i..Len(rawItems) : rawItems[j] \in BundleItems
<1>1. display = "no such mode" /\ collected.bundles # <<>>
  BY DEF FlushFails
<1>2. collected.worksheets = <<>> /\ collected.schema = <<>>
  BY <1>1 DEF InterpretInv, Reading, OneKind
<1>3. collected \in Collection
  BY DEF InterpretInv, InterpretTypeOK
<1>4. \A i : Kept(collected, i) <=> Within(collected.bundles, i)
  BY <1>2, <1>3, KeptAlone
<1>5. 1 \in 1..Len(collected.bundles) /\ collected.bundles[1] \in Index
  <2>1. collected.bundles \in Seq(Index) /\ collected.bundles # <<>>
    BY <1>1, CollectedTyped
  <2>2. QED
    BY ONLY <2>1
<1>6. Within(collected.bundles, collected.bundles[1])
  BY <1>5 DEF Within
<1>7. QED
  BY <1>1, <1>3, <1>4, <1>5, <1>6 DEF ShownInv, Drawn

(* An item that makes the flush fail stands for the bundles before it.     *)
LEMMA NotFlushedShown ==
    ASSUME InterpretInv, ShownInv, NEW item, NotFlushed(item)
    PROVE  ShownInv'
<1> DEFINE now == blocks'
           more == Append(rawItems, item)
           here == Len(rawItems) + 1
<1>1. /\ Take(item) /\ FlushFails /\ blocks' = Append(blocks, Error(Here))
      /\ collected' = Nothing /\ display' = display
  BY DEF NotFlushed
<1>2. /\ item \in Items /\ blockToRaw = {} /\ Here \in Index /\ Here = here
      /\ rawItems' = more
  BY <1>1, TakenItem DEF Take
<1>3. /\ rawItems \in Seq(Items) /\ Len(rawItems) \in Nat /\ blocks \in Seq(Block)
  BY CollectedTyped
<1>4. /\ display = "no such mode" /\ collected \in Collection
      /\ \A i \in Index : Kept(collected, i) =>
           i <= Len(rawItems) /\ \A j \in i..Len(rawItems) : rawItems[j] \in BundleItems
  BY <1>1, <1>2, FailingFlush
<1>5. /\ Drawn(rawItems, blocks, collected) /\ Told(rawItems, blocks, collected)
  BY DEF ShownInv
<1>6. Ordered(blocks) /\ \A k \in Index : ShownIn(blocks, k) => k <= Len(rawItems)
  BY <1>5 DEF Drawn
<1>7. Error(Here) \in Block /\ Error(Here).items = <<Here>> /\ Error(Here).error
  BY <1>2, ErrorBlock
<1>8. \A k \in Index : ShownIn(blocks, k) => k < Here
  BY <1>2, <1>3, <1>6, IndexType
<1>9. /\ Ordered(now)
      /\ \A k : ShownIn(now, k) <=> ShownIn(blocks, k) \/ k = here
      /\ \A k : FailedIn(blocks, k) => FailedIn(now, k)
      /\ FailedIn(now, here)
  <2>1. /\ Ordered(Append(blocks, Error(Here)))
        /\ \A k : ShownIn(Append(blocks, Error(Here)), k) <=> ShownIn(blocks, k) \/ k = Here
        /\ \A k : FailedIn(blocks, k) => FailedIn(Append(blocks, Error(Here)), k)
        /\ Error(Here).error => FailedIn(Append(blocks, Error(Here)), Here)
    BY <1>2, <1>3, <1>6, <1>7, <1>8, OwnShown
  <2>2. now = Append(blocks, Error(Here)) /\ Here = here
    BY <1>1, <1>2
  <2>3. QED
    BY <1>7, <2>1, <2>2
<1>10. ShownInv' = (/\ Drawn(rawItems', now, Nothing) /\ Told(rawItems', now, Nothing)
                    /\ display' = "hidden" => HiddenSince(rawItems'))
  BY <1>1 DEF ShownInv
<1>11. /\ Len(more) = here /\ \A i \in 1..Len(rawItems) : more[i] = rawItems[i]
  BY <1>3
<1> HIDE DEF now, more
<1>12. Drawn(more, now, Nothing)
  <2>1. ASSUME NEW i \in Index, ShownIn(now, i) PROVE i <= Len(more)
    BY <1>3, <1>6, <1>9, <1>11, <2>1, IndexType
  <2>2. QED
    BY <1>9, <2>1, DrawnNothing
<1>13. ASSUME NEW i \in 1..Len(rawItems), WantedItem(rawItems, i), Kept(collected, i)
       PROVE  Story(more, now, Nothing, i)
  <2>1. i \in Index
    <3>1. here \in Nat /\ here <= MaxItems /\ MaxItems \in Nat /\ Len(rawItems) \in Nat
      BY <1>2, <1>3, IndexType
    <3>2. QED
      BY <3>1 DEF Index
  <2>2. \A j \in i..Len(rawItems) : rawItems[j] \in BundleItems
    BY <1>4, <1>13, <2>1
  <2>3. \A j \in i..here - 1 : more[j] \in BundleItems
    BY <1>3, <1>11, <2>2
  <2>4. here \in i..Len(more)
    BY <1>3, <1>11
  <2>5. ExcusedItem(more, now, i)
    BY <1>9, <2>3, <2>4 DEF ExcusedItem
  <2>6. QED
    BY <2>5 DEF Story
<1>14. Story(more, now, Nothing, here)
  BY <1>9 DEF Story
<1>15. Told(more, now, Nothing)
  BY <1>2, <1>3, <1>5, <1>9, <1>13, <1>14, ToldNext DEF more
<1>16. QED
  BY <1>1, <1>2, <1>4, <1>10, <1>12, <1>15

(* At the end what is collected is flushed, or the last item stands for it. *)
LEMMA EndShown ==
    ASSUME InterpretInv, ShownInv, EndOfItems
    PROVE  ShownInv'
<1>1. /\ blockToRaw = {} /\ collected' = Nothing /\ rawItems' = rawItems /\ display' = display
      /\ blocks' = IF FlushFails THEN Append(blocks, Error(Len(rawItems))) ELSE blocks \o FlushedAtEnd
  BY DEF EndOfItems
<1>2. /\ rawItems \in Seq(Items) /\ Len(rawItems) \in Nat /\ blocks \in Seq(Block)
  BY CollectedTyped
<1>3. /\ Drawn(rawItems, blocks, collected) /\ Told(rawItems, blocks, collected)
      /\ display = "hidden" => HiddenSince(rawItems)
  BY DEF ShownInv
<1> DEFINE now == blocks'
<1>4. ShownInv' = (/\ Drawn(rawItems', now, Nothing) /\ Told(rawItems', now, Nothing)
                   /\ display' = "hidden" => HiddenSince(rawItems'))
  BY <1>1 DEF ShownInv
<1>5. CASE ~FlushFails
  <2> DEFINE item == "blank"
  <2>1. item \notin BundleItems /\ item # "worksheet" /\ item \notin SchemaFields
    BY DEF BundleItems, SchemaFields
  <2>2. FlushedBy(item) = FlushedAtEnd
    BY <2>1 DEF FlushedBy, FlushedAtEnd
  <2>3. Flushed(item) = now
    BY <1>1, <1>5, <2>2 DEF Flushed
  <2> HIDE DEF item
  <2>4. StillCollected(item) = Nothing
    BY <2>1, StillOf
  <2>5. /\ Increasing(collected.bundles) /\ Increasing(collected.worksheets)
        /\ Increasing(collected.schema)
    BY <1>3 DEF Drawn
  <2>6. Flushes(Flushed(item), StillCollected(item))
    BY <1>1, <1>5, <2>5, FlushOrKeep
  <2>7. Flushed(item) \in Seq(Block) /\ Nothing \in Collection
    <3>1. <<>> \in Seq(Index)
      OBVIOUS
    <3>2. QED
      BY <1>1, <1>5, <3>1, FlushedItem, CollectionOf DEF Nothing
  <2>8. Drawn(rawItems, now, Nothing) /\ Told(rawItems, now, Nothing)
    BY <2>3, <2>4, <2>6, <2>7, FlushTold
  <2>9. QED
    BY <1>1, <1>3, <1>4, <2>8
<1>6. CASE FlushFails
  <2> DEFINE last == Len(rawItems)
  <2>1. /\ display = "no such mode" /\ collected \in Collection
        /\ collected.bundles[1] \in Index /\ Kept(collected, collected.bundles[1])
        /\ \A i \in Index : Kept(collected, i) =>
             i <= Len(rawItems) /\ \A j \in i..Len(rawItems) : rawItems[j] \in BundleItems
    BY <1>1, <1>6, FailingFlush
  <2>2. last \in Index
    <3>1. /\ collected.bundles[1] \in Nat /\ collected.bundles[1] >= 1
          /\ collected.bundles[1] <= last
      BY <2>1, IndexType
    <3>2. Len(rawItems) <= MaxItems /\ MaxItems \in Nat
      BY <1>1, ReadUpToNow, CollectedTyped
    <3>3. QED
      BY <1>2, <3>1, <3>2 DEF Index
  <2>3. \A k \in Index : ShownIn(blocks, k) => k < last
    <3>1. \A k \in Index : ShownIn(blocks, k) => k < collected.bundles[1]
      BY <1>3, <2>1 DEF Drawn
    <3>2. collected.bundles[1] <= last
      BY <2>1
    <3>3. ASSUME NEW k \in Index, ShownIn(blocks, k) PROVE k < last
      <4>1. k < collected.bundles[1]
        BY <3>1, <3>3
      <4>2. k \in Nat /\ collected.bundles[1] \in Nat /\ last \in Nat
        BY <2>1, <2>2, IndexType
      <4>3. QED
        BY <3>2, <4>1, <4>2
    <3>4. QED
      BY <3>3
  <2>4. Error(last) \in Block /\ Error(last).items = <<last>> /\ Error(last).error
    BY <2>2, ErrorBlock
  <2>5. now = Append(blocks, Error(last)) /\ Ordered(blocks)
    BY <1>1, <1>3, <1>6 DEF Drawn
  <2> HIDE DEF now
  <2>6. /\ Ordered(now)
        /\ \A k : ShownIn(now, k) <=> ShownIn(blocks, k) \/ k = last
        /\ \A k : FailedIn(blocks, k) => FailedIn(now, k)
        /\ FailedIn(now, last)
    <3>1. /\ Ordered(Append(blocks, Error(last)))
          /\ \A k : ShownIn(Append(blocks, Error(last)), k) <=> ShownIn(blocks, k) \/ k = last
          /\ \A k : FailedIn(blocks, k) => FailedIn(Append(blocks, Error(last)), k)
          /\ Error(last).error => FailedIn(Append(blocks, Error(last)), last)
      BY <1>2, <2>2, <2>3, <2>4, <2>5, OwnShown
    <3>2. QED
      BY <2>4, <2>5, <3>1
  <2>7. Drawn(rawItems, now, Nothing)
    <3>1. \A i \in Index : ShownIn(now, i) => i <= last
      BY <1>3, <2>2, <2>6, IndexType DEF Drawn
    <3>2. QED
      BY <2>6, <3>1, DrawnNothing
  <2>8. ASSUME NEW i \in 1..Len(rawItems), WantedItem(rawItems, i)
        PROVE  Story(rawItems, now, Nothing, i)
    <3>1. i \in Index
      <4>1. last <= MaxItems /\ MaxItems \in Nat
        BY <2>2, IndexType
      <4>2. QED
        BY <1>2, <4>1 DEF Index
    <3>2. ASSUME Kept(collected, i) PROVE Story(rawItems, now, Nothing, i)
      <4>1. \A j \in i..Len(rawItems) : rawItems[j] \in BundleItems
        BY <2>1, <3>1, <3>2
      <4>2. last \in i..Len(rawItems) /\ \A j \in i..last - 1 : j \in i..Len(rawItems)
        BY <1>2
      <4>3. ExcusedItem(rawItems, now, i)
        BY <2>6, <4>1, <4>2 DEF ExcusedItem
      <4>4. QED
        BY <4>3 DEF Story
    <3>3. Story(rawItems, blocks, collected, i)
      BY <1>3, <2>8 DEF Told, Story
    <3>4. /\ \A k : ShownIn(blocks, k) => ShownIn(now, k)
          /\ \A k : FailedIn(blocks, k) => FailedIn(now, k)
          /\ Len(rawItems) <= Len(rawItems) /\ \A k \in 1..Len(rawItems) : rawItems[k] = rawItems[k]
      BY <1>2, <2>6
    <3>5. QED
      BY <1>2, <3>2, <3>3, <3>4, StoryStays
  <2>9. Told(rawItems, now, Nothing)
    BY <2>8 DEF Told, Story
  <2>10. QED
    BY <1>1, <1>3, <1>4, <2>7, <2>9
<1>7. QED
  BY <1>5, <1>6

(* Whatever is read, what is told stays true. *)
LEMMA ShownStep == InterpretInv /\ ShownInv /\ [InterpretNext]_interpretVars => ShownInv'
<1> SUFFICES ASSUME InterpretInv, ShownInv, [InterpretNext]_interpretVars PROVE ShownInv'
  OBVIOUS
<1>1. ASSUME NEW item \in Items, Bundle(item) PROVE ShownInv'
  BY <1>1, BundleShown
<1>2. ASSUME NEW item \in Items, Subworksheet(item) PROVE ShownInv'
  BY <1>2, SubworksheetShown
<1>3. ASSUME NEW item \in Items, Text(item) PROVE ShownInv'
  BY <1>3, TextShown
<1>4. ASSUME NEW item \in Items, Silent(item) PROVE ShownInv'
  BY <1>4, SilentShown
<1>5. ASSUME NEW item \in Items, Schema(item) PROVE ShownInv'
  BY <1>5, SchemaStarts
<1>6. ASSUME NEW item \in Items, Add(item) PROVE ShownInv'
  BY <1>6, FieldShown
<1>7. ASSUME NEW item \in Items, Search(item) PROVE ShownInv'
  BY <1>7, SearchShown
<1>8. ASSUME NEW item \in Items, Senseless(item) PROVE ShownInv'
  BY <1>8, SenselessShown
<1>9. ASSUME NEW item \in Items, NotFlushed(item) PROVE ShownInv'
  BY <1>9, NotFlushedShown
<1>10. CASE EndOfItems
  BY <1>10, EndShown
<1>11. CASE UNCHANGED interpretVars
  BY <1>11 DEF interpretVars, ShownInv
<1>12. QED
  BY <1>1, <1>2, <1>3, <1>4, <1>5, <1>6, <1>7, <1>8, <1>9, <1>10, <1>11 DEF InterpretNext

(* Nothing is collected any more when everything has been read.            *)
NothingLeft == blockToRaw # {} => collected = Nothing

LEMMA NothingLeftStep == NothingLeft /\ [InterpretNext]_interpretVars => NothingLeft'
<1> SUFFICES ASSUME NothingLeft, [InterpretNext]_interpretVars PROVE NothingLeft'
  OBVIOUS
<1>1. ASSUME NEW item \in Items, Take(item) PROVE NothingLeft'
  BY <1>1 DEF Take, NothingLeft
<1>2. CASE EndOfItems
  BY <1>2 DEF EndOfItems, NothingLeft
<1>3. CASE UNCHANGED interpretVars
  BY <1>3 DEF interpretVars, NothingLeft
<1>4. QED
  BY <1>1, <1>2, <1>3 DEF InterpretNext, Bundle, Subworksheet, Text, Silent, Schema, Add, Search,
     Senseless, NotFlushed, Interpret

(* The blocks that were told, when nothing is collected, are all there is. *)
LEMMA ShownInTheEnd ==
    ASSUME InterpretInv, ShownInv, NothingLeft
    PROVE  EverythingShown
<1> DEFINE InSome(i) == \E b \in DOMAIN blocks : i \in ToSet(blocks[b].items)
           Failed(k) == \E b \in DOMAIN blocks : blocks[b].error /\ blocks[b].items[1] = k
           Hidden(i) ==
             /\ rawItems[i] \in BundleItems
             /\ \E j \in 1..i - 1 :
                  /\ rawItems[j] = "hidden"
                  /\ \A k \in j + 1..i - 1 : rawItems[k] \in BundleItems \union {"search"}
           Excused(i) ==
             \E k \in i..Len(rawItems) :
               /\ Failed(k)
               /\ \/ \A j \in i..k - 1 : rawItems[j] \in BundleItems
                  \/ rawItems[i] = "schema" /\ \A j \in i + 1..k : rawItems[j] \in SchemaFields
<1>1. /\ blocks \in Seq(Block) /\ DOMAIN blocks = 1..Len(blocks)
      /\ rawItems \in Seq(Items) /\ DOMAIN rawItems = 1..Len(rawItems)
  BY CollectedTyped
<1>2. ASSUME NEW b \in DOMAIN blocks PROVE DOMAIN blocks[b].items = 1..Len(blocks[b].items)
  BY <1>1, BlockItems
<1>3. ASSUME Interpreted PROVE collected = Nothing
  BY <1>3 DEF Interpreted, NothingLeft
<1>4. Ordered(blocks) /\ Told(rawItems, blocks, collected)
  BY DEF ShownInv, Drawn
<1>5. \A b, c \in DOMAIN blocks :
        \A m \in DOMAIN blocks[b].items, n \in DOMAIN blocks[c].items :
          b < c \/ (b = c /\ m < n) => blocks[b].items[m] < blocks[c].items[n]
  BY <1>1, <1>2, <1>4 DEF Ordered
<1>6. ASSUME NEW i, ShownIn(blocks, i) PROVE InSome(i)
  <2>1. PICK b \in 1..Len(blocks) : \E n \in 1..Len(blocks[b].items) : blocks[b].items[n] = i
    BY <1>6 DEF ShownIn
  <2>2. b \in DOMAIN blocks /\ \E n \in DOMAIN blocks[b].items : blocks[b].items[n] = i
    BY <1>1, <1>2, <2>1
  <2>3. i \in ToSet(blocks[b].items)
    BY <2>2 DEF ToSet
  <2>4. QED
    BY <2>2, <2>3
<1>7. ASSUME NEW k, FailedIn(blocks, k) PROVE Failed(k)
  BY <1>1, <1>7 DEF FailedIn
<1>8. ASSUME NEW i, HiddenItem(rawItems, i) PROVE Hidden(i)
  BY <1>8 DEF HiddenItem
<1> HIDE DEF InSome, Failed, Hidden
<1>9. ASSUME NEW i, ExcusedItem(rawItems, blocks, i) PROVE Excused(i)
  BY <1>7, <1>9 DEF ExcusedItem
<1> HIDE DEF Excused
<1>10. ASSUME Interpreted,
              NEW i \in DOMAIN rawItems,
              rawItems[i] \in BundleItems \union {"worksheet", "text", "schema"}
       PROVE  InSome(i) \/ Hidden(i) \/ Excused(i)
  <2>1. WantedItem(rawItems, i)
    BY <1>10 DEF WantedItem
  <2>2. ~Kept(collected, i)
    BY <1>3, <1>10 DEF Nothing, Kept, Within
  <2>3. ShownIn(blocks, i) \/ HiddenItem(rawItems, i) \/ ExcusedItem(rawItems, blocks, i)
    BY <1>1, <1>4, <2>1, <2>2 DEF Told
  <2>4. QED
    BY <1>6, <1>8, <1>9, <2>3
<1>11. QED
  BY <1>5, <1>10 DEF EverythingShown, InSome, Failed, Hidden, Excused

(* interpret_items: every paragraph, bundle and subworksheet is shown once *)
(* and in order, hidden, or has an error that stands for it, in every      *)
(* worksheet. *)
THEOREM AlwaysEverythingShown == InterpretSpec => []EverythingShown
<1>1. InterpretInit => ShownInv
  <2> SUFFICES ASSUME InterpretInit PROVE ShownInv
    OBVIOUS
  <2>1. rawItems = <<>> /\ blocks = <<>> /\ collected = Nothing /\ display = "table"
    BY DEF InterpretInit
  <2>2. Ordered(<<>>) /\ ~\E i : ShownIn(<<>>, i)
    BY DEF Ordered, ShownIn
  <2>3. Drawn(<<>>, <<>>, Nothing)
    BY <2>2, DrawnNothing
  <2>4. Told(<<>>, <<>>, Nothing)
    BY DEF Told
  <2>5. QED
    BY <2>1, <2>3, <2>4 DEF ShownInv
<1>2. InterpretSpec => []ShownInv
  BY <1>1, ShownStep, InterpretAlways, PTL DEF InterpretSpec
<1>3. InterpretInv /\ ShownInv /\ NothingLeft => EverythingShown
  BY ShownInTheEnd
<1>4. InterpretSpec => []NothingLeft
  <2>1. InterpretInit => NothingLeft
    BY DEF InterpretInit, NothingLeft
  <2>2. QED
    BY <2>1, NothingLeftStep, PTL DEF InterpretSpec
<1>5. QED
  BY <1>2, <1>3, <1>4, InterpretAlways, PTL

-----------------------------------------------------------------------------
(* The services together: each behaves among the others as it does alone,  *)
(* so that what is proved of it holds of Services.                         *)

(* The connections of a worker are one of the services. *)
LEMMA WsAlone == Spec => WsSpec
<1>1. Init => WsInit
  BY DEF Init
<1>2. [Next]_servicesVars => [WsNext]_wsVars
  <2> SUFFICES ASSUME [Next]_servicesVars PROVE [WsNext]_wsVars
    OBVIOUS
  <2>1. CASE Next
    BY <2>1 DEF Next
  <2>2. CASE UNCHANGED servicesVars
    BY <2>2 DEF servicesVars
  <2>3. QED
    BY <2>1, <2>2
<1>3. QED
  BY <1>1, <1>2, PTL DEF Spec, WsSpec

(* So are the contents of bundles, *)
LEMMA ContentsAlone == Spec => ContentSpec
<1>1. Init => ContentInit
  BY DEF Init
<1>2. [Next]_servicesVars => [ContentNext]_contentVars
  <2> SUFFICES ASSUME [Next]_servicesVars PROVE [ContentNext]_contentVars
    OBVIOUS
  <2>1. CASE Next
    BY <2>1 DEF Next
  <2>2. CASE UNCHANGED servicesVars
    BY <2>2 DEF servicesVars
  <2>3. QED
    BY <2>1, <2>2
<1>3. QED
  BY <1>1, <1>2, PTL DEF Spec, ContentSpec

(* the items of a worksheet, *)
LEMMA ItemsAlone == Spec => ItemsSpec
<1>1. Init => ItemsInit
  BY DEF Init
<1>2. [Next]_servicesVars => [ItemsNext]_itemVars
  <2> SUFFICES ASSUME [Next]_servicesVars PROVE [ItemsNext]_itemVars
    OBVIOUS
  <2>1. CASE Next
    BY <2>1 DEF Next
  <2>2. CASE UNCHANGED servicesVars
    BY <2>2 DEF servicesVars
  <2>3. QED
    BY <2>1, <2>2
<1>3. QED
  BY <1>1, <1>2, PTL DEF Spec, ItemsSpec

(* the choice of workers, *)
LEMMA SchedAlone == Spec => SchedSpec
<1>1. Init => SchedInit
  BY DEF Init
<1>2. [Next]_servicesVars => [SchedNext]_schedVars
  <2> SUFFICES ASSUME [Next]_servicesVars PROVE [SchedNext]_schedVars
    OBVIOUS
  <2>1. CASE Next
    BY <2>1 DEF Next
  <2>2. CASE UNCHANGED servicesVars
    BY <2>2 DEF servicesVars
  <2>3. QED
    BY <2>1, <2>2
<1>3. QED
  BY <1>1, <1>2, PTL DEF Spec, SchedSpec

(* uploads, *)
LEMMA UploadAlone == Spec => UploadSpec
<1>1. Init => UploadInit
  BY DEF Init
<1>2. [Next]_servicesVars => [UploadNext]_uploadVars
  <2> SUFFICES ASSUME [Next]_servicesVars PROVE [UploadNext]_uploadVars
    OBVIOUS
  <2>1. CASE Next
    BY <2>1 DEF Next
  <2>2. CASE UNCHANGED servicesVars
    BY <2>2 DEF servicesVars
  <2>3. QED
    BY <2>1, <2>2
<1>3. QED
  BY <1>1, <1>2, PTL DEF Spec, UploadSpec

(* reads of a running bundle, *)
LEMMA ReadsAlone == Spec => ReadSpec
<1>1. Init => ReadInit
  BY DEF Init
<1>2. [Next]_servicesVars => [ReadNext]_readVars
  <2> SUFFICES ASSUME [Next]_servicesVars PROVE [ReadNext]_readVars
    OBVIOUS
  <2>1. CASE Next
    BY <2>1 DEF Next
  <2>2. CASE UNCHANGED servicesVars
    BY <2>2 DEF servicesVars
  <2>3. QED
    BY <2>1, <2>2
<1>3. QED
  BY <1>1, <1>2, PTL DEF Spec, ReadSpec

(* a worker manager, with its fairness, *)
LEMMA ManagerAlone == Spec => ManagerSpec
<1>1. Init => ManagerInit
  BY DEF Init
<1>2. [Next]_servicesVars => [ManagerNext]_managerVars
  <2> SUFFICES ASSUME [Next]_servicesVars PROVE [ManagerNext]_managerVars
    OBVIOUS
  <2>1. CASE Next
    BY <2>1 DEF Next
  <2>2. CASE UNCHANGED servicesVars
    BY <2>2 DEF servicesVars
  <2>3. QED
    BY <2>1, <2>2
<1>3. QED
  BY <1>1, <1>2, PTL DEF Spec, ManagerSpec

(* and what a worksheet shows. *)
LEMMA InterpretAlone == Spec => InterpretSpec
<1>1. Init => InterpretInit
  BY DEF Init
<1>2. [Next]_servicesVars => [InterpretNext]_interpretVars
  <2> SUFFICES ASSUME [Next]_servicesVars PROVE [InterpretNext]_interpretVars
    OBVIOUS
  <2>1. CASE Next
    BY <2>1 DEF Next
  <2>2. CASE UNCHANGED servicesVars
    BY <2>2 DEF servicesVars
  <2>3. QED
    BY <2>1, <2>2
<1>3. QED
  BY <1>1, <1>2, PTL DEF Spec, InterpretSpec

(* Every variable of every service keeps its type, whatever the services   *)
(* do and however many bundles, workers, users and items there are.        *)
THEOREM ServicesTyped == Spec => []TypeOK
<1> DEFINE Chosen == service \in {"connections", "contents", "items", "scheduling", "upload",
                                 "reads", "manager", "interpretation"}
<1>1. Init => Chosen
  BY DEF Init
<1>2. Chosen /\ [Next]_servicesVars => Chosen'
  BY DEF Next, servicesVars
<1>3. Spec => []Chosen
  <2> HIDE DEF Chosen
  <2>1. QED
    BY <1>1, <1>2, PTL DEF Spec
<1>4. Chosen /\ WsTypeOK /\ ContentTypeOK /\ ItemsTypeOK /\ SchedTypeOK /\ UploadTypeOK
        /\ ReadTypeOK /\ ManagerTypeOK /\ InterpretTypeOK => TypeOK
  BY DEF TypeOK
<1> HIDE DEF Chosen
<1>5. QED
  BY <1>3, <1>4, WsAlone, WsTypeCorrect, ContentsAlone, ContentsTyped, ItemsAlone,
     ItemsTypeCorrect, SchedAlone, SchedTypeCorrect, UploadAlone, UploadTypeCorrect,
     ReadsAlone, ReadTypeCorrect, ManagerAlone, ManagerTypeCorrect, InterpretAlone,
     InterpretTypeCorrect, PTL

(* What the services promise one by one holds while they run side by side: *)
(* acknowledged messages were written and sockets are not shared,          *)
(* contents, disk_used and quotas agree, edits of a worksheet are not lost *)
(* unseen, runs fit their workers, uploads and reads get what they asked   *)
(* for, worker managers stay within their limits, worksheets show what     *)
(* they have and keep the focus where it belongs.                          *)
THEOREM ServicesSafe ==
    Spec => /\ []AckMeansWritten /\ []Exclusive
            /\ []ReadyHasContents /\ []NoOrphans /\ []DiskUsedExact /\ []QuotaKept
            /\ []CountDetects /\ []AppendComesLast
            /\ []NoOverload /\ []ParallelRunsLimited
            /\ []UploadIntact /\ []ReadAnswered /\ []WorkersLimited /\ []AlignedWithBlocks
            /\ []EverythingShown
<1>1. Spec => []AckMeansWritten /\ []Exclusive
  BY WsAlone, AlwaysAckMeansWritten, AlwaysExclusive, PTL
<1>2. Spec => []ReadyHasContents /\ []NoOrphans /\ []DiskUsedExact /\ []QuotaKept
  BY ContentsAlone, ReadyAreComplete, DeletedAreErased, DiskUsedIsExact, QuotaIsKept, PTL
<1>3. Spec => []CountDetects /\ []AppendComesLast
  BY ItemsAlone, AlwaysCountDetects, AlwaysAppendComesLast, PTL
<1>4. Spec => []NoOverload /\ []ParallelRunsLimited
  BY SchedAlone, NeverOverloaded, ParallelRunsKept, PTL
<1>5. Spec => []UploadIntact /\ []ReadAnswered /\ []WorkersLimited
  BY UploadAlone, UploadedAsRead, ReadsAlone, AlwaysReadAnswered, ManagerAlone,
     AlwaysWorkersLimited, PTL
<1>6. Spec => []AlignedWithBlocks /\ []EverythingShown
  BY InterpretAlone, AlwaysAligned, AlwaysEverythingShown, PTL
<1>7. QED
  BY <1>1, <1>2, <1>3, <1>4, <1>5, <1>6, PTL
=============================================================================
