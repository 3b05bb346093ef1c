--------------------------- MODULE WorksheetItems ---------------------------
(***************************************************************************)
(* The items of one worksheet (codalab/model/bundle_model.py:1688-1836,    *)
(* codalab/rest/worksheets.py).  A row of worksheet_item has the id the    *)
(* database gave it, and perhaps a sort_key; the worksheet shows its items *)
(* in the order of item_sort_key.  The command line appends, the web       *)
(* inserts after a sort_key, and an edit of the whole worksheet replaces   *)
(* what its handler has read, unless somebody was faster.                  *)
(***************************************************************************)
EXTENDS Integers, FiniteSets

CONSTANTS
    Editors,    \* requests that replace the items of the worksheet
    Null,       \* sort_key NULL
    MaxId,      \* bound on the ids the database gives
    MaxInsert   \* bound on the items of one request of the web

ASSUME NullAssumption == Null \notin Int
ASSUME BoundAssumption == MaxId \in Nat /\ MaxInsert \in Nat \ {0}

VARIABLES
    rows,     \* worksheet_item
    nextId,   \* AUTO_INCREMENT of worksheet_item, shared by all worksheets
    edit      \* what a request has read, and where it is

itemVars == <<rows, nextId, edit>>

(* item tells one item from another: the first id it had. *)
Row == [id : Nat, key : Int \union {Null}, item : Nat]

Closed == [pc |-> "closed", read |-> {}, last |-> -1]

ItemsTypeOK ==
    /\ rows \subseteq Row
    /\ nextId \in Nat
    /\ edit \in [Editors -> [pc : {"closed", "normalize", "reread", "open"},
                             read : SUBSET Row, last : Int]]

ItemsInit ==
    /\ rows = {}
    /\ nextId = 1
    /\ edit = [e \in Editors |-> Closed]

item_sort_key(r) == IF r.key = Null THEN r.id ELSE r.key

(* The worksheet as it is shown.  Rows with the same key come in the order *)
(* of the index. *)
Before(r, s) ==
    \/ item_sort_key(r) < item_sort_key(s)
    \/ item_sort_key(r) = item_sort_key(s) /\ r.id < s.id

Position(r, rs) == Cardinality({s \in rs : Before(s, r)})

(* Rows of n new items, with the ids from first and the keys from k on. *)
NewRows(n, first, k) ==
    {[id |-> first + i, key |-> k + i, item |-> first + i] : i \in 0 .. n - 1}

-----------------------------------------------------------------------------
(* add_worksheet_items: without after_sort_key, and with it *)

AppendItem ==
    /\ nextId < MaxId
    /\ rows' = rows \union {[id |-> nextId, key |-> Null, item |-> nextId]}
    /\ nextId' = nextId + 1
    /\ UNCHANGED edit

(* The rows after the place.  The code asks "sort_key is Null" of the      *)
(* column object, which is never so: rows without a key are not in it.      *)
AfterItems(rs, k) == {r \in rs : r.key # Null /\ r.key > k}

(* Mutant: updates the rows in place. *)
ShiftedInPlace(after, first, n) ==
    {[r EXCEPT !.key = item_sort_key(r) + n] : r \in after}

(* Shifted rows are deleted and inserted again, in the order of their ids. *)
Shifted(after, first, n) ==
    {[id |-> first + Cardinality({s \in after : s.id < r.id}),
      key |-> item_sort_key(r) + n, item |-> r.item] : r \in after}

Insert(k, n, replace) ==
    LET kept == {r \in rows : r.id \notin replace}
        after == AfterItems(kept, k)
        shifting == \E r \in after : item_sort_key(r) - k <= n
        moved == IF shifting THEN after ELSE {}
        first == nextId + Cardinality(moved)
    IN  /\ first + n <= MaxId
        /\ rows' = (kept \ moved) \union Shifted(moved, nextId, n)
                     \union NewRows(n, first, k + 1)
        /\ nextId' = first + n

(* replace_items: a page of the web may be old, so the place and the row    *)
(* to replace need not be there any more; -1 is the top. *)
InsertAfter ==
    /\ \E k \in -1 .. nextId - 1, n \in 0 .. MaxInsert,
          replace \in {{}} \union {{i} : i \in 1 .. nextId - 1} : Insert(k, n, replace)
    /\ UNCHANGED edit

(* add_shadow_worksheet_items: the key of the old item, at each place. *)
AddShadow(r) ==
    /\ r \in rows
    /\ nextId < MaxId
    /\ rows' = rows \union {[id |-> nextId, key |-> r.key, item |-> nextId]}
    /\ nextId' = nextId + 1
    /\ UNCHANGED edit

(* delete_bundles removes the items of the bundle. *)
DeleteItem(r) ==
    /\ r \in rows
    /\ rows' = rows \ {r}
    /\ UNCHANGED <<nextId, edit>>

-----------------------------------------------------------------------------
(* get_worksheet_info and update_worksheet_items *)

LastId(rs) == IF rs = {} THEN -1 ELSE CHOOSE i \in {r.id : r \in rs} :
                                         \A r \in rs : r.id <= i

Snapshot(pc) == [pc |-> pc, read |-> rows, last |-> LastId(rows)]

(* Rows without a key make get_worksheet_info write keys first. *)
ReadItems(e) ==
    /\ edit[e].pc = "closed"
    /\ edit' = [edit EXCEPT ![e] =
                 Snapshot(IF \E r \in rows : r.key = Null THEN "normalize" ELSE "open")]
    /\ UNCHANGED <<rows, nextId>>

RereadItems(e) ==
    /\ edit[e].pc = "reread"
    /\ edit' = [edit EXCEPT ![e] = Snapshot("open")]
    /\ UNCHANGED <<rows, nextId>>

(* The DELETE of update_worksheet_items, and its check of rowcount. *)
Replaced(e) == {r \in rows : r.id <= edit[e].last}

Unchanged(e) == Cardinality(Replaced(e)) = Cardinality(edit[e].read)

ReplaceItems(e, new, n, pc) ==
    /\ Unchanged(e)
    /\ nextId + n <= MaxId
    /\ rows' = (rows \ Replaced(e)) \union new
    /\ nextId' = nextId + n
    /\ edit' = [edit EXCEPT ![e] = IF pc = "closed" THEN Closed ELSE [@ EXCEPT !.pc = pc]]

(* Mutant: leaves room between the items. *)
NormalizeWithGaps(e) ==
    /\ edit[e].pc = "normalize"
    /\ LET read == edit[e].read
           n == Cardinality(read)
       IN  ReplaceItems(e, {[id |-> nextId + Position(r, read),
                      key |-> edit[e].last + 10 * (Position(r, read) + 1),
                      item |-> r.item] : r \in read}, n, "reread")

(* The same items in the same order, with keys. *)
Normalize(e) ==
    /\ edit[e].pc = "normalize"
    /\ LET read == edit[e].read
           n == Cardinality(read)
       IN  ReplaceItems(e, {[id |-> nextId + Position(r, read),
                      key |-> edit[e].last + Position(r, read) - n,
                      item |-> r.item] : r \in read}, n, "reread")

(* The edit writes items of its own, which of the old ones it keeps does    *)
(* not matter here. *)
Commit(e) ==
    /\ edit[e].pc = "open"
    /\ \E n \in 0 .. MaxInsert :
         ReplaceItems(e, NewRows(n, nextId, edit[e].last - n), n, "closed")

(* UsageError, "was updated concurrently"; or the request only reads.      *)
CloseEdit(e) ==
    /\ edit[e].pc # "closed"
    /\ edit[e].pc = "open" \/ ~Unchanged(e)
    /\ edit' = [edit EXCEPT ![e] = Closed]
    /\ UNCHANGED <<rows, nextId>>

-----------------------------------------------------------------------------
ItemsNext ==
    \/ AppendItem \/ InsertAfter
    \/ \E r \in rows : AddShadow(r) \/ DeleteItem(r)
    \/ \E e \in Editors : ReadItems(e) \/ RereadItems(e) \/ Normalize(e)
                           \/ Commit(e) \/ CloseEdit(e)

ItemsSpec == ItemsInit /\ [][ItemsNext]_itemVars

-----------------------------------------------------------------------------
(* An edit replaces what it has read or nothing: the number of deleted     *)
(* rows tells it whether there have been changes, although others may have *)
(* deleted rows and inserted as many (bundle_model.py:1828-1833).          *)
CountDetects ==
    \A e \in Editors :
        edit[e].pc # "closed" /\ Unchanged(e) => Replaced(e) = edit[e].read

(* What the command line appends next comes after everything that is there,*)
(* whatever keys the web and edits gave (objects/worksheet.py:14-18).      *)
AppendComesLast == \A r \in rows : item_sort_key(r) < nextId

(* An insertion leaves the items that were there in their order            *)
(* (bundle_model.py:1702: "Shift existing items' sort_keys for items that  *)
(* originally came after the after_sort_key").                             *)
InsertKeepsOrder ==
    [][InsertAfter =>
        \A r, s \in rows : \A x, y \in rows' :
          r.item = x.item /\ s.item = y.item /\ item_sort_key(r) < item_sort_key(s)
            => item_sort_key(x) <= item_sort_key(y)]_itemVars
=============================================================================
