--------------------------- MODULE Interpretation ---------------------------
(***************************************************************************)
(* What a worksheet shows (codalab/lib/worksheet_util.py:637-1177):        *)
(* interpret_items reads the items of a worksheet one by one, collects     *)
(* bundles, subworksheets and the fields of a schema, and flushes what it  *)
(* has collected into blocks when another kind of item comes.  With the    *)
(* blocks goes an alignment of items with the places where they are shown, *)
(* by which the web keeps its focus.                                       *)
(*                                                                         *)
(* An item is what distinguishes it to the algorithm.  Positions count     *)
(* from 1 where the code counts from 0.                                    *)
(***************************************************************************)
EXTENDS Naturals, Sequences, SequencesExt, FiniteSetsExt

CONSTANTS
    Items,      \* the kinds of items that worksheets are made of
    NoPlace,    \* an item that is shown nowhere
    MaxItems    \* bound on the items of a worksheet

Displays == {"table", "graph", "record", "contents", "hidden", "no such mode"}
BundleItems == {"bundle", "inaccessible bundle"}
SchemaFields == {"add", "addschema undefined"}

ASSUME ItemsAssumption ==
    Items \subseteq Displays \union BundleItems \union SchemaFields \union
                    {"worksheet", "text", "blank", "comment", "schema", "search",
                     "wsearch", "unknown"}
ASSUME NoPlaceAssumption == NoPlace \notin Nat \X Nat /\ MaxItems \in Nat

VARIABLES
    rawItems,     \* those that have been read
    blocks,
    rawToBlock,   \* of each raw item, its block and its place in it
    collected,    \* bundle_infos, worksheet_infos, current_schema_ids
    firstBundle,  \* bundle_block_start_index, 0 for -1
    display,      \* current_display
    joinable,     \* not last_was_empty_line
    blockToRaw    \* a set: of one map once everything has been read

interpretVars == <<rawItems, blocks, rawToBlock, collected, firstBundle, display, joinable,
                   blockToRaw>>

Index == 1..MaxItems
Place == (1..2 * MaxItems) \X Index

Block == [mode : Displays \union {"markup", "subworksheets", "schema", "placeholder"},
          items : Seq(Index), error : BOOLEAN, first : 0..MaxItems]

Collection == [bundles : Seq(Index), worksheets : Seq(Index), schema : Seq(Index)]
Nothing == [bundles |-> <<>>, worksheets |-> <<>>, schema |-> <<>>]

InterpretTypeOK ==
    /\ rawItems \in Seq(Items)
    /\ blocks \in Seq(Block)
    /\ rawToBlock \in Seq(Place \union {NoPlace})
    /\ collected \in Collection
    /\ firstBundle \in 0..MaxItems
    /\ display \in Displays
    /\ joinable \in BOOLEAN
    /\ \A map \in blockToRaw : DOMAIN map \subseteq Place /\ \A at \in DOMAIN map : map[at] \in Nat

InterpretInit ==
    /\ rawItems = <<>>
    /\ blocks = <<>>
    /\ rawToBlock = <<>>
    /\ collected = Nothing
    /\ firstBundle = 0
    /\ display = "table"
    /\ joinable = TRUE
    /\ blockToRaw = {}

-----------------------------------------------------------------------------
(* Flushing *)

Shows(mode, items) == [mode |-> mode, items |-> items, error |-> FALSE, first |-> 0]
Error(i) == [mode |-> "markup", items |-> <<i>>, error |-> TRUE, first |-> 0]

(* A bundle in a block of its own: mode contents cannot show what the user *)
(* may not read. *)
OneBundle(mode, item, i) ==
    IF mode = "contents" /\ item = "inaccessible bundle" THEN Error(i)
    ELSE [Shows(mode, <<i>>) EXCEPT !.first = IF mode = "record" THEN firstBundle ELSE 0]

(* flush_bundles, which raises UsageError for a mode it does not know.     *)
(* Other modes have the arguments they need. *)
FlushFails == collected.bundles # <<>> /\ display = "no such mode"

FlushBundles(items) ==
    LET bundles == collected.bundles IN
    CASE bundles = <<>> \/ display = "hidden" -> <<>>
      [] bundles # <<>> /\ display = "table" ->
           <<[Shows("table", bundles) EXCEPT !.first = firstBundle]>>
      [] bundles # <<>> /\ display = "graph" -> <<Shows("graph", bundles)>>
      [] bundles # <<>> /\ display \in {"record", "contents"} ->
           [n \in DOMAIN bundles |-> OneBundle(display, items[bundles[n]], bundles[n])]

FlushWorksheets ==
    IF collected.worksheets = <<>> THEN <<>> ELSE <<Shows("subworksheets", collected.worksheets)>>

FlushSchema ==
    IF collected.schema = <<>> THEN <<>> ELSE <<Shows("schema", collected.schema)>>

(* What an item flushes before it is interpreted itself. *)
FlushedBy(item) ==
    (IF item \in BundleItems THEN <<>> ELSE FlushBundles(rawItems))
      \o (IF item = "worksheet" THEN <<>> ELSE FlushWorksheets)
      \o (IF item \in SchemaFields THEN <<>> ELSE FlushSchema)

StillCollected(item) ==
    [bundles |-> IF item \in BundleItems THEN collected.bundles ELSE <<>>,
     worksheets |-> IF item = "worksheet" THEN collected.worksheets ELSE <<>>,
     schema |-> IF item \in SchemaFields THEN collected.schema ELSE <<>>]

(* Reset display to minimize long distance dependencies of directives. *)
ResetDisplay(item) == IF item \in BundleItems \union {"search"} THEN display ELSE "table"

-----------------------------------------------------------------------------
(* One item.  Whoever is not shown has no place. *)

Here == Len(rawItems) + 1

(* Mutant: the index of the first bundle is not reset. *)
FirstBundleEver(item) ==
    IF item \in BundleItems /\ firstBundle = 0 THEN Here ELSE firstBundle

FirstBundle(item) ==
    CASE item \notin BundleItems -> 0
      [] item \in BundleItems /\ firstBundle = 0 -> Here
      [] OTHER -> firstBundle

Take(item) ==
    /\ item \in Items
    /\ blockToRaw = {} /\ Len(rawItems) < MaxItems
    /\ rawItems' = Append(rawItems, item)
    /\ UNCHANGED blockToRaw

(* It is interpreted if what came before it can be flushed. *)
Interpret(item) ==
    /\ Take(item)
    /\ item \in BundleItems \/ ~FlushFails
    /\ display' = IF item \in Displays THEN item ELSE ResetDisplay(item)
    /\ firstBundle' = FirstBundle(item)
    /\ joinable' = (item = "text")

Flushed(item) == blocks \o FlushedBy(item)

Bundle(item) ==
    /\ item \in BundleItems
    /\ Interpret(item)
    /\ blocks' = Flushed(item)
    /\ rawToBlock' = Append(rawToBlock, <<Len(blocks') + 1, Len(collected.bundles) + 1>>)
    /\ collected' = [StillCollected(item) EXCEPT !.bundles = Append(@, Here)]

Subworksheet(item) ==
    /\ item = "worksheet"
    /\ Interpret(item)
    /\ blocks' = Flushed(item)
    /\ rawToBlock' = Append(rawToBlock, <<Len(blocks') + 1, Len(collected.worksheets) + 1>>)
    /\ collected' = [StillCollected(item) EXCEPT !.worksheets = Append(@, Here)]

(* Lines that follow each other become one block. *)
Text(item) ==
    /\ item = "text"
    /\ Interpret(item)
    /\ LET before == Flushed(item) IN
       blocks' = IF joinable /\ before # <<>> /\ Last(before).mode = "markup"
                   THEN [before EXCEPT ![Len(before)].items = Append(@, Here)]
                   ELSE Append(before, Shows("markup", <<Here>>))
    /\ rawToBlock' = Append(rawToBlock, <<Len(blocks'), 1>>)
    /\ collected' = StillCollected(item)

(* Blank lines, comments and display directives. *)
Silent(item) ==
    /\ item \in Displays \union {"blank", "comment"}
    /\ Interpret(item)
    /\ blocks' = Flushed(item)
    /\ rawToBlock' = Append(rawToBlock, NoPlace)
    /\ collected' = StillCollected(item)

(* The block of a schema is appended after its last field. *)
Schema(item) ==
    /\ item = "schema"
    /\ Interpret(item)
    /\ blocks' = Flushed(item)
    /\ rawToBlock' = Append(rawToBlock, <<Len(blocks') + 1, 1>>)
    /\ collected' = [StillCollected(item) EXCEPT !.schema = <<Here>>]

Add(item) ==
    /\ item = "add" /\ collected.schema # <<>>
    /\ Interpret(item)
    /\ blocks' = Flushed(item)
    /\ rawToBlock' = Append(rawToBlock, NoPlace)
    /\ collected' = [StillCollected(item) EXCEPT !.schema = Append(@, Here)]

(* In brief mode a search is a placeholder. *)
Search(item) ==
    /\ item \in {"search", "wsearch"}
    /\ Interpret(item)
    /\ blocks' = Append(Flushed(item), Shows("placeholder", <<Here>>))
    /\ rawToBlock' = Append(rawToBlock, <<Len(blocks'), 1>>)
    /\ collected' = StillCollected(item)

(* A directive that makes no sense: what has been flushed stays. *)
Senseless(item) ==
    /\ \/ item \in {"unknown", "addschema undefined"}
       \/ item = "add" /\ collected.schema = <<>>
    /\ Interpret(item)
    /\ blocks' = Append(Flushed(item), Error(Here))
    /\ rawToBlock' = Append(rawToBlock, <<Len(blocks'), 1>>)
    /\ collected' = Nothing

(* The item that makes the flush fail is lost with what was collected. *)
NotFlushed(item) ==
    /\ item \notin BundleItems
    /\ Take(item)
    /\ FlushFails
    /\ blocks' = Append(blocks, Error(Here))
    /\ rawToBlock' = Append(rawToBlock, <<Len(blocks'), 1>>)
    /\ collected' = Nothing
    /\ joinable' = FALSE
    /\ UNCHANGED <<firstBundle, display>>

-----------------------------------------------------------------------------
(* The end of the list *)

(* Items that are shown nowhere lead to the next one that is shown.        *)
Resolved(places) ==
    [i \in DOMAIN places |->
       LET shown == {j \in DOMAIN places : j >= i /\ places[j] # NoPlace}
       IN  IF shown = {} THEN NoPlace ELSE places[Min(shown)]]

(* Bias towards the last item. *)
BlockToRaw(places) ==
    [at \in ToSet(places) \ {NoPlace} |-> Max({i \in DOMAIN places : places[i] = at})]

(* Mutant: the code that appends a schema is repeated for the end, and may *)
(* be forgotten there. *)
FlushedAtEndNoSchema == FlushBundles(rawItems) \o FlushWorksheets

FlushedAtEnd == FlushBundles(rawItems) \o FlushWorksheets \o FlushSchema

(* The flush after the last item.  If it fails the item has two places.    *)
EndOfItems ==
    /\ blockToRaw = {}
    /\ blocks' = IF FlushFails THEN Append(blocks, Error(Len(rawItems)))
                 ELSE blocks \o FlushedAtEnd
    /\ LET places == IF FlushFails THEN Append(rawToBlock, <<Len(blocks'), 1>>) ELSE rawToBlock
       IN  /\ rawToBlock' = Resolved(places)
           /\ blockToRaw' = {BlockToRaw(places)}
    /\ collected' = Nothing
    /\ UNCHANGED <<rawItems, firstBundle, display, joinable>>

-----------------------------------------------------------------------------
InterpretNext ==
    \/ \E item \in Items :
         \/ Bundle(item) \/ Subworksheet(item) \/ Text(item) \/ Silent(item)
         \/ Schema(item) \/ Add(item) \/ Search(item)
         \/ Senseless(item) \/ NotFlushed(item)
    \/ EndOfItems

InterpretSpec == InterpretInit /\ [][InterpretNext]_interpretVars

-----------------------------------------------------------------------------
Interpreted == blockToRaw # {}

(* Whatever is shown is shown where raw_to_block says, so that the focus   *)
(* goes to it: a row of a table or of a list of worksheets, a paragraph, a *)
(* search or a schema, or for bundles with blocks of their own the block   *)
(* that many after the first.  A table knows the item it begins with.      *)
AlignedWithBlocks ==
    Interpreted =>
      \A b \in DOMAIN blocks : ~blocks[b].error =>
        /\ \A n \in DOMAIN blocks[b].items :
             LET at == rawToBlock[blocks[b].items[n]] IN
             CASE blocks[b].mode \in {"table", "graph", "subworksheets"} -> at = <<b, n>>
               [] blocks[b].mode \in {"record", "contents"} -> at[1] + at[2] = b + 1
               [] blocks[b].mode = "schema" -> n = 1 => at = <<b, 1>>
               [] OTHER -> at = <<b, 1>>
        /\ blocks[b].mode = "table" => blocks[b].first = blocks[b].items[1]

(* Every paragraph, bundle and subworksheet is shown once and in order,    *)
(* unless the display is hidden or an error stands for it: the item itself *)
(* could not be interpreted, or the bundles that it ends.                  *)
EverythingShown ==
    LET Shown(i) == \E b \in DOMAIN blocks : i \in ToSet(blocks[b].items)
        Failed(k) == \E b \in DOMAIN blocks : blocks[b].error /\ blocks[b].items[1] = k
        Hidden(i) ==
            /\ rawItems[i] \in BundleItems
            /\ \E j \in 1..i - 1 :
                 /\ rawItems[j] = "hidden"
                 /\ \A k \in j + 1..i - 1 : rawItems[k] \in BundleItems \union {"search"}
        Excused(i) ==
            \E k \in i..Len(rawItems) :
              /\ Failed(k)
              /\ \/ \A j \in i..k - 1 : rawItems[j] \in BundleItems
                 \/ rawItems[i] = "schema" /\ \A j \in i + 1..k : rawItems[j] \in SchemaFields
    IN  Interpreted =>
          /\ \A b, c \in DOMAIN blocks :
               \A m \in DOMAIN blocks[b].items, n \in DOMAIN blocks[c].items :
                 b < c \/ (b = c /\ m < n) => blocks[b].items[m] < blocks[c].items[n]
          /\ \A i \in DOMAIN rawItems :
               rawItems[i] \in BundleItems \union {"worksheet", "text", "schema"} =>
                 Shown(i) \/ Hidden(i) \/ Excused(i)
=============================================================================
