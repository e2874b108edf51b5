------------------------------- MODULE Decode -------------------------------
(***************************************************************************)
(* tools/decode.cpp: a program of its own that reads the items of a saved  *)
(* graph back and turns the encodings into facts.  It takes the strings at *)
(* its start, and then, for one factbase after the other, the items, the   *)
(* strings once more and the assets.  Every query sees what is committed   *)
(* when it is made.  The order the facts are printed in is left out.       *)
(***************************************************************************)
EXTENDS Facts, FiniteSets

CONSTANTS
  NoIndex,   \* option -i was not given
  Indexes    \* the factbases that -i may ask for

VARIABLES
  db,          \* the committed tables of the graph
  model,       \* the tables of the model: how many assets, their qualities
  reader,      \* the query to be made next, or how the program ended
  opt_index,   \* the factbase asked for, or NoIndex for all
  str_vector,  \* the strings taken at the start
  last,        \* max of find_all, or the factbase asked for
  index,       \* the factbase being read
  fbitems,     \* its items
  output       \* the facts printed, factbase after factbase

Queries == {"keyvalues", "max", "items", "assets"}

\* What ends it: the end of find_all or find_one; exit(1); an exception that
\* nobody catches; a read beyond a vector, after which anything may happen;
\* abort when the connection fails.
Ends == {"done", "exited", "terminated", "undefined", "aborted"}

-----------------------------------------------------------------------------
(***************************************************************************)
(* The encodings taken apart.  The bit-fields are of type int: a field     *)
(* with its highest bit set is read as a negative number.                  *)
(***************************************************************************)
Signed(field, span) == IF field < span \div 2 THEN field ELSE field - span

DecodedQuality(w) ==
  [asset |-> Signed(w[1], AssetSpan),
   attr  |-> Signed(w[2], AttrSpan),
   val   |-> Signed(w[3], ValueSpan)]

\* A variant with the two assets swapped.
TargetFirst(w) ==
  [from_asset |-> Signed(w[2], AssetSpan),
   to_asset   |-> Signed(w[1], AssetSpan),
   property   |-> Signed((w[3] \div 4) % PropSpan, PropSpan),
   value      |-> Signed(w[4], ValueSpan)]

DecodedTopology(w) ==
  [from_asset |-> Signed(w[1], AssetSpan),
   to_asset   |-> Signed(w[2], AssetSpan),
   property   |-> Signed((w[3] \div 4) % PropSpan, PropSpan),
   value      |-> Signed(w[4], ValueSpan)]

\* An asset is printed by its name, which stands for its position.
PrintedQuality(strings, w) ==
  LET dec == DecodedQuality(w)
  IN  [asset |-> dec.asset, name |-> strings[dec.attr + 1],
       value |-> strings[dec.val + 1]]

PrintedTopology(strings, w) ==
  LET dec == DecodedTopology(w)
  IN  [from |-> dec.from_asset, to |-> dec.to_asset,
       property |-> strings[dec.property + 1], value |-> strings[dec.value + 1]]

InVector(positions, len) == positions \subseteq 0 .. len - 1

\* The indexing of assets and str_vector stays within them.
WithinVectors(item) ==
  IF item.type = "quality"
  THEN LET dec == DecodedQuality(item.f)
       IN  /\ InVector({dec.asset}, model.assets)
           /\ InVector({dec.attr, dec.val}, Len(str_vector))
  ELSE LET dec == DecodedTopology(item.f)
       IN  /\ InVector({dec.from_asset, dec.to_asset}, model.assets)
           /\ InVector({dec.property, dec.value}, Len(str_vector))

Printed(item) ==
  IF item.type = "quality" THEN PrintedQuality(str_vector, item.f)
                           ELSE PrintedTopology(str_vector, item.f)

-----------------------------------------------------------------------------
(* The queries.  The rows of keyvalue come back in the order they were     *)
(* inserted in, which is that of their ids.                                *)

KeyvalueRows == db["keyvalue"]

KeyvalueStrings ==
  [i \in 1 .. Cardinality(KeyvalueRows) |->
     (CHOOSE row \in KeyvalueRows : row.id = i - 1).property]

FactbaseIds == {row.id : row \in db["factbase"]}

fetch_one_factbase_items(i) == {row \in db["factbase_item"] : row.id = i}

Start ==
  /\ reader = "keyvalues"
  /\ opt_index \in Indexes \cup {NoIndex}
  /\ str_vector = << >>
  /\ last = 0
  /\ index = 0
  /\ fbitems = {}
  /\ output = << >>

fetch_keyvalues ==
  /\ reader = "keyvalues"
  /\ str_vector' = KeyvalueStrings
  /\ IF opt_index = NoIndex
     THEN /\ reader' = "max"
          /\ UNCHANGED << last, index >>
     ELSE /\ reader' = "items"
          /\ last' = opt_index
          /\ index' = opt_index
  /\ UNCHANGED << opt_index, fbitems, output, db, model >>

\* The maximum of no ids is NULL, and stoi throws.
get_max_factbase_id ==
  /\ reader = "max"
  /\ IF FactbaseIds = {}
     THEN reader' = "terminated" /\ UNCHANGED last
     ELSE reader' = "items" /\ last' = Max(FactbaseIds)
  /\ UNCHANGED << opt_index, str_vector, index, fbitems, output, db, model >>

\* A variant that asks again until there are items.
AskAgain(rows) == IF rows = {} THEN "items" ELSE "assets"

\* No items: find_one_impl exits.
ExitIfNone(rows) == IF rows = {} THEN "exited" ELSE "assets"

FetchItems ==
  /\ reader = "items"
  /\ fbitems' = fetch_one_factbase_items(index)
  /\ reader' = ExitIfNone(fbitems')
  /\ UNCHANGED << opt_index, str_vector, last, index, output, db, model >>

(***************************************************************************)
(* fetch_kv and fetch_all_assets, whose qualities look their strings up in *)
(* the Keyvalue just read, and then the printing, which uses the strings   *)
(* of the start.  The tables of the model do not change any more when a    *)
(* graph is saved, so the three queries are one step.                      *)
(***************************************************************************)
AssetStrings ==
  UNION {{q.name, q.value} : q \in ToSet(model.initial_qualities)}

\* A variant that prints up to the last factbase but one.
LastButOne == index + 1 >= last

AllRead == index >= last

PrintItems ==
  /\ reader = "assets"
  /\ IF ~ (AssetStrings \subseteq ToSet(KeyvalueStrings))
     THEN reader' = "terminated" /\ UNCHANGED << index, output >>
     ELSE IF \E item \in fbitems : ~ WithinVectors(item)
     THEN reader' = "undefined" /\ UNCHANGED << index, output >>
     ELSE /\ output' = Append(output, {Printed(item) : item \in fbitems})
          /\ reader' = IF AllRead THEN "done" ELSE "items"
          /\ index' = IF AllRead THEN index ELSE index + 1
  /\ UNCHANGED << opt_index, str_vector, last, fbitems, db, model >>

\* The server has gone: DB::exec calls abort.
ConnectionFails ==
  /\ reader \in Queries
  /\ reader' = "aborted"
  /\ UNCHANGED << opt_index, str_vector, last, index, fbitems, output, db, model >>

Read == fetch_keyvalues \/ get_max_factbase_id \/ FetchItems \/ PrintItems

=============================================================================
