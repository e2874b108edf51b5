----------------------------- MODULE ModelImport -----------------------------
(***************************************************************************)
(* The runs of ag_gen on one database, up to the model a run hands to the  *)
(* generator: main parses the two files, turns them into INSERT commands,  *)
(* has the server execute one string of commands after the other, and      *)
(* reads the tables back.  A run may be killed anywhere, the next one      *)
(* finds the tables as it left them, and clear_db.sh empties them.         *)
(*                                                                         *)
(* A command string is one transaction: the server carries out all of it   *)
(* or nothing.  SELECT without ORDER BY gives the rows in the order they   *)
(* were inserted.  Ids and positions count from 0 as in the code.          *)
(***************************************************************************)
EXTENDS SequencesExt, FiniteSetsExt, Integers

CONSTANTS
  Networks,      \* parsed .nm files: [assets, facts]
  ExploitFiles,  \* parsed .xp files: sequences of [name, params,
                 \* preconditions, postconditions]
  NoFile,        \* the option -n or -x was not given
  MaxRuns        \* bound: the most runs

FactType ==
  [type : {"quality", "topology"}, from : STRING, to : STRING, dir : STRING,
   obj : STRING, op : STRING, val : STRING]

NetworkType == [assets : Seq(STRING), facts : Seq(FactType)]

ExploitType ==
  [name : STRING, params : Seq(STRING), preconditions : Seq(FactType),
   postconditions : Seq([op : STRING, f : FactType])]

ASSUME ImportAssumption ==
  /\ \A n \in Networks : n \in NetworkType
  /\ \A x \in ExploitFiles : x \in Seq(ExploitType)
  /\ NoFile \notin Networks /\ NoFile \notin ExploitFiles
  /\ MaxRuns \in Nat

VARIABLES
  run,       \* the number of runs so far
  nm, xp,    \* the files of the current run
  phase,     \* what the current run does next; "idle" between runs
  outcome,   \* how the last run ended
  tables,    \* the tables of the models, each a sequence of rows
  writers,   \* which runs put rows there, and which a graph
  model      \* what the current run has read back so far

ivars == << run, nm, xp, phase, outcome, tables, writers, model >>

-----------------------------------------------------------------------------
\* get_hashtable on a table filled with the names in order: module HashTable.
IndexFromOne(names, name) == SelectInSeq(names, LAMBDA n : n = name)

Index(names, name) == SelectInSeq(names, LAMBDA n : n = name) - 1

\* The rows at the given places, appended one after the other as a loop does.
Chosen(rows, places) ==
  LET kept[i \in 0 .. Len(rows)] ==
        IF i = 0 THEN << >>
        ELSE IF i \in places THEN Append(kept[i - 1], rows[i]) ELSE kept[i - 1]
  IN  kept[Len(rows)]

OfType(facts, type) == Chosen(facts, {i \in DOMAIN facts : facts[i].type = type})

\* make_asset, make_quality, make_topology, make_exploit.
AssetRows(n) == [i \in DOMAIN n.assets |-> [id |-> i - 1, name |-> n.assets[i]]]

QualityRows(n) ==
  LET quals == OfType(n.facts, "quality")
  IN  [i \in DOMAIN quals |->
         [asset_id |-> Index(n.assets, quals[i].from),
          property |-> quals[i].obj, op |-> quals[i].op, value |-> quals[i].val]]

TopologyRows(n) ==
  LET topos == OfType(n.facts, "topology")
  IN  [i \in DOMAIN topos |->
         [asset_from_id |-> Index(n.assets, topos[i].from),
          asset_to_id |-> Index(n.assets, topos[i].to),
          direction |-> topos[i].dir,
          property |-> topos[i].obj, op |-> topos[i].op, value |-> topos[i].val]]

ExploitRows(x) ==
  [i \in DOMAIN x |-> [id |-> i - 1, name |-> x[i].name, params |-> Len(x[i].params)]]

(***************************************************************************)
(* make_precondition and make_postcondition.  The exploit is found by its  *)
(* name.  For a quality, NULL is printed as 0 and as a name of no          *)
(* direction.                                                              *)
(***************************************************************************)
ExploitId(x, exploit) ==
  Index([i \in DOMAIN x |-> x[i].name], exploit.name)

ConditionRow(x, exploit, f, action) ==
  [exploit_id |-> ExploitId(x, exploit),
   type |-> f.type,
   param1 |-> Index(exploit.params, f.from),
   param2 |-> IF f.type = "quality" THEN 0 ELSE Index(exploit.params, f.to),
   property |-> f.obj, value |-> f.val, op |-> f.op,
   dir |-> IF f.type = "quality" THEN "(null)" ELSE f.dir,
   action |-> action]

PreconditionRows(x) ==
  FlattenSeq([i \in DOMAIN x |->
    [j \in DOMAIN x[i].preconditions |->
       ConditionRow(x, x[i], x[i].preconditions[j], "none")]])

PostconditionRows(x) ==
  FlattenSeq([i \in DOMAIN x |->
    [j \in DOMAIN x[i].postconditions |->
       ConditionRow(x, x[i], x[i].postconditions[j].f, x[i].postconditions[j].op)]])

-----------------------------------------------------------------------------
(***************************************************************************)
(* What the parser makes of an empty list, a NULL, and an INSERT without   *)
(* rows, which has no comma to replace, both make the program crash.       *)
(***************************************************************************)
NetworkCrashes(n) ==
  \/ n.assets = << >>
  \/ OfType(n.facts, "quality") = << >>
  \/ OfType(n.facts, "topology") = << >>

ExploitsCrash(x) ==
  \/ x = << >>
  \/ \E e \in ToSet(x) :
       e.params = << >> \/ e.preconditions = << >> \/ e.postconditions = << >>

\* The server refuses a row whose key is taken or whose asset is not there.
KeysFree(old, new) == IsInjective(new) /\ ToSet(old) \cap ToSet(new) = {}

AssetIds(rows) == [i \in DOMAIN rows |-> rows[i].id]

QualityKeys(rows) == [i \in DOMAIN rows |-> << rows[i].asset_id, rows[i].property >>]

TopologyKeys(rows) ==
  [i \in DOMAIN rows |->
     << rows[i].asset_from_id, rows[i].asset_to_id, rows[i].property >>]

NetworkAllowed(n) ==
  LET assets == ToSet(AssetIds(tables.asset \o AssetRows(n)))
  IN  /\ KeysFree(AssetIds(tables.asset), AssetIds(AssetRows(n)))
      /\ KeysFree(QualityKeys(tables.quality), QualityKeys(QualityRows(n)))
      /\ KeysFree(TopologyKeys(tables.topology), TopologyKeys(TopologyRows(n)))
      /\ \A r \in ToSet(QualityRows(n)) : r.asset_id \in assets
      /\ \A r \in ToSet(TopologyRows(n)) : {r.asset_from_id, r.asset_to_id} \subseteq assets

ExploitsAllowed(x) ==
  KeysFree(AssetIds(tables.exploit), AssetIds(ExploitRows(x)))

-----------------------------------------------------------------------------
EmptyTables ==
  [asset |-> << >>, quality |-> << >>, topology |-> << >>, exploit |-> << >>,
   precondition |-> << >>, postcondition |-> << >>]

NoWriters == [network |-> {}, exploits |-> {}, graph |-> {}]

EmptyModel ==
  [qualities |-> << >>, topologies |-> << >>, assets |-> << >>, exploits |-> << >>]

Init ==
  /\ run = 0
  /\ nm = NoFile /\ xp = NoFile
  /\ phase = "idle"
  /\ outcome = "none"
  /\ tables = EmptyTables
  /\ writers = NoWriters
  /\ model = EmptyModel

Start ==
  /\ phase = "idle"
  /\ run < MaxRuns
  /\ run' = run + 1
  /\ nm' \in Networks \cup {NoFile}
  /\ xp' \in ExploitFiles \cup {NoFile}
  /\ phase' = "parse_nm"
  /\ outcome' = "none"
  /\ model' = EmptyModel
  /\ UNCHANGED << tables, writers >>

\* clear_db.sh
Clear ==
  /\ phase = "idle"
  /\ tables # EmptyTables
  /\ tables' = EmptyTables
  /\ writers' = NoWriters
  /\ UNCHANGED << run, nm, xp, phase, outcome, model >>

End(how) ==
  /\ phase' = "idle"
  /\ outcome' = how
  /\ UNCHANGED << run, nm, xp, tables, writers, model >>

Goto(next) ==
  /\ phase' = next
  /\ UNCHANGED << run, nm, xp, outcome >>

Kill == phase # "idle" /\ End("killed")

-----------------------------------------------------------------------------
\* Without a file there is nothing to parse and the command string is empty.
parse_nm ==
  /\ phase = "parse_nm"
  /\ \/ /\ nm # NoFile /\ NetworkCrashes(nm)
        /\ End("crash")
     \/ /\ ~ (nm # NoFile /\ NetworkCrashes(nm))
        /\ Goto("parse_xp")
        /\ UNCHANGED << tables, writers, model >>

parse_xp ==
  /\ phase = "parse_xp"
  /\ \/ /\ xp # NoFile /\ ExploitsCrash(xp)
        /\ End("crash")
     \/ /\ ~ (xp # NoFile /\ ExploitsCrash(xp))
        /\ Goto("import_nm")
        /\ UNCHANGED << tables, writers, model >>

(***************************************************************************)
(* import_models.  The server has an answer of its own for an empty string *)
(* of commands, which exec takes for an error; any error ends in abort.    *)
(***************************************************************************)
\* A variant that takes it for success.
NeverAnError(file) == FALSE

EmptyQuery(file) == file = NoFile

Network == IF nm = NoFile THEN [assets |-> << >>, facts |-> << >>] ELSE nm

Exploits == IF xp = NoFile THEN << >> ELSE xp

WriterOf(file) == IF file = NoFile THEN {} ELSE {run}

import_nm ==
  /\ phase = "import_nm"
  /\ \/ /\ EmptyQuery(nm) \/ ~ NetworkAllowed(Network)
        /\ End("abort")
     \/ /\ ~ EmptyQuery(nm) /\ NetworkAllowed(Network)
        /\ tables' = [tables EXCEPT !.asset = @ \o AssetRows(Network),
                                    !.quality = @ \o QualityRows(Network),
                                    !.topology = @ \o TopologyRows(Network)]
        /\ writers' = [writers EXCEPT !.network = @ \cup WriterOf(nm)]
        /\ Goto("import_xp")
        /\ UNCHANGED model

import_xp ==
  /\ phase = "import_xp"
  /\ \/ /\ EmptyQuery(xp) \/ ~ ExploitsAllowed(Exploits)
        /\ End("abort")
     \/ /\ ~ EmptyQuery(xp) /\ ExploitsAllowed(Exploits)
        /\ tables' = [tables EXCEPT !.exploit = @ \o ExploitRows(Exploits),
                                    !.precondition = @ \o PreconditionRows(Exploits),
                                    !.postcondition = @ \o PostconditionRows(Exploits)]
        /\ writers' = [writers EXCEPT !.exploits = @ \cup WriterOf(xp)]
        /\ Goto("fetch_topologies")
        /\ UNCHANGED model

-----------------------------------------------------------------------------
(***************************************************************************)
(* The tables are read back.  A direction or an action that the parser     *)
(* knows and the program does not makes it exit.                           *)
(***************************************************************************)
DirectionKnown(dir) == dir \in {"->", "<-", "<->"}

ActionOf(str) == IF str = "insert" THEN "add" ELSE str

ActionKnown(str) == ActionOf(str) \in {"add", "update", "delete"}

(***************************************************************************)
(* fetch_exploit_preconds, fetch_exploit_postconds and                     *)
(* fetch_asset_qualities collect rows until the id changes, and then enter *)
(* them under the old id, in place of what is there: a block of an id      *)
(* whose rows are not together replaces the ones before.                   *)
(***************************************************************************)
BlockEnds(ids, i) == i = Len(ids) \/ ids[i + 1] # ids[i]

InLastBlock(ids, i) ==
  \A k \in i .. Len(ids) : BlockEnds(ids, k) => \A m \in k + 1 .. Len(ids) : ids[m] # ids[i]

\* A variant that forgets the last block of all.
EnteredButLast(ids, id) ==
  {i \in DOMAIN ids : ids[i] = id /\ \E k \in i .. Len(ids) - 1 : BlockEnds(ids, k)}

\* A variant that keeps what was entered first.
EnteredOnce(ids, id) ==
  {i \in DOMAIN ids :
     ids[i] = id /\ \A k \in 1 .. i : ids[k] = id => \A m \in k .. i : ids[m] = id}

Entered(ids, id) == {i \in DOMAIN ids : ids[i] = id /\ InLastBlock(ids, i)}

\* The rows entered under an id of the given column.
Collected(rows, column, id) ==
  LET block == Entered([i \in DOMAIN rows |-> rows[i][column]], id)
  IN  IF block = {} THEN << >> ELSE SubSeq(rows, Min(block), Max(block))

ParamQuality(r) == [param |-> r.param1, name |-> r.property, value |-> r.value]

ParamTopology(r) ==
  [from_param |-> r.param1, to_param |-> r.param2, dir |-> r.dir,
   property |-> r.property, op |-> r.op, value |-> r.value]

Map(rows, Op(_)) == [i \in DOMAIN rows |-> Op(rows[i])]

fetch_exploit(row) ==
  LET conds(rows, type) ==
        OfType(Collected(rows, "exploit_id", row.id), type)
      post(type, Fact(_)) ==
        Map(conds(tables.postcondition, type),
            LAMBDA r : [action |-> ActionOf(r.action), fact |-> Fact(r)])
  IN  [num_params  |-> row.params,
       preconds_q  |-> Map(conds(tables.precondition, "quality"), ParamQuality),
       preconds_t  |-> Map(conds(tables.precondition, "topology"), ParamTopology),
       postconds_q |-> post("quality", ParamQuality),
       postconds_t |-> post("topology", ParamTopology)]

fetch_all_topologies ==
  /\ phase = "fetch_topologies"
  /\ \/ /\ \E r \in ToSet(tables.topology) : ~ DirectionKnown(r.direction)
        /\ End("exit")
     \/ /\ \A r \in ToSet(tables.topology) : DirectionKnown(r.direction)
        /\ model' = [model EXCEPT !.qualities = tables.quality,
                                  !.topologies = tables.topology]
        /\ Goto("fetch_assets")
        /\ UNCHANGED << tables, writers >>

fetch_all_assets ==
  /\ phase = "fetch_assets"
  /\ model' = [model EXCEPT !.assets =
       Map(tables.asset, LAMBDA row :
         [name |-> row.name,
          qualities |-> Collected(tables.quality, "asset_id", row.id)])]
  /\ Goto("fetch_exploits")
  /\ UNCHANGED << tables, writers >>

Unreadable ==
  \/ \E r \in ToSet(tables.precondition \o tables.postcondition) :
       r.type = "topology" /\ ~ DirectionKnown(r.dir)
  \/ \E r \in ToSet(tables.postcondition) : ~ ActionKnown(r.action)

fetch_all_exploits ==
  /\ phase = "fetch_exploits"
  /\ \/ Unreadable /\ End("exit")
     \/ /\ ~ Unreadable
        /\ model' = [model EXCEPT !.exploits = Map(tables.exploit, fetch_exploit)]
        /\ Goto("generate")
        /\ UNCHANGED << tables, writers >>

\* generate and save_ag_to_db, which modules AGGen and SaveGraph are about:
\* the process aborts before a row is saved, or saves its graph.
generate ==
  /\ phase = "generate"
  /\ \/ End("abort")
     \/ /\ phase' = "idle"
        /\ outcome' = "done"
        /\ writers' = [writers EXCEPT !.graph = @ \cup {run}]
        /\ UNCHANGED << run, nm, xp, tables, model >>

Stopped == phase = "idle" /\ run = MaxRuns /\ UNCHANGED ivars

Next ==
  \/ Start \/ Clear \/ Kill \/ Stopped
  \/ parse_nm \/ parse_xp \/ import_nm \/ import_xp
  \/ fetch_all_topologies \/ fetch_all_assets \/ fetch_all_exploits
  \/ generate

Spec == Init /\ [][Next]_ivars

-----------------------------------------------------------------------------
Phases ==
  {"idle", "parse_nm", "parse_xp", "import_nm", "import_xp", "fetch_topologies",
   "fetch_assets", "fetch_exploits", "generate"}

TypeOK ==
  /\ run \in 0 .. MaxRuns
  /\ phase \in Phases
  /\ outcome \in {"none", "crash", "exit", "abort", "killed", "done"}
  /\ DOMAIN tables = DOMAIN EmptyTables
  /\ \A table \in {"network", "exploits", "graph"} : writers[table] \subseteq 1 .. run
  /\ \A r \in ToSet(tables.precondition \o tables.postcondition) :
       r.exploit_id \in ToSet(AssetIds(tables.exploit))

(***************************************************************************)
(* Whatever runs were made, killed or refused, what is in the database is  *)
(* the work of one of them: exploits of a network that is there, a graph   *)
(* of the exploits that are there.  The tables themselves say nothing of   *)
(* it; it comes from ids that start from 0 in every process and from an    *)
(* empty command string being refused.                                     *)
(***************************************************************************)
OneRun ==
  /\ Cardinality(writers.network) <= 1
  /\ writers.exploits \subseteq writers.network
  /\ writers.graph \subseteq writers.exploits
  /\ (tables.asset = << >>) = (writers.network = {})
  /\ (tables.exploit = << >>) = (writers.exploits = {})

(***************************************************************************)
(* The model handed to the generator is the one written in the two files   *)
(* of this run: every fact and every exploit in its place, a name standing *)
(* for the first asset or parameter that has it.  A parameter that is not  *)
(* declared stands for -1, which nothing refuses, and disturbs no other    *)
(* condition.  For exploits, if no two have the same name.                 *)
(***************************************************************************)
First(names, name) ==
  IF name \in ToSet(names)
  THEN CHOOSE i \in 0 .. Len(names) - 1 :
         names[i + 1] = name /\ \A k \in 1 .. i : names[k] # name
  ELSE -1

WrittenFact(exploit, f) ==
  IF f.type = "quality"
  THEN [param |-> First(exploit.params, f.from), name |-> f.obj, value |-> f.val]
  ELSE [from_param |-> First(exploit.params, f.from),
        to_param |-> First(exploit.params, f.to),
        dir |-> f.dir, property |-> f.obj, op |-> f.op, value |-> f.val]

WrittenConds(exploit, type) ==
  Map(OfType(exploit.preconditions, type), LAMBDA f : WrittenFact(exploit, f))

WrittenPosts(exploit, type) ==
  Map(Chosen(exploit.postconditions,
             {i \in DOMAIN exploit.postconditions :
                exploit.postconditions[i].f.type = type}),
      LAMBDA pc : [action |-> IF pc.op = "insert" THEN "add" ELSE pc.op,
                   fact |-> WrittenFact(exploit, pc.f)])

WrittenExploit(exploit) ==
  [num_params  |-> Len(exploit.params),
   preconds_q  |-> WrittenConds(exploit, "quality"),
   preconds_t  |-> WrittenConds(exploit, "topology"),
   postconds_q |-> WrittenPosts(exploit, "quality"),
   postconds_t |-> WrittenPosts(exploit, "topology")]

ReadAsWritten ==
  phase = "generate" =>
    /\ Map(model.assets, LAMBDA a : a.name) = nm.assets
    /\ model.qualities =
         Map(OfType(nm.facts, "quality"), LAMBDA f :
           [asset_id |-> First(nm.assets, f.from),
            property |-> f.obj, op |-> f.op, value |-> f.val])
    /\ model.topologies =
         Map(OfType(nm.facts, "topology"), LAMBDA f :
           [asset_from_id |-> First(nm.assets, f.from),
            asset_to_id |-> First(nm.assets, f.to), direction |-> f.dir,
            property |-> f.obj, op |-> f.op, value |-> f.val])
    /\ IsInjective([i \in DOMAIN xp |-> xp[i].name]) =>
         \A i \in DOMAIN xp : model.exploits[i] = WrittenExploit(xp[i])

(***************************************************************************)
(* Exploits of one name are told apart neither when their conditions are   *)
(* stored nor when they are read back: the first of them is handed to the  *)
(* generator with the conditions of the last unbroken row of them in the   *)
(* file, each numbered by the parameters of its own exploit; conditions of *)
(* earlier rows are lost, and the other exploits of the name do nothing.   *)
(***************************************************************************)
OfOneName(i, k) == xp[i].name = xp[k].name

LastTogether(i) ==
  {k \in DOMAIN xp :
     /\ OfOneName(i, k)
     /\ \A m \in k .. Len(xp) :
          OfOneName(i, m) => \A between \in k .. m : OfOneName(i, between)}

Heard(i) == IF \E k \in 1 .. i - 1 : OfOneName(i, k) THEN {} ELSE LastTogether(i)

Pooled(i, Written(_, _), type) ==
  FlattenSeq([k \in DOMAIN xp |->
    IF k \in Heard(i) THEN Written(xp[k], type) ELSE << >>])

SharedNamesPooled ==
  phase = "generate" =>
    \A i \in DOMAIN xp :
      model.exploits[i] =
        [num_params  |-> Len(xp[i].params),
         preconds_q  |-> Pooled(i, WrittenConds, "quality"),
         preconds_t  |-> Pooled(i, WrittenConds, "topology"),
         postconds_q |-> Pooled(i, WrittenPosts, "quality"),
         postconds_t |-> Pooled(i, WrittenPosts, "topology")]

(***************************************************************************)
(* What module AGGen assumes of a model: every fact is about an asset of   *)
(* the network, and every condition about a parameter of its exploit if    *)
(* the names in the file are declared; even if exploits share a name and   *)
(* the first gets the conditions of the others, so long as they have the   *)
(* same number of parameters.                                              *)
(***************************************************************************)
Declared(exploit, f) ==
  /\ f.from \in ToSet(exploit.params)
  /\ f.type = "topology" => f.to \in ToSet(exploit.params)

AllDeclared(exploit) ==
  /\ \A f \in ToSet(exploit.preconditions) : Declared(exploit, f)
  /\ \A pc \in ToSet(exploit.postconditions) : Declared(exploit, pc.f)

InRange(exploit) ==
  LET below == 0 .. exploit.num_params - 1
      posts == ToSet(exploit.postconds_q \o exploit.postconds_t)
      quals == ToSet(exploit.preconds_q) \cup
                 {p.fact : p \in ToSet(exploit.postconds_q)}
      topos == ToSet(exploit.preconds_t) \cup
                 {p.fact : p \in ToSet(exploit.postconds_t)}
  IN  /\ \A q \in quals : q.param \in below
      /\ \A t \in topos : {t.from_param, t.to_param} \subseteq below
      /\ \A p \in posts : p.action \in {"add", "update", "delete"}

WellFormedModel ==
  phase = "generate" =>
    /\ \A r \in ToSet(model.qualities) : r.asset_id \in 0 .. Len(model.assets) - 1
    /\ \A r \in ToSet(model.topologies) :
         {r.asset_from_id, r.asset_to_id} \subseteq 0 .. Len(model.assets) - 1
    /\ /\ \A e \in ToSet(xp) : AllDeclared(e)
       /\ \A e, f \in ToSet(xp) : e.name = f.name => Len(e.params) = Len(f.params)
       =>
         \A e \in ToSet(model.exploits) : InRange(e)

=============================================================================
