---------------------------- MODULE MCModelImport ----------------------------
(***************************************************************************)
(* Small files for module ModelImport.  The networks differ in what makes  *)
(* the program refuse one: no asset, no topology, an unknown direction, an *)
(* asset that is not declared, a key that comes twice; or accept one in a  *)
(* way worth a look: an asset declared twice, facts that alternate between *)
(* assets.  So do the files of exploits.                                   *)
(***************************************************************************)
EXTENDS ModelImport

Q(from, obj, val) ==
  [type |-> "quality", from |-> from, to |-> "none", dir |-> "none",
   obj |-> obj, op |-> "=", val |-> val]

T(from, dir, to, obj, val) ==
  [type |-> "topology", from |-> from, to |-> to, dir |-> dir,
   obj |-> obj, op |-> "=", val |-> val]

Net(assets, facts) == [assets |-> assets, facts |-> facts]

PcLan == Net(<< "pc", "lan" >>,
             << Q("pc", "os", "old"), T("pc", "<->", "lan", "link", "on"),
                Q("lan", "os", "new"), Q("lan", "priv", "user"),
                T("lan", "->", "pc", "ssh", "on") >>)

MCNetworks ==
  { PcLan,
    Net(<< "pc", "lan" >>, << Q("pc", "os", "old"), Q("lan", "os", "old"),
                              Q("pc", "priv", "user"), T("pc", "<-", "lan", "ssh", "on") >>),
    Net(<< "pc", "lan", "pc" >>, << Q("pc", "os", "old"), T("pc", "->", "pc", "ssh", "on") >>),
    Net(<< "pc" >>, << Q("pc", "os", "old"), T("pc", "<!>", "pc", "link", "on") >>),
    Net(<< "pc" >>, << Q("lan", "os", "old"), T("pc", "<->", "pc", "link", "on") >>),
    Net(<< "pc" >>, << Q("pc", "os", "old"), Q("pc", "os", "new"),
                       T("pc", "<->", "pc", "link", "on") >>),
    Net(<< "pc" >>, << Q("pc", "os", "old"), T("pc", "->", "pc", "link", "on"),
                       T("pc", "<-", "pc", "link", "off") >>),
    Net(<< "pc" >>, << Q("pc", "os", "old") >>),
    Net(<< >>, << >>) }

Ex(name, params, pre, post) ==
  [name |-> name, params |-> params, preconditions |-> pre, postconditions |-> post]

Post(op, f) == [op |-> op, f |-> f]

Root == Ex("root", << "a" >>, << Q("a", "os", "old") >>,
           << Post("update", Q("a", "priv", "root")) >>)

Hop == Ex("hop", << "a", "b" >>,
          << T("a", "<->", "b", "link", "on"), Q("b", "os", "new"),
             Q("a", "priv", "root"), T("b", "->", "a", "ssh", "on") >>,
          << Post("insert", Q("b", "priv", "user")),
             Post("delete", T("a", "<->", "b", "link", "on")),
             Post("add", T("b", "<-", "a", "ssh", "on")) >>)

Twice == Ex("twice", << "a", "a" >>, << Q("a", "os", "new") >>,
            << Post("insert", Q("a", "os", "old")) >>)

MCExploitFiles ==
  { << Root >>, << Hop, Root >>, << Root, Twice, Hop >>,
    << Root, Hop, [Twice EXCEPT !.name = "root"] >>,
    << Root, [Root EXCEPT !.preconditions = << Q("a", "priv", "user") >>], Hop >>,
    << Root, Hop, [Root EXCEPT !.preconditions = << Q("a", "priv", "user") >>] >>,
    << Root, [Hop EXCEPT !.name = "root"], Twice >>,
    << [Root EXCEPT !.preconditions = << Q("c", "os", "old") >>] >>,
    << [Hop EXCEPT !.preconditions = @ \o << T("a", "->", "c", "ssh", "on"),
                                              Q("a", "os", "old") >>], Root >>,
    << Hop, [Root EXCEPT !.postconditions = << Post("remove", Q("a", "os", "old")) >>] >>,
    << Hop, [Hop EXCEPT !.name = "far", !.preconditions = << T("a", "!>", "b", "link", "on") >>] >>,
    << Root, [Hop EXCEPT !.params = << >>] >>,
    << Root, [Hop EXCEPT !.postconditions = << >>] >>,
    << >> }

-----------------------------------------------------------------------------
(***************************************************************************)
(* docs/network-model-grammar.txt:3 and :5 let the lists of assets and of  *)
(* facts be empty, docs/exploit-pattern-grammar.txt:7 the parameters: a    *)
(* run does not crash on files written to the grammar.                     *)
(***************************************************************************)
InGrammar(x) ==
  /\ x # << >>
  /\ \A e \in ToSet(x) : e.preconditions # << >> /\ e.postconditions # << >>

GrammarAccepted == outcome = "crash" => xp # NoFile /\ ~ InGrammar(xp)

=============================================================================
