------------------------------ MODULE MCAGGen ------------------------------
(***************************************************************************)
(* Small models for module AGGen: two assets, a quality "priv" with two    *)
(* values, a quality "pwned", one property for links, and a library of     *)
(* exploits that between them use every action on both kinds of fact.  An  *)
(* instance takes one set of initial facts and two exploits of the         *)
(* library, so the runs also cover exploits that undo, shadow or never     *)
(* enable one another.                                                     *)
(***************************************************************************)
EXTENDS AGGenClaims

MCDigest(words) == words

\* One parameterized fact of each kind.
PQ(param, name, value) == [param |-> param, name |-> name, value |-> value]

PT(from, to, dir, value) ==
  [from_param |-> from, to_param |-> to, dir |-> dir, property |-> "link",
   op |-> "=", value |-> value]

Post(action, fact) == [action |-> action, fact |-> fact]

Ex(n, pq, pt, postq, postt) ==
  [num_params |-> n, preconds_q |-> pq, preconds_t |-> pt,
   postconds_q |-> postq, postconds_t |-> postt]

Escalate == Ex(1, << PQ(0, "priv", "user") >>, << >>,
               << Post("update", PQ(0, "priv", "root")) >>, << >>)

Pivot == Ex(2, << PQ(0, "priv", "root") >>, << PT(0, 1, BIDIRECTION, "on") >>,
            << Post("add", PQ(1, "pwned", "root")) >>, << >>)

Clean == Ex(1, << PQ(0, "pwned", "root") >>, << >>,
            << Post("delete", PQ(0, "pwned", "root")) >>, << >>)

Cut == Ex(2, << PQ(0, "pwned", "root") >>, << PT(0, 1, BIDIRECTION, "on") >>,
          << >>, << Post("delete", PT(0, 1, BIDIRECTION, "on")) >>)

Flap == Ex(2, << >>, << PT(0, 1, BIDIRECTION, "on") >>,
           << >>, << Post("update", PT(0, 1, BIDIRECTION, "user")) >>)

Connect == Ex(2, << PQ(0, "priv", "root"), PQ(1, "priv", "user") >>, << >>,
              << Post("add", PQ(1, "pwned", "user")) >>,
              << Post("add", PT(1, 0, BIDIRECTION, "on")) >>)

Nothing == Ex(0, << >>, << >>, << >>, << >>)

Library == {Escalate, Pivot, Clean, Cut, Flap, Connect, Nothing}

-----------------------------------------------------------------------------
\* The Keyvalue holds the unique values in some order.
Strings == << "priv", "user", "root", "pwned", "link", "on" >>

InstanceOver(strings, assets, quals, topos, exploits) ==
  LET raw == [initial_qualities |-> quals, initial_topologies |-> topos,
              exploits |-> exploits]
      vals == UniqueValues(raw)
      kv == SelectSeq(strings, LAMBDA str : str \in vals)
  IN  [assets             |-> assets,
       initial_qualities  |->
         [i \in DOMAIN quals |->
            Quality(kv, quals[i].asset, quals[i].name, quals[i].value)],
       initial_topologies |->
         [i \in DOMAIN topos |->
            Topology(kv, topos[i].from, topos[i].to, topos[i].dir,
                     topos[i].property, topos[i].op, topos[i].value)],
       exploits           |-> exploits,
       facts              |-> kv]

Instance(assets, quals, topos, exploits) ==
  InstanceOver(Strings, assets, quals, topos, exploits)

Q(asset, name, value) == [asset |-> asset, name |-> name, value |-> value]

T(from, to, dir) ==
  [from |-> from, to |-> to, dir |-> dir, property |-> "link", op |-> "=",
   value |-> "on"]

Instances2(quals, topos, exploits) ==
  {Instance(2, q, t, x) : q \in quals, t \in topos, x \in exploits}

AllUsers == << Q(0, "priv", "user"), Q(1, "priv", "user") >>
OneRoot  == << Q(0, "priv", "root") >>

NoLink == << >>
Linked == << T(0, 1, BIDIRECTION) >>

Pairs == {<< x, y >> : x \in Library, y \in Library}

\* Every pair of exploits, from two sets of qualities with and without a
\* link; some of these models have a precondition the Keyvalue lacks.
PairInstances == Instances2({AllUsers, OneRoot}, {NoLink, Linked}, Pairs)

\* Three exploits in every order and with repetitions, from the initial facts
\* that enable the most.
Triples == {<< x, y, z >> : x \in Library, y \in Library, z \in Library}

TripleInstances == Instances2({AllUsers}, {Linked}, Triples)

-----------------------------------------------------------------------------
(* Links with a direction, links from an asset to itself, and adding a     *)
(* value that an update replaced.                                          *)

Enter == Ex(2, << PQ(0, "priv", "root") >>, << PT(0, 1, FORWARD, "on") >>,
            << Post("add", PQ(1, "pwned", "root")) >>,
            << Post("add", PT(1, 0, FORWARD, "on")) >>)

Join == Ex(2, << >>, << >>, << Post("add", PQ(1, "pwned", "user")) >>,
           << Post("add", PT(0, 1, BIDIRECTION, "on")) >>)

Restore == Ex(1, << >>, << >>, << Post("add", PQ(0, "priv", "user")) >>, << >>)

Drop == Ex(2, << >>, << >>, << >>, << Post("delete", PT(0, 1, FORWARD, "on")) >>)

OddPairs == {<< x, y >> : x \in {Enter, Restore, Drop}, y \in {Escalate, Enter}}
              \cup {<< Join >>}

OddInstances ==
  Instances2({<< Q(0, "priv", "root"), Q(1, "priv", "user") >>},
             {NoLink, << T(1, 0, FORWARD) >>}, OddPairs)

\* What the invariants are checked on.
AllInstances == PairInstances \cup OddInstances \cup TripleInstances

\* Small models for the claims of module AGGenClaims.
DirectedInstances ==
  Instances2({<< Q(0, "priv", "root"), Q(1, "priv", "user") >>},
             {<< T(1, 0, FORWARD) >>}, {<< Enter >>})
RestoreInstances  == Instances2({AllUsers}, {NoLink}, {<< Escalate, Restore >>})

(***************************************************************************)
(* A radio that is switched on connects to another asset.  "wifi" is both  *)
(* a quality and the property of the link, and the strings are numbered so *)
(* that the word of "asset 0: wifi=off" is the word of "asset 0 to asset   *)
(* 1: wifi=on".                                                            *)
(***************************************************************************)
SwitchOn ==
  Ex(2, << PQ(0, "wifi", "off") >>, << >>,
     << Post("delete", PQ(0, "wifi", "off")) >>,
     << Post("add", [PT(0, 1, FORWARD, "on") EXCEPT !.property = "wifi"]) >>)

RadioInstances ==
  {InstanceOver(<< "on", "wifi", "priv", "user", "off" >>, 2,
                << Q(0, "priv", "user"), Q(0, "wifi", "off") >>, NoLink,
                << SwitchOn >>)}

=============================================================================
