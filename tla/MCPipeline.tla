----------------------------- MODULE MCPipeline -----------------------------
(***************************************************************************)
(* Small models for module Pipeline, over fields of two to four bits: of   *)
(* the eight numbers of a property or a value, the lower four fit the      *)
(* decoder.  One attack without and with parameters that do not matter, on *)
(* one asset and on two; a value that an update leaves behind; a state     *)
(* without facts; and a link, with strings numbered so that all fits, and  *)
(* so that its property, its value or a quality's value is in the upper    *)
(* half, once only before an update.                                       *)
(***************************************************************************)
EXTENDS Pipeline

MCDigest(words) == words

PQ(param, name, value) == [param |-> param, name |-> name, value |-> value]

OnLink == [from_param |-> 0, to_param |-> 1, dir |-> BIDIRECTION,
           property |-> "link", op |-> "=", value |-> "on"]

Post(action, fact) == [action |-> action, fact |-> fact]

Ex(n, pq, postq, postt) ==
  [num_params |-> n, preconds_q |-> pq, preconds_t |-> << >>,
   postconds_q |-> postq, postconds_t |-> postt]

Plant(n) == Ex(n, << PQ(0, "priv", "user") >>,
               << Post("add", PQ(0, "pwned", "user")) >>, << >>)

Escalate == Ex(1, << PQ(0, "priv", "user") >>,
               << Post("update", PQ(0, "priv", "root")) >>, << >>)

Wipe == Ex(1, << PQ(0, "priv", "user") >>,
           << Post("delete", PQ(0, "priv", "user")) >>, << >>)

Connect == Ex(2, << PQ(0, "priv", "user"), PQ(1, "priv", "root") >>,
              << >>, << Post("add", OnLink) >>)

Q(asset, name, value) == [asset |-> asset, name |-> name, value |-> value]

Model(strings, assets, quals, exploits) ==
  [assets             |-> assets,
   initial_qualities  |->
     [i \in DOMAIN quals |->
        Quality(strings, quals[i].asset, quals[i].name, quals[i].value)],
   initial_topologies |-> << >>,
   exploits           |-> exploits,
   facts              |-> strings]

User(n) == [i \in 1 .. n |-> Q(i - 1, "priv", "user")]

UserAndRoot == << Q(0, "priv", "user"), Q(1, "priv", "root") >>

UserOnLinux == << Q(0, "priv", "user"), Q(0, "os", "linux") >>

MCInstances ==
  {Model(<< "priv", "user", "pwned" >>, 1, User(1), << Plant(1) >>),
   Model(<< "user", "pwned", "priv" >>, 2, User(1), << Plant(2) >>),
   Model(<< "priv", "user", "pwned" >>, 2, User(2), << Plant(1) >>),
   Model(<< "priv", "user", "root" >>, 1, User(1), << Escalate >>),
   Model(<< "priv", "user" >>, 1, User(1), << Wipe >>),
   Model(<< "os", "linux", "priv", "root", "user" >>, 1, UserOnLinux, << Escalate >>)}
  \cup {Model(strings, 2, UserAndRoot, << Connect >>) :
          strings \in {<< "user", "root", "link", "on", "priv" >>,
                       << "user", "root", "priv", "on", "link" >>,
                       << "user", "root", "link", "priv", "on" >>,
                       << "on", "link", "root", "priv", "user" >>}}

UpdateInstances == {Model(<< "priv", "user", "root" >>, 1, User(1), << Escalate >>)}

-----------------------------------------------------------------------------
\* decode.cpp:24 says "If no index provided, all items will be found."  When
\* the saving ended well and decode did too, every fact of every state is
\* printed.  An update leaves the encoding of the old value behind, and it is
\* the old value that is found.
AllItemsFound ==
  /\ client = "done" /\ txn = "closed"
  /\ reader = "done" /\ opt_index = NoIndex
  => \A i \in Ids : Shown(Node(i)) \subseteq output[i + 1]

=============================================================================
