----------------------------- MODULE GraphStore -----------------------------
(***************************************************************************)
(* What the saving of a graph promises to whoever reads the database: the  *)
(* graph is stored in the order states, facts, attacks, strings; all       *)
(* states and all strings at once, the facts quarter by quarter and the    *)
(* attacks some at a time, each with its assets; it may stop anywhere, and *)
(* nothing stored is taken back or changed.                                *)
(***************************************************************************)
VARIABLES
  content,   \* what is to be stored: the states, the quarters of the facts,
             \* the attacks and the strings
  states, facts, attacks, strings   \* what is

stored == << states, facts, attacks, strings >>

Nothing == /\ states = {} /\ facts = {}
           /\ attacks = {} /\ strings = {}

StatesStored == states = content.states

FactsStored == StatesStored /\ facts = UNION content.quarters

AttacksStored == FactsStored /\ attacks = content.attacks

StoreStates ==
  /\ states = {}
  /\ states' = content.states
  /\ UNCHANGED << facts, attacks, strings >>

StoreFacts ==
  /\ StatesStored
  /\ \E quarter \in content.quarters : facts' = facts \cup quarter
  /\ UNCHANGED << states, attacks, strings >>

StoreAttacks ==
  /\ FactsStored
  /\ attacks' \in SUBSET content.attacks
  /\ attacks \subseteq attacks'
  /\ UNCHANGED << states, facts, strings >>

StoreStrings ==
  /\ AttacksStored
  /\ strings' = content.strings
  /\ UNCHANGED << states, facts, attacks >>

Next ==
  /\ StoreStates \/ StoreFacts \/ StoreAttacks \/ StoreStrings
  /\ UNCHANGED content

vars == << content, stored >>

Spec == Nothing /\ [][Next]_vars

-----------------------------------------------------------------------------
\* A later part says that the earlier ones are complete.
InOrder ==
  /\ facts # {} => StatesStored
  /\ attacks # {} => FactsStored
  /\ strings # {} => AttacksStored

\* Nothing but what is to be stored is.
Parts ==
  /\ states \in {{}, content.states}
  /\ facts \subseteq UNION content.quarters
  /\ attacks \subseteq content.attacks
  /\ strings \in {{}, content.strings}

\* Nothing is taken back.
Kept ==
  [][ /\ states \subseteq states' /\ facts \subseteq facts'
      /\ attacks \subseteq attacks' /\ strings \subseteq strings' ]_vars

=============================================================================
