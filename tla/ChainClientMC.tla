----------------------------- MODULE ChainClientMC -----------------------------
(***************************************************************************)
(* ChainClient for TLC: one task that changes the chains and one that      *)
(* mines or waits beside it; a release of every transaction                *)
(* of up to two outputs, and of some of three, from one output of each     *)
(* kind the decoder tells apart.                                           *)
(***************************************************************************)
EXTENDS ChainClient, SequencesExt

CONSTANTS first, second

TaskJobs ==
  [t \in Task |-> IF t = first THEN DOMAIN Program \ Waits
                  ELSE {"generate_to_address"} \union Waits]

TaskWatched == [t \in Task |-> first]

PegOutScript(parent, destination) == <<OpReturn, parent, destination>>

Burn(parent, destination) ==
  [script |-> PegOutScript(parent, destination), value |-> 1, asset |-> Pegged]

Kinds ==
  {Burn("ours", "alice"), [Burn("ours", "bob") EXCEPT !.value = 2],
   Burn("theirs", "alice"), Burn("ours", "junk"), Burn("ours", Empty),
   [Burn("ours", "alice") EXCEPT !.value = NoValue],
   [Burn("ours", "alice") EXCEPT !.value = NoAmount],
   [Burn("ours", "alice") EXCEPT !.asset = "another asset"],
   [script |-> <<OpReturn>>, value |-> 1, asset |-> Pegged],
   [script |-> <<>>, value |-> 1, asset |-> Pegged]}

Transactions ==
  BoundedSeq(Kinds, 2)
    \union {<<a, Burn("theirs", "bob"), b>> : a, b \in {Burn("ours", "alice"), Burn("ours", "junk"),
                                                      Burn("theirs", "alice")}}
===============================================================================
