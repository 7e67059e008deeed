---------------------------- MODULE TestHarnessMC ----------------------------
(***************************************************************************)
(* TestHarness for TLC: signatures of up to two parameters, with two       *)
(* Bitcoin stacks that meet at the permit, and a pair beside a fixture in  *)
(* either order; and the signatures the parser refuses.                    *)
(***************************************************************************)
EXTENDS TestHarness

AllSignatures ==
  [async : BOOLEAN, generic : BOOLEAN, should_panic : BOOLEAN,
   params : {<<>>} \union {<<k>> : k \in Kind \union {Refused}}
              \union {<<"Bitcoin", "Bitcoin">>, <<"Bitcoin", "Pair">>,
                      <<"Pair", "Bitcoin">>, <<"Liquid", "Bitcoin">>}]
===============================================================================
