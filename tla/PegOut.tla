-------------------------------- MODULE PegOut --------------------------------
(***************************************************************************)
(* Which payment a Liquid transaction asks the parent chain for            *)
(* (Peg::decode_peg_out in peg.rs, decode_peg_out_script in                *)
(* peg/output.rs). A script is its instructions, a push stands for the     *)
(* bytes it pushes; a script that is no hex has none.                      *)
(***************************************************************************)
EXTENDS Naturals, Sequences

CONSTANTS
  Genesis,      \* pushes of 32 bytes: block hashes of parent chains,
  Ours,         \* the one Peg::connect compared,
  Address,      \* pushed scripts that are standard addresses
  Junk,         \* and other pushes that are not empty
  NoValue,      \* no explicit value, in place of an amount,
  NoAmount      \* and a value that is no amount of BTC

OpReturn == "OP_RETURN"
Empty    == "an empty push"

ASSUME PegOutAssumption ==
  /\ Ours \in Genesis
  /\ Genesis \intersect Address = {} /\ Genesis \intersect Junk = {}
  /\ Address \intersect Junk = {}
  /\ Empty \notin Genesis \union Address \union Junk

Push == Genesis \union Address \union Junk \union {Empty}

Pegged == "pegged asset"      \* the asset of the sidechain info

NoPegOut == [parent |-> Empty, destination |-> Empty]

\* decode_peg_out_script; what follows the third instruction is not looked at.
Target(script) ==
  IF /\ Len(script) >= 3
     /\ script[1] = OpReturn
     /\ script[2] \in Genesis
     /\ script[3] \in Push \ {Empty}
  THEN [parent |-> script[2], destination |-> script[3]]
  ELSE NoPegOut

Payable(output) ==
  /\ Target(output.script).destination \in Address
  /\ output.value \notin {NoValue, NoAmount}
  /\ output.asset = Pegged

Payment(output) ==
  [destination |-> Target(output.script).destination, amount |-> output.value]

Amount == {NoValue, NoAmount} \union Nat

\* An output of a decoded transaction.
Output == [script : Seq(Push \union {OpReturn}), value : Amount, asset : STRING]

NoPayment == [destination |-> Empty, amount |-> NoValue]

-------------------------------------------------------------------------------
(* The loop over the outputs.                                              *)

LastWins(scan) == scan.found = "malformed"     \* mutant: no test for a second one

\* The loop has returned an error, or returns one for a second peg-out of this
\* chain, whatever else that output holds.
Refuses(scan) == scan.found \in {"malformed", "one"}

\* An output that is no peg-out, or one for another chain, is passed over.
ScanOutput(scan, output) ==
  LET target == Target(output.script)
  IN CASE scan.found = "malformed" \/ target = NoPegOut -> scan
       [] scan.found # "malformed" /\ target # NoPegOut /\ target.parent # Ours ->
            IF scan.found = "nothing" THEN [scan EXCEPT !.found = "another chain"] ELSE scan
       [] OTHER ->
            IF Refuses(scan) \/ ~Payable(output)
            THEN [found |-> "malformed", payment |-> NoPayment]
            ELSE [found |-> "one", payment |-> Payment(output)]

Unread == [found |-> "nothing", payment |-> NoPayment]

decode_peg_out(vout) ==
  LET scanned[i \in 0..Len(vout)] ==
        IF i = 0 THEN Unread ELSE ScanOutput(scanned[i - 1], vout[i])
  IN scanned[Len(vout)]

-------------------------------------------------------------------------------
(* What the loop is for.                                                   *)

\* The outputs that are peg-outs to this pair's parent chain.
Candidates(vout) == {i \in DOMAIN vout : Target(vout[i].script).parent = Ours}

\* A payment is due where the only candidate is payable.
Due(vout) == {Payment(vout[i]) : i \in {j \in Candidates(vout) :
                                          Candidates(vout) = {j} /\ Payable(vout[j])}}
===============================================================================
