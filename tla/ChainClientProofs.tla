--------------------------- MODULE ChainClientProofs ---------------------------
(***************************************************************************)
(* Proofs about PegOut and ChainClient, for any tasks, any jobs and        *)
(* transactions of any length: what decode_peg_out makes of a transaction, *)
(* and what the results of the client's operations say of the nodes.       *)
(*                                                                         *)
(* The loop over the outputs is a recursive function; its invariant is     *)
(* proved by induction over the outputs. The invariant of the tasks then   *)
(* says of every call of every program whether the node has executed it.   *)
(***************************************************************************)
EXTENDS ChainClient, WellFoundedInduction, TLAPS

LEMMA Induction ==
  ASSUME NEW S \in SUBSET Nat, 0 \in S, \A n \in S : n + 1 \in S
  PROVE  S = Nat
<1> DEFINE R == {ss \in Nat \X Nat : ss[1] < ss[2]}
<1>1. IsWellFoundedOn(R, Nat)
  BY NatLessThanWellFounded DEF OpToRel
<1>2. \A m, n \in Nat : m < n => <<m, n>> \in R
  OBVIOUS
<1> HIDE DEF R
<1>3. SUFFICES ASSUME Nat \ S # {} PROVE FALSE
  OBVIOUS
<1>4. PICK n \in Nat \ S : \A m \in Nat \ S : ~(<<m, n>> \in R)
  <2> DEFINE T == Nat \ S
  <2>1. T \subseteq Nat /\ T # {}
    BY <1>3
  <2> HIDE DEF T
  <2>2. \E n \in T : \A m \in T : ~(<<m, n>> \in R)
    BY <1>1, <2>1, WFMin
  <2> QED BY <2>2 DEF T
<1>5. n # 0 /\ n - 1 \in Nat /\ n - 1 < n /\ (n - 1) + 1 = n
  OBVIOUS
<1>6. n - 1 \in S
  BY <1>2, <1>4, <1>5
<1> QED BY <1>4, <1>5, <1>6

-------------------------------------------------------------------------------
(* decode_peg_out.                                                         *)

PaymentSet == [destination : Push, amount : Amount]

ScanSet == [found : {"nothing", "another chain", "one", "malformed"}, payment : PaymentSet]

\* The loop before output i + 1.
Scanned(vout, scanned) ==
  \A i \in 0..Len(vout) :
    scanned[i] = IF i = 0 THEN Unread ELSE ScanOutput(scanned[i - 1], vout[i])

LEMMA ScanEquation ==
  ASSUME NEW vout \in Seq(Output)
  PROVE  \E scanned : Scanned(vout, scanned) /\ decode_peg_out(vout) = scanned[Len(vout)]
<1> DEFINE Scan(g, m) == g = [i \in 0..m |-> IF i = 0 THEN Unread ELSE ScanOutput(g[i - 1], vout[i])]
<1>1. Len(vout) \in Nat
  OBVIOUS
<1>2. \E g : Scan(g, Len(vout))
  <2> DEFINE S == {m \in Nat : \E g : Scan(g, m)}
  <2>1. 0 \in S
    <3>1. Scan([i \in 0..0 |-> Unread], 0)
      OBVIOUS
    <3> QED BY <3>1
  <2>2. ASSUME NEW m \in S PROVE m + 1 \in S
    <3>1. PICK g : Scan(g, m)
      OBVIOUS
    <3> DEFINE h == [i \in 0..(m + 1) |-> IF i = m + 1 THEN ScanOutput(g[m], vout[m + 1]) ELSE g[i]]
    <3>2. \A i \in 0..(m + 1) : h[i] = IF i = 0 THEN Unread ELSE ScanOutput(h[i - 1], vout[i])
      <4> SUFFICES ASSUME NEW i \in 0..(m + 1)
                   PROVE  h[i] = IF i = 0 THEN Unread ELSE ScanOutput(h[i - 1], vout[i])
        OBVIOUS
      <4>1. CASE i = m + 1
        BY <4>1
      <4>2. CASE i = 0
        BY <4>2, <3>1
      <4>3. CASE i \in 1..m
        BY <4>3, <3>1
      <4> QED BY <4>1, <4>2, <4>3
    <3>3. Scan(h, m + 1)
      BY <3>2
    <3> HIDE DEF Scan, h
    <3> QED BY <3>3
  <2> HIDE DEF S
  <2>3. S = Nat
    BY <2>1, <2>2, Induction DEF S
  <2> QED BY <1>1, <2>3 DEF S
<1> DEFINE scanned == CHOOSE g : Scan(g, Len(vout))
<1>3. Scan(scanned, Len(vout))
  BY <1>2
<1>4. decode_peg_out(vout) = scanned[Len(vout)]
  BY DEF decode_peg_out
<1> HIDE DEF scanned
<1>5. Scanned(vout, scanned)
  BY <1>1, <1>3 DEF Scanned
<1> QED BY <1>4, <1>5

\* The peg-outs to this chain among the first i outputs.
CandidatesUpTo(vout, i) == {j \in Candidates(vout) : j <= i}

\* What a scan says of the candidates it has seen.
ScanIsTrue(scan_, vout, candidates) ==
  /\ scan_.found \in {"nothing", "another chain"} => candidates = {}
  /\ scan_.found = "one" =>
       \E j \in candidates : /\ candidates = {j} /\ Payable(vout[j])
                             /\ scan_.payment = Payment(vout[j])
  /\ scan_.found = "malformed" =>
       \/ \E j \in candidates : ~Payable(vout[j])
       \/ \E j, k \in candidates : j # k

LEMMA TargetFacts ==
  ASSUME NEW output \in Output
  PROVE  /\ Target(output.script).parent = Ours => Target(output.script) # NoPegOut
         /\ Target(output.script).destination \in Push
         /\ Payment(output) \in PaymentSet
<1>1. output.script \in Seq(Push \union {OpReturn}) /\ output.value \in Amount
  BY DEF Output
<1>2. Empty \in Push /\ NoPegOut.parent = Empty /\ NoPegOut.destination = Empty /\ Ours # Empty
  BY PegOutAssumption DEF Push, NoPegOut
<1>3. Target(output.script).destination \in Push
  BY <1>2 DEF Target
<1> QED BY <1>1, <1>2, <1>3 DEF Payment, PaymentSet

LEMMA UnreadFacts == Unread \in ScanSet /\ NoPayment \in PaymentSet
BY DEF Unread, NoPayment, ScanSet, PaymentSet, Push, Amount

\* One round of the loop.
LEMMA ScanStep ==
  ASSUME NEW vout \in Seq(Output), NEW i \in 1..Len(vout), NEW before \in ScanSet,
         ScanIsTrue(before, vout, CandidatesUpTo(vout, i - 1))
  PROVE  LET after == ScanOutput(before, vout[i])
         IN after \in ScanSet /\ ScanIsTrue(after, vout, CandidatesUpTo(vout, i))
<1> DEFINE target == Target(vout[i].script)
           seen == CandidatesUpTo(vout, i - 1)
           after == ScanOutput(before, vout[i])
<1>1. vout[i] \in Output /\ DOMAIN vout = 1..Len(vout)
  OBVIOUS
<1>2. CandidatesUpTo(vout, i) = IF target.parent = Ours THEN seen \union {i} ELSE seen
  BY <1>1 DEF CandidatesUpTo, Candidates
<1>3. \A j \in seen : j # i
  BY DEF CandidatesUpTo, Candidates
<1>4. target.parent = Ours => target # NoPegOut
  BY <1>1, TargetFacts
<1> HIDE DEF seen
<1>5. CASE before.found = "malformed" \/ target = NoPegOut
  <2>1. after = before
    BY <1>5 DEF ScanOutput
  <2>2. target.parent = Ours => before.found = "malformed"
    BY <1>4, <1>5
  <2> QED BY <1>2, <2>1, <2>2 DEF ScanIsTrue, seen
<1>6. CASE before.found # "malformed" /\ target # NoPegOut /\ target.parent # Ours
  <2>1. /\ after \in ScanSet
        /\ after.payment = before.payment
        /\ after.found = IF before.found = "nothing" THEN "another chain" ELSE before.found
    BY <1>6 DEF ScanOutput, ScanSet
  <2> QED BY <1>2, <1>6, <2>1 DEF ScanIsTrue, seen
<1>7. CASE before.found # "malformed" /\ target # NoPegOut /\ target.parent = Ours
  <2>1. CandidatesUpTo(vout, i) = seen \union {i}
    BY <1>2, <1>7
  <2>2. after = IF before.found = "one" \/ ~Payable(vout[i])
                THEN [found |-> "malformed", payment |-> NoPayment]
                ELSE [found |-> "one", payment |-> Payment(vout[i])]
    BY <1>7 DEF ScanOutput, Refuses
  <2>3. Payment(vout[i]) \in PaymentSet /\ NoPayment \in PaymentSet
    BY <1>1, TargetFacts, UnreadFacts
  <2> SUFFICES after \in ScanSet /\ ScanIsTrue(after, vout, seen \union {i})
    BY <2>1
  <2> HIDE DEF after
  <2>4. after \in ScanSet
    BY <2>2, <2>3 DEF ScanSet
  <2>5. CASE before.found = "one"
    <3>1. PICK j \in seen : TRUE
      BY <2>5 DEF ScanIsTrue, seen
    <3>2. after.found = "malformed"
      BY <2>2, <2>5
    <3>3. \E k, l \in seen \union {i} : k # l
      BY <1>3, <3>1
    <3> QED BY <2>4, <3>2, <3>3 DEF ScanIsTrue
  <2>6. CASE before.found # "one" /\ ~Payable(vout[i])
    <3>1. after.found = "malformed"
      BY <2>2, <2>6
    <3> QED BY <2>4, <2>6, <3>1 DEF ScanIsTrue
  <2>7. CASE before.found # "one" /\ Payable(vout[i])
    <3>1. seen = {}
      BY <1>7, <2>7 DEF ScanIsTrue, ScanSet, seen
    <3>2. after.found = "one" /\ after.payment = Payment(vout[i])
      BY <2>2, <2>7
    <3> QED BY <2>4, <2>7, <3>1, <3>2 DEF ScanIsTrue
  <2> QED BY <2>5, <2>6, <2>7
<1> QED BY <1>5, <1>6, <1>7

\* decode_peg_out finds the one payable peg-out to this chain where there is one
\* and no other candidate, and fails otherwise, for outputs in any order and
\* number.
THEOREM DecodeFindsTheBurn ==
  ASSUME NEW vout \in Seq(Output)
  PROVE  LET decoded == decode_peg_out(vout)
         IN /\ decoded \in ScanSet
            /\ decoded.found = "one" => Due(vout) = {decoded.payment} /\ decoded.payment # NoPayment
            /\ decoded.found # "one" => Due(vout) = {}
<1>1. PICK scanned : Scanned(vout, scanned) /\ decode_peg_out(vout) = scanned[Len(vout)]
  BY ScanEquation
<1> DEFINE Good(i) == scanned[i] \in ScanSet /\ ScanIsTrue(scanned[i], vout, CandidatesUpTo(vout, i))
<1>2. Len(vout) \in Nat /\ DOMAIN vout = 1..Len(vout)
  OBVIOUS
<1>3. Good(0)
  <2>1. scanned[0] = Unread
    BY <1>1, <1>2 DEF Scanned
  <2>2. CandidatesUpTo(vout, 0) = {}
    BY <1>2 DEF CandidatesUpTo, Candidates
  <2> QED BY <2>1, <2>2, UnreadFacts DEF ScanIsTrue, Unread
<1>4. ASSUME NEW i \in Nat, i + 1 <= Len(vout), Good(i) PROVE Good(i + 1)
  <2>1. i + 1 \in 1..Len(vout) /\ (i + 1) - 1 = i
    BY <1>2, <1>4
  <2>2. scanned[i + 1] = ScanOutput(scanned[i], vout[i + 1])
    BY <1>1, <1>2, <2>1 DEF Scanned
  <2> QED BY <1>4, <2>1, <2>2, ScanStep
<1>5. Good(Len(vout))
  <2> HIDE DEF Good
  <2> DEFINE S == {i \in Nat : i <= Len(vout) => Good(i)}
  <2>1. 0 \in S
    BY <1>3
  <2>2. ASSUME NEW i \in S PROVE i + 1 \in S
    BY <1>2, <1>4
  <2> HIDE DEF S
  <2>3. S = Nat
    BY <2>1, <2>2, Induction DEF S
  <2> QED BY <1>2, <2>3 DEF S
<1>6. CandidatesUpTo(vout, Len(vout)) = Candidates(vout)
  BY <1>2 DEF CandidatesUpTo, Candidates
<1> DEFINE decoded == decode_peg_out(vout)
<1>7. decoded \in ScanSet /\ ScanIsTrue(decoded, vout, Candidates(vout))
  BY <1>1, <1>5, <1>6
<1> HIDE DEF decoded
<1>8. CASE decoded.found = "one"
  <2>1. PICK j \in Candidates(vout) : /\ Candidates(vout) = {j} /\ Payable(vout[j])
                                       /\ decoded.payment = Payment(vout[j])
    BY <1>7, <1>8 DEF ScanIsTrue
  <2>2. Due(vout) = {decoded.payment}
    BY <2>1 DEF Due
  <2>3. decoded.payment # NoPayment
    BY <2>1 DEF Payment, Payable, NoPayment
  <2> QED BY <1>7, <1>8, <2>2, <2>3 DEF decoded
<1>9. CASE decoded.found # "one"
  <2>1. Due(vout) = {}
    BY <1>7, <1>9 DEF ScanIsTrue, ScanSet, Due
  <2> QED BY <1>7, <1>9, <2>1 DEF decoded
<1> QED BY <1>8, <1>9

-------------------------------------------------------------------------------
(* The programs, and how far a task is.                                    *)

Calls ==
  [faucet |-> 3, broadcast_tx |-> 3, release_peg_out |-> 4, send_to_mainchain |-> 1,
   mint |-> 2, faucet_asset |-> 1, generate_to_address |-> 1, wait_for_confirmation |-> 1,
   wait_ready |-> 1]

\* The call that commits a transaction, 0 where there is none.
CommitAt ==
  [faucet |-> 1, broadcast_tx |-> 1, release_peg_out |-> 2, send_to_mainchain |-> 1,
   mint |-> 2, faucet_asset |-> 1, generate_to_address |-> 0, wait_for_confirmation |-> 0,
   wait_ready |-> 0]

Errors == {"InvalidResponse", "HttpStatus", "RpcFailed", "no response"}

Names == {"txid", "asset"}

Results ==
  [kind : {"none", "ok", "deadline", "PegOutputNotFound", "PegOutputMalformed",
           "PostTransactionMiningFailed", "AssetTransferFailed"} \union Errors,
   names : SUBSET Names]

Types ==
  /\ tx \in [Task -> {"none", "mempool", "confirmed"}]
  /\ issued \subseteq Task
  /\ paid \in [Task -> PaymentSet]
  /\ indexed \in [Task -> {"unknown", "mempool", "confirmed"}]
  /\ up \in BOOLEAN
  /\ op \in [Task -> DOMAIN Calls \union {"none"}]
  /\ step \in [Task -> Nat \ {0}]
  /\ request \in [Task -> {"none", "sent", "executed", "refused"}]
  /\ reply \in [Task -> {"none", "ok"} \union Errors]
  /\ known \in [Task -> SUBSET Names]
  /\ scan \in [Task -> ScanSet]
  /\ due \in [Task -> SUBSET PaymentSet]
  /\ result \in [Task -> Results]

\* The node has executed call n of the task's program.
Executed(t, n) == step[t] > n \/ (step[t] = n /\ request[t] = "executed")

\* The task has the answer of call n.
Answered(t, n) == step[t] > n \/ (step[t] = n /\ reply[t] = "ok")

\* The call in flight, and its answer.
Call(t) ==
  /\ op[t] = "none" => /\ step[t] = 1 /\ request[t] = "none" /\ reply[t] = "none"
                       /\ result[t] = NoResult
  /\ op[t] # "none" => step[t] <= Calls[op[t]]
  /\ reply[t] = "ok" => request[t] = "executed"
  /\ reply[t] = "RpcFailed" => request[t] = "refused"
  /\ op[t] \in Waits => reply[t] = "none" /\ request[t] \in {"none", "sent"}
  /\ reply[t] # "none" => request[t] # "none"

\* What the calls so far have done at the nodes, by the program alone.
Done(t) ==
  /\ tx[t] # "none" <=> /\ op[t] # "none" /\ CommitAt[op[t]] # 0
                        /\ Executed(t, CommitAt[op[t]])
  /\ t \in issued <=> op[t] = "mint" /\ Executed(t, 1)
  /\ op[t] \in Mines /\ Executed(t, Calls[op[t]]) => tx[t] = "confirmed"
  /\ indexed[t] = "confirmed" => tx[t] = "confirmed"

\* What the task has learnt of it.
Learnt(t) ==
  /\ "txid" \in known[t] <=> /\ op[t] # "none" /\ CommitAt[op[t]] # 0
                             /\ Answered(t, CommitAt[op[t]])
  /\ "asset" \in known[t] <=> op[t] = "mint" /\ Answered(t, 1)

\* The release: the scan says what is due, and that is what is paid.
Burn(t) ==
  /\ scan[t].found = "one" => due[t] = {scan[t].payment} /\ scan[t].payment # NoPayment
  /\ scan[t].found # "one" => due[t] = {}
  /\ op[t] = "release_peg_out" /\ step[t] > 1 => scan[t].found = "one"
  /\ scan[t].found # "nothing" => op[t] = "release_peg_out" /\ Answered(t, 1)
  /\ paid[t] = IF op[t] = "release_peg_out" /\ Executed(t, 2)
               THEN scan[t].payment ELSE NoPayment

\* A result is the last answer's, at the call it came for.
Returned(t) ==
  LET last == step[t] = Calls[op[t]]
      mining == op[t] \in Mines /\ step[t] > Calls[op[t]] - 2
  IN /\ result[t].kind = "none" => result[t].names = {}
     /\ result[t].kind = "ok" =>
          IF op[t] = "wait_for_confirmation" THEN tx[Watched[t]] = "confirmed"
          ELSE op[t] # "wait_ready" => reply[t] = "ok" /\ last
     /\ result[t].kind = "RpcFailed" =>
          reply[t] = "RpcFailed" /\ ~mining /\ ~(op[t] = "mint" /\ step[t] = 2)
     /\ result[t].kind \in {"PegOutputNotFound", "PegOutputMalformed"} =>
          /\ op[t] = "release_peg_out" /\ step[t] = 1 /\ reply[t] = "ok"
          /\ scan[t].found # "one"
     /\ result[t].kind = "PostTransactionMiningFailed" =>
          mining /\ reply[t] # "ok" /\ result[t].names = known[t]
     /\ result[t].kind = "AssetTransferFailed" =>
          op[t] = "mint" /\ step[t] = 2 /\ reply[t] \in Errors /\ result[t].names = known[t]

TaskInv(t) == Call(t) /\ Done(t) /\ Learnt(t) /\ Burn(t) /\ Returned(t)

CInv == Types /\ \A t \in Task : TaskInv(t)

-------------------------------------------------------------------------------
LEMMA ProgramFacts ==
  /\ DOMAIN Program = DOMAIN Calls /\ DOMAIN CommitAt = DOMAIN Calls
  /\ Mines \subseteq DOMAIN Calls /\ Waits \subseteq DOMAIN Calls /\ Len(Mine) = 2
  /\ \A o \in DOMAIN Calls :
       /\ Len(Program[o]) = Calls[o] /\ Calls[o] \in Nat \ {0}
       /\ CommitAt[o] \in 0..Calls[o]
       /\ \A n \in 1..Calls[o] :
            /\ Program[o][n] \in Commits <=> n = CommitAt[o]
            /\ Program[o][n] = "issueasset" <=> o = "mint" /\ n = 1
            /\ Program[o][n] = "getrawtransaction" <=> o = "release_peg_out" /\ n = 1
            /\ o = "mint" => (Program[o][n] = "sendasset" <=> n = 2)
            /\ o \in Mines /\ n = Calls[o] => Program[o][n] = "generatetoaddress"
<1> DEFINE P == Program
<1>1. /\ DOMAIN P = DOMAIN Calls
      /\ P["faucet"] = <<"sendtoaddress">> \o Mine
      /\ P["broadcast_tx"] = <<"sendrawtransaction">> \o Mine
      /\ P["release_peg_out"] = <<"getrawtransaction", "sendtoaddress">> \o Mine
      /\ P["send_to_mainchain"] = <<"sendtomainchain">>
      /\ P["mint"] = <<"issueasset", "sendasset">>
      /\ P["faucet_asset"] = <<"sendasset">>
      /\ P["generate_to_address"] = <<"generatetoaddress">>
      /\ P["wait_for_confirmation"] = <<"status">>
      /\ P["wait_ready"] = <<"height">>
  BY DEF Program, Calls
<1> HIDE DEF P
<1>2. /\ \A a : LET p == <<a>> \o Mine
              IN Len(p) = 3 /\ p[1] = a /\ p[2] = "getnewaddress" /\ p[3] = "generatetoaddress"
      /\ \A a, b : LET p == <<a, b>> \o Mine
                 IN Len(p) = 4 /\ p[1] = a /\ p[2] = b /\ p[3] = "getnewaddress"
                    /\ p[4] = "generatetoaddress"
  BY DEF Mine
<1>3. Len(Mine) = 2 /\ DOMAIN CommitAt = DOMAIN Calls
      /\ Mines \subseteq DOMAIN Calls /\ Waits \subseteq DOMAIN Calls
  BY DEF Mine, CommitAt, Calls, Mines, Waits
<1> DEFINE Row(o) ==
       /\ Len(P[o]) = Calls[o] /\ Calls[o] \in Nat \ {0} /\ CommitAt[o] \in 0..Calls[o]
       /\ \A n \in 1..Calls[o] :
            /\ P[o][n] \in Commits <=> n = CommitAt[o]
            /\ P[o][n] = "issueasset" <=> o = "mint" /\ n = 1
            /\ P[o][n] = "getrawtransaction" <=> o = "release_peg_out" /\ n = 1
            /\ o = "mint" => (P[o][n] = "sendasset" <=> n = 2)
            /\ o \in Mines /\ n = Calls[o] => P[o][n] = "generatetoaddress"
<1> USE DEF Calls, CommitAt, Commits, Mines
<1>4. Row("faucet")
  <2>1. Calls["faucet"] = 3
    OBVIOUS
  <2> QED BY <1>1, <1>2, <2>1
<1>5. Row("broadcast_tx")
  <2>1. Calls["broadcast_tx"] = 3
    OBVIOUS
  <2> QED BY <1>1, <1>2, <2>1
<1>6. Row("release_peg_out")
  <2>1. Calls["release_peg_out"] = 4
    OBVIOUS
  <2> QED BY <1>1, <1>2, <2>1
<1>7. Row("send_to_mainchain")
  BY <1>1
<1>8. Row("mint")
  BY <1>1
<1>9. Row("faucet_asset")
  BY <1>1
<1>10. Row("generate_to_address")
  BY <1>1
<1>11. Row("wait_for_confirmation") /\ Row("wait_ready")
  BY <1>1
<1>12. \A o \in DOMAIN Calls :
         o \in {"faucet", "broadcast_tx", "release_peg_out", "send_to_mainchain", "mint",
               "faucet_asset", "generate_to_address", "wait_for_confirmation", "wait_ready"}
  OBVIOUS
<1> HIDE DEF Row, Calls, CommitAt, Commits, Mines
<1>13. \A o \in DOMAIN Calls : Row(o)
  BY <1>4, <1>5, <1>6, <1>7, <1>8, <1>9, <1>10, <1>11, <1>12
<1> QED BY <1>1, <1>3, <1>13 DEF P, Row

\* The call a task is at, read off the tables.
LEMMA MethodFacts ==
  ASSUME Types, NEW t \in Task, Call(t), op[t] # "none"
  PROVE  /\ op[t] \in DOMAIN Calls /\ step[t] \in 1..Calls[op[t]]
         /\ Len(Program[op[t]]) = Calls[op[t]] /\ Calls[op[t]] \in Nat \ {0}
         /\ CommitAt[op[t]] \in 0..Calls[op[t]]
         /\ Method(t) \in Commits <=> step[t] = CommitAt[op[t]]
         /\ Method(t) = "issueasset" <=> op[t] = "mint" /\ step[t] = 1
         /\ Method(t) = "getrawtransaction" <=> op[t] = "release_peg_out" /\ step[t] = 1
         /\ op[t] = "mint" => (Method(t) = "sendasset" <=> step[t] = 2)
         /\ op[t] \in Mines /\ step[t] = Calls[op[t]] => Method(t) = "generatetoaddress"
<1>1. op[t] \in DOMAIN Calls /\ step[t] \in 1..Calls[op[t]]
  BY ProgramFacts DEF Types, Call
<1> QED BY <1>1, ProgramFacts DEF Method

\* The tables' rows that the invariant names.
LEMMA RowFacts ==
  /\ Calls["mint"] = 2 /\ Calls["release_peg_out"] = 4
  /\ CommitAt["mint"] = 2 /\ CommitAt["release_peg_out"] = 2
  /\ \A o \in Mines : CommitAt[o] # 0 /\ CommitAt[o] = Calls[o] - 2
  /\ \A o \in Waits : CommitAt[o] = 0 /\ Calls[o] = 1 /\ o \notin Mines
                      /\ o # "mint" /\ o # "release_peg_out"
  /\ "release_peg_out" \in Mines /\ "mint" \notin Mines
BY DEF Calls, CommitAt, Mines, Waits

-------------------------------------------------------------------------------
(* A step of task t.                                                       *)

\* What it leaves of another task; a block may confirm that task's transaction.
OthersKept(t) ==
  \A u \in Task \ {t} :
    /\ op'[u] = op[u] /\ step'[u] = step[u] /\ request'[u] = request[u]
    /\ reply'[u] = reply[u] /\ known'[u] = known[u] /\ scan'[u] = scan[u] /\ due'[u] = due[u]
    /\ result'[u] = result[u] /\ paid'[u] = paid[u] /\ indexed'[u] = indexed[u]
    /\ u \in issued' <=> u \in issued
    /\ tx'[u] = tx[u] \/ (tx[u] = "mempool" /\ tx'[u] = "confirmed")

ConfirmedStays == \A u \in Task : tx[u] = "confirmed" => tx'[u] = "confirmed"

LEMMA OthersInv ==
  ASSUME NEW t \in Task, NEW u \in Task \ {t}, TaskInv(u), OthersKept(t), ConfirmedStays
  PROVE  TaskInv(u)'
<1>1. Watched[u] \in Task
  BY ClientAssumption
<1> QED BY <1>1 DEF TaskInv, OthersKept, ConfirmedStays, Call, Done, Learnt, Burn, Returned,
           Executed, Answered

LEMMA BeginStep ==
  ASSUME NEW t \in Task, CInv, Begin(t)
  PROVE  CInv'
<1> USE DEF CInv
<1>1. PICK o \in Jobs[t] : op' = [op EXCEPT ![t] = o]
  BY DEF Begin
<1>2. o \in DOMAIN Calls /\ o # "none" /\ Calls[o] >= 1 /\ CommitAt[o] \in Nat
  BY ClientAssumption, ProgramFacts DEF Calls
<1>3. /\ op[t] = "none"
      /\ UNCHANGED <<tx, issued, paid, indexed, up, step, request, reply, known, scan, due, result>>
  BY DEF Begin, nodeVars, esploraVars
<1>4. Types'
  BY <1>1, <1>2, <1>3 DEF Types
<1>5. OthersKept(t) /\ ConfirmedStays
  BY <1>1, <1>3 DEF OthersKept, ConfirmedStays, Types
<1>6. TaskInv(t)'
  BY <1>1, <1>2, <1>3, ProgramFacts, RowFacts DEF Types, TaskInv, Call, Done, Learnt, Burn, Returned, NoResult, Executed, Answered
<1> QED BY <1>4, <1>5, <1>6, OthersInv

LEMMA SendStep ==
  ASSUME NEW t \in Task, CInv, Send(t) \/ Gone(t)
  PROVE  CInv'
<1> USE DEF CInv
<1>1. /\ UNCHANGED <<tx, issued, paid, indexed, up, op, step, known, scan, due, result>>
      /\ \/ request[t] = "none" /\ request' = [request EXCEPT ![t] = "sent"] /\ UNCHANGED reply
         \/ /\ request[t] # "none" /\ reply[t] = "none" /\ op[t] \notin Waits
            /\ reply' = [reply EXCEPT ![t] = "no response"] /\ UNCHANGED request
      /\ op[t] # "none" /\ result[t] = NoResult
  BY DEF Send, Gone, Running, nodeVars, esploraVars
<1>2. Types'
  BY <1>1 DEF Types, Errors
<1>3. OthersKept(t) /\ ConfirmedStays
  BY <1>1 DEF OthersKept, ConfirmedStays, Types
<1>4. Call(t) /\ Done(t) /\ Learnt(t) /\ Burn(t) /\ Returned(t)
  BY DEF TaskInv
<1>5. /\ request'[t] = "executed" <=> request[t] = "executed"
      /\ reply'[t] = "ok" <=> reply[t] = "ok"
  BY <1>1, <1>4 DEF Types, Call
<1>6. Call(t)'
  BY <1>1, <1>4 DEF Call, Types, Waits
<1>7. Done(t)' /\ Learnt(t)' /\ Burn(t)'
  BY <1>1, <1>4, <1>5 DEF Done, Learnt, Burn, Executed, Answered
<1>8. Returned(t)'
  <2>1. result'[t] = NoResult
    BY <1>1
  <2>2. NoResult.kind = "none" /\ NoResult.names = {}
    BY DEF NoResult
  <2> QED BY <2>1, <2>2 DEF Returned
<1> QED BY <1>2, <1>3, <1>6, <1>7, <1>8, OthersInv DEF TaskInv

\* What the answer of an executed and of a refused call can be made into.
LEMMA ClassifiedFacts ==
  /\ \A r \in Responses("executed") : Classified(r) \in ({"ok"} \union Errors) \ {"RpcFailed"}
  /\ \A r \in Responses("refused") : Classified(r) \in Errors
BY DEF Responses, Classified, Errors

LEMMA AnswerStep ==
  ASSUME NEW t \in Task, CInv, AnswerArrives(t)
  PROVE  CInv'
<1> USE DEF CInv
<1>1. /\ UNCHANGED <<tx, issued, paid, indexed, up, op, step, request, result>>
      /\ op[t] # "none" /\ result[t] = NoResult /\ reply[t] = "none"
      /\ request[t] \in {"executed", "refused"}
  BY DEF AnswerArrives, Running, nodeVars, esploraVars
<1>2. PICK r \in Responses(request[t]) : reply' = [reply EXCEPT ![t] = Classified(r)]
  BY DEF AnswerArrives
<1>3. /\ reply'[t] \in {"ok"} \union Errors
      /\ reply'[t] = "ok" => request[t] = "executed"
      /\ reply'[t] = "RpcFailed" => request[t] = "refused"
  BY <1>1, <1>2, ClassifiedFacts DEF Types, Errors
<1>4. reply' = [reply EXCEPT ![t] = reply'[t]]
  BY <1>2 DEF Types
<1>5. known' = IF reply'[t] = "ok" THEN [known EXCEPT ![t] = @ \union Learns(t)] ELSE known
  BY DEF AnswerArrives
<1>6. Call(t) /\ Done(t) /\ Learnt(t) /\ Burn(t) /\ Returned(t)
  BY DEF TaskInv
<1>7. /\ Learns(t) \subseteq Names
      /\ "txid" \in Learns(t) <=> CommitAt[op[t]] # 0 /\ step[t] = CommitAt[op[t]]
      /\ "asset" \in Learns(t) <=> op[t] = "mint" /\ step[t] = 1
      /\ Method(t) = "getrawtransaction" <=> op[t] = "release_peg_out" /\ step[t] = 1
      /\ step[t] \in Nat \ {0} /\ op[t] \in DOMAIN Calls /\ CommitAt[op[t]] \in Nat
  <2>1. "issueasset" \notin Commits
    BY DEF Commits
  <2> QED BY <1>1, <1>6, <2>1, MethodFacts, RowFacts DEF Learns, Names
<1>8. CASE ~(op[t] = "release_peg_out" /\ step[t] = 1 /\ reply'[t] = "ok")
  <2>1. UNCHANGED <<scan, due>>
    BY <1>7, <1>8 DEF AnswerArrives
  <2>2. Types'
    BY <1>1, <1>3, <1>4, <1>5, <1>7, <2>1 DEF Types
  <2>3. OthersKept(t) /\ ConfirmedStays
    BY <1>1, <1>4, <1>5, <2>1 DEF OthersKept, ConfirmedStays, Types
  <2>4. Call(t)' /\ Done(t)'
    BY <1>1, <1>3, <1>6 DEF Call, Done, Executed, Waits
  <2>5. Learnt(t)'
    BY <1>1, <1>3, <1>5, <1>6, <1>7 DEF Types, Learnt, Answered
  <2>6. Burn(t)' /\ Returned(t)'
    BY <1>1, <1>6, <1>7, <1>8, <2>1 DEF Burn, Returned, NoResult, Executed, Answered
  <2> QED BY <2>2, <2>3, <2>4, <2>5, <2>6, OthersInv DEF TaskInv
<1>9. CASE op[t] = "release_peg_out" /\ step[t] = 1 /\ reply'[t] = "ok"
  <2>1. PICK vout \in Outputs : /\ scan' = [scan EXCEPT ![t] = decode_peg_out(vout)]
                                /\ due' = [due EXCEPT ![t] = Due(vout)]
    BY <1>7, <1>9 DEF AnswerArrives
  <2>2. vout \in Seq(Output)
    BY ClientAssumption
  <2> DEFINE decoded == decode_peg_out(vout)
  <2>3. /\ decoded \in ScanSet
        /\ decoded.found = "one" => Due(vout) = {decoded.payment} /\ decoded.payment # NoPayment
        /\ decoded.found # "one" => Due(vout) = {}
    BY <2>2, DecodeFindsTheBurn
  <2> HIDE DEF decoded
  <2>4. Due(vout) \in SUBSET PaymentSet
    BY <2>3 DEF ScanSet
  <2>5. scan' = [scan EXCEPT ![t] = decoded]
    BY <2>1 DEF decoded
  <2>6. Types'
    BY <1>1, <1>3, <1>4, <1>5, <1>7, <2>1, <2>3, <2>4, <2>5 DEF Types
  <2>7. OthersKept(t) /\ ConfirmedStays
    BY <1>1, <1>4, <1>5, <2>1, <2>5 DEF OthersKept, ConfirmedStays, Types
  <2>8. Call(t)' /\ Done(t)'
    BY <1>1, <1>3, <1>6 DEF Call, Done, Executed, Waits
  <2>9. Learnt(t)'
    BY <1>1, <1>3, <1>5, <1>6, <1>7 DEF Types, Learnt, Answered
  <2>10. scan'[t] = decoded /\ due'[t] = Due(vout)
    BY <2>1, <2>5 DEF Types
  <2>11. paid'[t] = NoPayment /\ ~Executed(t, 2)'
    BY <1>1, <1>6, <1>9 DEF Burn, Executed
  <2>12. Burn(t)'
    BY <1>1, <1>6, <1>9, <2>3, <2>10, <2>11 DEF Burn, Answered
  <2>13. Returned(t)'
    BY <1>1, <1>6 DEF Returned, NoResult
  <2> QED BY <2>6, <2>7, <2>8, <2>9, <2>12, <2>13, OthersInv DEF TaskInv
<1> QED BY <1>8, <1>9

LEMMA NextCallStep ==
  ASSUME NEW t \in Task, CInv, NextCall(t)
  PROVE  CInv'
<1> USE DEF CInv
<1>1. /\ UNCHANGED <<tx, issued, paid, indexed, up, op, known, scan, due, result>>
      /\ op[t] # "none" /\ result[t] = NoResult /\ reply[t] = "ok"
      /\ step' = [step EXCEPT ![t] = @ + 1]
      /\ request' = [request EXCEPT ![t] = "none"]
      /\ reply' = [reply EXCEPT ![t] = "none"]
      /\ step[t] < Len(Program[op[t]])
      /\ Method(t) = "getrawtransaction" => scan[t].found = "one"
  BY DEF NextCall, Running, nodeVars, esploraVars
<1>2. Call(t) /\ Done(t) /\ Learnt(t) /\ Burn(t) /\ Returned(t)
  BY DEF TaskInv
<1>3. /\ op[t] = "release_peg_out" /\ step[t] = 1 => scan[t].found = "one"
      /\ step[t] < Calls[op[t]] /\ Calls[op[t]] \in Nat /\ op[t] \in DOMAIN Calls
      /\ step[t] \in Nat \ {0} /\ CommitAt[op[t]] \in Nat
  BY <1>1, <1>2, MethodFacts
<1>4. Types'
  BY <1>1 DEF Types
<1>5. OthersKept(t) /\ ConfirmedStays
  BY <1>1 DEF OthersKept, ConfirmedStays, Types
<1>6. step'[t] = step[t] + 1 /\ request'[t] = "none" /\ reply'[t] = "none" /\ request[t] = "executed"
  BY <1>1, <1>2 DEF Types, Call
<1>7. \A n \in Nat : (Executed(t, n)' <=> Executed(t, n)) /\ (Answered(t, n)' <=> Answered(t, n))
  BY <1>1, <1>3, <1>6 DEF Executed, Answered
<1>8. Call(t)'
  BY <1>1, <1>2, <1>3, <1>6 DEF Call
<1>9. Done(t)' /\ Learnt(t)'
  BY <1>1, <1>2, <1>3, <1>7 DEF Done, Learnt
<1>10. Burn(t)'
  BY <1>1, <1>2, <1>3, <1>6, <1>7 DEF Burn
<1>11. Returned(t)'
  BY <1>1, <1>2 DEF Returned, NoResult
<1> QED BY <1>4, <1>5, <1>8, <1>9, <1>10, <1>11, OthersInv DEF TaskInv

\* A step in which only the task's result changes.
LEMMA ResultStep ==
  ASSUME NEW t \in Task, CInv, NEW r \in Results, result' = [result EXCEPT ![t] = r],
         UNCHANGED <<tx, issued, paid, indexed, up, op, step, request, reply, known, scan, due>>,
         op[t] # "none", Returned(t)'
  PROVE  CInv'
<1> USE DEF CInv
<1>1. Types'
  BY DEF Types
<1>2. OthersKept(t) /\ ConfirmedStays
  BY DEF OthersKept, ConfirmedStays, Types
<1>3. TaskInv(t)'
  BY DEF TaskInv, Call, Done, Learnt, Burn, Executed, Answered
<1> QED BY <1>1, <1>2, <1>3, OthersInv

LEMMA ReturnStep ==
  ASSUME NEW t \in Task, CInv, NothingToRelease(t) \/ Succeeds(t) \/ WaitTimesOut(t)
  PROVE  CInv'
<1> USE DEF CInv, Returns
<1>1. /\ UNCHANGED <<tx, issued, paid, indexed, up, op, step, request, reply, known, scan, due>>
      /\ op[t] # "none" /\ result[t] = NoResult
  BY DEF NothingToRelease, Succeeds, WaitTimesOut, Running, nodeVars, esploraVars
<1>2. Call(t) /\ known[t] \subseteq Names /\ DOMAIN result = Task
  BY DEF TaskInv, Types
<1>3. CASE NothingToRelease(t)
  <2>1. PICK kind \in {"PegOutputNotFound", "PegOutputMalformed"} :
          result' = [result EXCEPT ![t] = [kind |-> kind, names |-> {}]]
    BY <1>3 DEF NothingToRelease
  <2>2. op[t] = "release_peg_out" /\ step[t] = 1 /\ reply[t] = "ok" /\ scan[t].found # "one"
    BY <1>1, <1>2, <1>3, MethodFacts DEF NothingToRelease
  <2>3. Returned(t)'
    BY <1>1, <1>2, <2>1, <2>2 DEF Returned
  <2>4. [kind |-> kind, names |-> {}] \in Results
    BY <2>1 DEF Results
  <2> QED BY <1>1, <2>1, <2>3, <2>4, ResultStep
<1>4. CASE Succeeds(t)
  <2>1. result' = [result EXCEPT ![t] = [kind |-> "ok", names |-> known[t]]]
    BY <1>4 DEF Succeeds
  <2>2. reply[t] = "ok" /\ step[t] = Calls[op[t]] /\ op[t] # "wait_for_confirmation"
    BY <1>1, <1>2, <1>4, MethodFacts DEF Succeeds, Call, Waits
  <2>3. Returned(t)'
    BY <1>1, <1>2, <2>1, <2>2 DEF Returned
  <2>4. [kind |-> "ok", names |-> known[t]] \in Results
    BY <1>2 DEF Results
  <2> QED BY <1>1, <2>1, <2>3, <2>4, ResultStep
<1>5. CASE WaitTimesOut(t)
  <2>1. result' = [result EXCEPT ![t] = [kind |-> "deadline", names |-> {}]]
    BY <1>5 DEF WaitTimesOut
  <2>2. Returned(t)'
    BY <1>1, <1>2, <2>1 DEF Returned
  <2>3. [kind |-> "deadline", names |-> {}] \in Results
    BY DEF Results
  <2> QED BY <1>1, <2>1, <2>2, <2>3, ResultStep
<1> QED BY <1>3, <1>4, <1>5

LEMMA FailsStep ==
  ASSUME NEW t \in Task, CInv, Fails(t)
  PROVE  CInv'
<1> USE DEF CInv
<1>1. /\ UNCHANGED <<tx, issued, paid, indexed, up, op, step, request, reply, known, scan, due>>
      /\ op[t] # "none" /\ reply[t] \notin {"none", "ok"}
      /\ result' = [result EXCEPT ![t] = Wrapped(t)]
  BY DEF Fails, Running, nodeVars, esploraVars
<1>2. Call(t) /\ known[t] \subseteq Names /\ DOMAIN result = Task /\ reply[t] \in Errors
  BY <1>1 DEF TaskInv, Types
<1> DEFINE mining == op[t] \in Mines /\ step[t] > Calls[op[t]] - 2
           transfer == op[t] = "mint" /\ step[t] = 2
<1>3. Wrapped(t) = IF mining THEN [kind |-> "PostTransactionMiningFailed", names |-> known[t]]
                   ELSE IF transfer THEN [kind |-> "AssetTransferFailed", names |-> known[t]]
                   ELSE [kind |-> reply[t], names |-> {}]
  BY <1>1, <1>2, MethodFacts, ProgramFacts, RowFacts DEF Wrapped
<1>4. Wrapped(t) \in Results
  BY <1>2, <1>3 DEF Results
<1>5. Returned(t)'
  <2>1. result'[t] = Wrapped(t) /\ reply[t] # "ok"
    BY <1>1, <1>2
  <2>2. CASE mining
    BY <1>1, <1>3, <2>1, <2>2 DEF Returned
  <2>3. CASE ~mining /\ transfer
    BY <1>1, <1>2, <1>3, <2>1, <2>3 DEF Returned
  <2>4. CASE ~mining /\ ~transfer
    <3>1. result'[t].kind = reply[t] /\ result'[t].names = {}
      BY <1>3, <2>1, <2>4
    <3> QED BY <1>1, <1>2, <2>4, <3>1 DEF Returned, Errors
  <2> QED BY <2>2, <2>3, <2>4
<1> QED BY <1>1, <1>4, <1>5, ResultStep

LEMMA PollStep ==
  ASSUME NEW t \in Task, CInv, PollAnswered(t)
  PROVE  CInv'
<1> USE DEF CInv
<1>1. /\ UNCHANGED <<tx, issued, paid, indexed, up, op, step, reply, known, scan, due>>
      /\ op[t] \in Waits /\ request[t] = "sent" /\ op[t] # "none"
  BY DEF PollAnswered, nodeVars, esploraVars, Waits
<1>2. PICK answer \in Observed(t) :
        \/ request' = [request EXCEPT ![t] = "none"] /\ UNCHANGED result
        \/ /\ Returns(t, IF answer \in Satisfying THEN "ok" ELSE "HttpStatus", {})
           /\ UNCHANGED request
  BY DEF PollAnswered
<1>3. CASE request' = [request EXCEPT ![t] = "none"] /\ UNCHANGED result
  <2>1. Types'
    BY <1>1, <1>3 DEF Types
  <2>2. OthersKept(t) /\ ConfirmedStays
    BY <1>1, <1>3 DEF OthersKept, ConfirmedStays, Types
  <2>3. TaskInv(t)'
    BY <1>1, <1>3 DEF Types, TaskInv, Call, Done, Learnt, Burn, Returned, Executed, Answered
  <2> QED BY <2>1, <2>2, <2>3, OthersInv
<1>4. CASE Returns(t, IF answer \in Satisfying THEN "ok" ELSE "HttpStatus", {}) /\ UNCHANGED request
  <2> DEFINE r == [kind |-> IF answer \in Satisfying THEN "ok" ELSE "HttpStatus", names |-> {}]
  <2>1. result' = [result EXCEPT ![t] = r] /\ r \in Results
    BY <1>4 DEF Returns, Results, Errors
  <2>2. Watched[t] \in Task
    BY ClientAssumption
  <2>3. op[t] = "wait_for_confirmation" /\ answer \in Satisfying => tx[Watched[t]] = "confirmed"
    BY <1>2, <2>2 DEF Observed, Satisfying, TaskInv, Done, Types
  <2>4. Returned(t)'
    BY <1>1, <2>1, <2>3 DEF Returned, Types, Waits
  <2> QED BY <1>1, <1>4, <2>1, <2>4, ResultStep
<1> QED BY <1>2, <1>3, <1>4

LEMMA IndexStep ==
  ASSUME NEW t \in Task, CInv, Indexes(t)
  PROVE  CInv'
<1> USE DEF CInv
<1>1. /\ UNCHANGED <<tx, issued, paid, up, op, step, request, reply, known, scan, due, result>>
      /\ tx[t] # "none" /\ indexed' = [indexed EXCEPT ![t] = tx[t]]
  BY DEF Indexes, nodeVars, clientVars
<1>2. Types'
  BY <1>1 DEF Types
<1>3. OthersKept(t) /\ ConfirmedStays
  BY <1>1 DEF OthersKept, ConfirmedStays, Types
<1>4. TaskInv(t)'
  BY <1>1 DEF Types, TaskInv, Call, Done, Learnt, Burn, Returned, Executed, Answered
<1> QED BY <1>2, <1>3, <1>4, OthersInv

LEMMA RefuseStep ==
  ASSUME NEW t \in Task, CInv, NodeRefuses(t)
  PROVE  CInv'
<1> USE DEF CInv
<1>1. /\ UNCHANGED <<tx, issued, paid, indexed, up, op, step, reply, known, scan, due, result>>
      /\ request[t] = "sent" /\ op[t] \notin Waits
      /\ request' = [request EXCEPT ![t] = "refused"]
  BY DEF NodeRefuses, nodeVars, esploraVars
<1>2. Types'
  BY <1>1 DEF Types
<1>3. OthersKept(t) /\ ConfirmedStays
  BY <1>1 DEF OthersKept, ConfirmedStays, Types
<1>4. TaskInv(t)'
  BY <1>1 DEF Types, TaskInv, Call, Done, Learnt, Burn, Returned, Executed, Answered
<1> QED BY <1>2, <1>3, <1>4, OthersInv

\* A node executes call step[t] of the task, perhaps after the client gave it up.
LEMMA ExecuteStep ==
  ASSUME NEW t \in Task, CInv, NodeExecutes(t)
  PROVE  CInv'
<1> USE DEF CInv
<1>1. /\ UNCHANGED <<indexed, up, op, step, reply, known, scan, due, result>>
      /\ request[t] = "sent" /\ op[t] \notin Waits /\ op[t] # "none"
      /\ request' = [request EXCEPT ![t] = "executed"]
      /\ Execute(t)
  BY DEF NodeExecutes, esploraVars, TaskInv, Call
<1>2. Call(t) /\ Done(t) /\ Learnt(t) /\ Burn(t) /\ Returned(t)
  BY DEF TaskInv
<1> DEFINE n == step[t]
           at == CommitAt[op[t]]
<1>3. /\ op[t] \in DOMAIN Calls /\ n \in Nat \ {0} /\ n <= Calls[op[t]] /\ at \in Nat
      /\ Calls[op[t]] \in Nat \ {0}
      /\ Method(t) \in Commits <=> n = at
      /\ Method(t) = "issueasset" <=> op[t] = "mint" /\ n = 1
      /\ op[t] \in Mines /\ n = Calls[op[t]] => Method(t) = "generatetoaddress"
      /\ op[t] \in Mines => at # 0 /\ at = Calls[op[t]] - 2
      /\ op[t] = "release_peg_out" => at = 2
      /\ op[t] = "mint" => at = 2 /\ op[t] \notin Mines
  BY <1>1, <1>2, MethodFacts, RowFacts
<1>4. /\ request'[t] = "executed"
      /\ \A m \in Nat : /\ Executed(t, m)' <=> Executed(t, m) \/ m = n
                        /\ Answered(t, m)' <=> Answered(t, m)
  BY <1>1, <1>3 DEF Executed, Answered, Types
<1>5. ~Executed(t, n)
  BY <1>1, <1>3 DEF Executed
<1>6. Call(t)' /\ Learnt(t)'
  BY <1>1, <1>2, <1>3, <1>4 DEF Call, Learnt
<1>7. CASE n = at
  <2>1. /\ tx' = [tx EXCEPT ![t] = "mempool"] /\ Pays(t) /\ UNCHANGED issued
    BY <1>1, <1>3, <1>7 DEF Execute, Commits
  <2>2. tx[t] = "none" /\ indexed[t] # "confirmed"
    BY <1>2, <1>3, <1>5, <1>7 DEF Done, Types
  <2>3. Types'
    BY <1>1, <2>1 DEF Types, Pays, ScanSet
  <2>4. OthersKept(t) /\ ConfirmedStays
    BY <1>1, <2>1, <2>2 DEF OthersKept, ConfirmedStays, Types, Pays
  <2>5. Done(t)'
    <3>1. tx'[t] = "mempool" /\ (t \in issued' <=> t \in issued)
      BY <2>1 DEF Types
    <3>2. op[t] \in Mines => ~Executed(t, Calls[op[t]])'
      BY <1>1, <1>3, <1>7 DEF Executed
    <3>3. op[t] = "mint" => n # 1
      BY <1>3, <1>7
    <3> QED BY <1>1, <1>2, <1>3, <1>4, <1>7, <2>2, <3>1, <3>2, <3>3 DEF Done
  <2>6. Burn(t)'
    <3>1. paid'[t] = IF op[t] = "release_peg_out" THEN scan[t].payment ELSE paid[t]
      BY <2>1 DEF Pays, Types
    <3>2. op[t] = "release_peg_out" => Executed(t, 2)'
      BY <1>3, <1>4, <1>7
    <3> QED BY <1>1, <1>2, <1>4, <3>1, <3>2 DEF Burn
  <2>7. Returned(t)'
    BY <1>1, <1>2, <2>4, ClientAssumption DEF Returned, ConfirmedStays
  <2> QED BY <1>6, <2>3, <2>4, <2>5, <2>6, <2>7, OthersInv DEF TaskInv
<1>8. CASE n # at
  <2>1. /\ UNCHANGED paid
        /\ \/ Method(t) = "issueasset" /\ issued' = issued \union {t} /\ UNCHANGED tx
           \/ Method(t) = "generatetoaddress" /\ Block /\ UNCHANGED issued
           \/ Method(t) \in {"getnewaddress", "getrawtransaction"} /\ UNCHANGED <<tx, issued>>
    BY <1>1, <1>3, <1>8 DEF Execute, nodeVars
  <2>2. /\ Types'
        /\ \A u \in Task : tx'[u] = tx[u] \/ (tx[u] = "mempool" /\ tx'[u] = "confirmed")
        /\ \A u \in Task \ {t} : u \in issued' <=> u \in issued
    BY <1>1, <2>1 DEF Types, Block
  <2>3. OthersKept(t) /\ ConfirmedStays
    BY <1>1, <2>1, <2>2 DEF OthersKept, ConfirmedStays, Types
  <2>4. Done(t)'
    <3>1. tx'[t] # "none" <=> tx[t] # "none"
      BY <2>2
    <3>2. Executed(t, at)' <=> Executed(t, at)
      BY <1>1, <1>3, <1>4, <1>8
    <3>3. t \in issued' <=> t \in issued \/ (op[t] = "mint" /\ n = 1)
      BY <1>3, <2>1
    <3>4. op[t] = "mint" => (Executed(t, 1)' <=> Executed(t, 1) \/ n = 1)
      BY <1>3, <1>4
    <3>5. ASSUME op[t] \in Mines, Executed(t, Calls[op[t]])' PROVE tx'[t] = "confirmed"
      <4>1. n = Calls[op[t]]
        BY <1>1, <1>3, <3>5 DEF Executed
      <4>2. Method(t) = "generatetoaddress" /\ Block
        BY <1>3, <2>1, <3>5, <4>1
      <4>3. Executed(t, at)
        BY <1>3, <3>5, <4>1 DEF Executed
      <4>4. tx[t] # "none"
        BY <1>1, <1>2, <1>3, <3>5, <4>3 DEF Done
      <4> QED BY <3>5, <4>2, <4>4 DEF Block, Types
    <3> QED BY <1>1, <1>2, <1>3, <2>3, <3>1, <3>2, <3>3, <3>4, <3>5 DEF Done, ConfirmedStays
  <2>5. Burn(t)'
    <3>1. op[t] = "release_peg_out" => (Executed(t, 2)' <=> Executed(t, 2))
      BY <1>3, <1>4, <1>8
    <3> QED BY <1>1, <1>2, <1>4, <2>1, <3>1 DEF Burn
  <2>6. Returned(t)'
    BY <1>1, <1>2, <2>3, ClientAssumption DEF Returned, ConfirmedStays
  <2> QED BY <1>6, <2>2, <2>3, <2>4, <2>5, <2>6, OthersInv DEF TaskInv
<1> QED BY <1>7, <1>8

LEMMA CInit == Init => CInv
<1> SUFFICES ASSUME Init PROVE CInv
  OBVIOUS
<1>1. Types
  BY UnreadFacts DEF Init, Types, NoResult, Results
<1>2. ASSUME NEW t \in Task PROVE TaskInv(t)
  BY UnreadFacts DEF Init, TaskInv, Call, Done, Learnt, Burn, Returned, NoResult, Unread, Waits,
     Mines
<1> QED BY <1>1, <1>2 DEF CInv

LEMMA CKept == CInv /\ UNCHANGED <<tx, issued, paid, indexed, op, step, request, reply, known,
                                   scan, due, result>> /\ up' \in BOOLEAN => CInv'
BY DEF CInv, Types, TaskInv, Call, Done, Learnt, Burn, Returned, Executed, Answered

LEMMA CStep == CInv /\ [Next]_vars => CInv'
<1> SUFFICES ASSUME CInv, [Next]_vars PROVE CInv'
  OBVIOUS
<1>1. ASSUME NEW t \in Task,
             Client(t) \/ Continues(t) \/ Node(t) \/ Indexes(t) \/ PollAnswered(t) \/ WaitTimesOut(t)
      PROVE  CInv'
  BY <1>1, BeginStep, SendStep, AnswerStep, NextCallStep, ReturnStep, FailsStep, PollStep,
     IndexStep, RefuseStep, ExecuteStep
  DEF Client, Continues, Node
<1>2. CASE EsploraStarts \/ Terminated \/ UNCHANGED vars
  <2>1. UNCHANGED <<tx, issued, paid, indexed, op, step, request, reply, known, scan, due, result>>
        /\ up' \in BOOLEAN
    BY <1>2 DEF EsploraStarts, Terminated, vars, nodeVars, esploraVars, clientVars, CInv, Types
  <2> QED BY <2>1, CKept
<1> QED BY <1>1, <1>2 DEF Next

LEMMA CAlways == Spec => []CInv
BY CInit, CStep, PTL DEF Spec

\* Every variable of the client, its nodes and Esplora keeps its type.
THEOREM ClientTypeCorrect == Spec => []Types
<1>1. CInv => Types
  BY DEF CInv
<1> QED BY <1>1, CAlways, PTL

-------------------------------------------------------------------------------
\* An error that the caller may take for "nothing happened" leaves nothing of
\* the operation at the node, now or later, and one that names a transaction or
\* an asset names all there is of it: whatever the nodes refuse, execute late or
\* answer, in every operation of client.rs, liquid.rs and peg.rs.
THEOREM ErrorsTellTheTruthAlways == Spec => []ErrorsTellTheTruth
<1>1. ASSUME CInv PROVE ErrorsTellTheTruth
  <2> SUFFICES ASSUME NEW t \in Task
               PROVE
                 /\ result[t].kind \in {"RpcFailed", "PegOutputNotFound", "PegOutputMalformed"} =>
                      Committed(t) = {} /\ ~MayCommit(t)
                 /\ result[t].kind = "PostTransactionMiningFailed" =>
                      result[t].names = {"txid"} /\ Committed(t) = {"txid"}
                 /\ result[t].kind = "AssetTransferFailed" =>
                      result[t].names = {"asset"} /\ "asset" \in Committed(t)
    BY DEF ErrorsTellTheTruth
  <2>1. Types /\ Call(t) /\ Done(t) /\ Learnt(t) /\ Burn(t) /\ Returned(t)
    BY <1>1 DEF CInv, TaskInv
  <2>2. known[t] \subseteq {"txid", "asset"}
    BY <2>1 DEF Types, Names
  <2>3. NoResult.kind = "none"
    BY DEF NoResult
  <2>4. CASE result[t].kind = "RpcFailed"
    <3>1. /\ op[t] # "none" /\ request[t] = "refused"
          /\ ~(op[t] \in Mines /\ step[t] > Calls[op[t]] - 2) /\ ~(op[t] = "mint" /\ step[t] = 2)
      BY <2>1, <2>3, <2>4 DEF Call, Returned
    <3>2. /\ op[t] \in DOMAIN Calls /\ step[t] \in 1..Calls[op[t]] /\ Calls[op[t]] \in Nat \ {0}
          /\ CommitAt[op[t]] \in 0..Calls[op[t]]
      BY <2>1, <3>1, MethodFacts
    <3>3. CommitAt[op[t]] # 0 => ~Executed(t, CommitAt[op[t]])
      <4>1. op[t] \in Mines => CommitAt[op[t]] = Calls[op[t]] - 2
        BY RowFacts
      <4>2. op[t] = "mint" => Calls[op[t]] = 2 /\ step[t] = 1
        BY <3>1, <3>2, RowFacts
      <4>3. op[t] \notin Mines /\ op[t] # "mint" => Calls[op[t]] = 1
        BY <3>2 DEF Calls, Mines
      <4> QED BY <3>1, <3>2, <4>1, <4>2, <4>3, RowFacts DEF Executed
    <3>4. op[t] = "mint" => ~Executed(t, 1)
      BY <3>1, <3>2, RowFacts DEF Executed
    <3>5. tx[t] = "none" /\ t \notin issued
      BY <2>1, <3>3, <3>4 DEF Done
    <3>6. ~MayCommit(t)
      BY <3>1 DEF MayCommit
    <3> QED BY <2>4, <3>5, <3>6 DEF Committed
  <2>5. CASE result[t].kind \in {"PegOutputNotFound", "PegOutputMalformed"}
    <3>1. op[t] = "release_peg_out" /\ step[t] = 1 /\ reply[t] = "ok"
      BY <2>1, <2>5 DEF Returned
    <3>2. tx[t] = "none" /\ t \notin issued
      BY <2>1, <3>1, RowFacts DEF Done, Executed
    <3>3. request[t] = "executed"
      BY <2>1, <3>1 DEF Call
    <3> QED BY <2>5, <3>2, <3>3 DEF Committed, MayCommit
  <2>6. CASE result[t].kind = "PostTransactionMiningFailed"
    <3>1. /\ op[t] \in Mines /\ step[t] > Calls[op[t]] - 2
          /\ result[t].names = known[t]
      BY <2>1, <2>6 DEF Returned
    <3>2. /\ op[t] # "none" /\ op[t] # "mint" /\ CommitAt[op[t]] # 0
          /\ CommitAt[op[t]] = Calls[op[t]] - 2
      BY <2>1, <2>3, <2>6, <3>1, RowFacts DEF Call
    <3>3. Executed(t, CommitAt[op[t]]) /\ Answered(t, CommitAt[op[t]])
      BY <3>1, <3>2 DEF Executed, Answered
    <3>4. tx[t] # "none" /\ t \notin issued /\ "txid" \in known[t] /\ "asset" \notin known[t]
      BY <2>1, <3>2, <3>3 DEF Done, Learnt
    <3> QED BY <2>2, <2>6, <3>1, <3>4 DEF Committed
  <2>7. CASE result[t].kind = "AssetTransferFailed"
    <3>1. /\ op[t] = "mint" /\ step[t] = 2 /\ reply[t] \in Errors
          /\ result[t].names = known[t]
      BY <2>1, <2>7 DEF Returned
    <3>2. Executed(t, 1) /\ Answered(t, 1) /\ ~Answered(t, 2)
      <4>1. step[t] = 2
        BY <3>1
      <4>2. reply[t] # "ok"
        BY <3>1 DEF Errors
      <4>3. step[t] > 1 /\ ~(step[t] > 2)
        BY <4>1
      <4> QED BY <4>1, <4>2, <4>3 DEF Executed, Answered
    <3>3. t \in issued /\ "asset" \in known[t] /\ "txid" \notin known[t]
      BY <2>1, <3>1, <3>2, RowFacts DEF Done, Learnt
    <3> QED BY <2>2, <2>7, <3>1, <3>3 DEF Committed
  <2> QED BY <2>4, <2>5, <2>6, <2>7
<1> QED BY <1>1, CAlways, PTL

\* An operation that succeeds has done all of it: faucet, broadcast_tx and
\* release_peg_out saw their block mined, mint and the transfers made their
\* transactions, and wait_for_confirmation's transaction is in a block.
THEOREM SuccessIsCompleteAlways == Spec => []SuccessIsComplete
<1>1. ASSUME CInv PROVE SuccessIsComplete
  <2> SUFFICES ASSUME NEW t \in Task, result[t].kind = "ok"
               PROVE
                 /\ op[t] \in Mines => tx[t] = "confirmed"
                 /\ op[t] \in {"mint", "faucet_asset", "send_to_mainchain"} => tx[t] # "none"
                 /\ op[t] = "mint" => t \in issued
                 /\ op[t] = "wait_for_confirmation" => tx[Watched[t]] = "confirmed"
    BY DEF SuccessIsComplete
  <2>1. Types /\ Call(t) /\ Done(t) /\ Returned(t)
    BY <1>1 DEF CInv, TaskInv
  <2>2. op[t] = "wait_for_confirmation" => tx[Watched[t]] = "confirmed"
    BY <2>1 DEF Returned
  <2>3. CASE op[t] \in Waits
    <3>1. op[t] \notin Mines /\ op[t] \notin {"mint", "faucet_asset", "send_to_mainchain"}
      BY <2>3 DEF Waits, Mines
    <3> QED BY <2>2, <3>1
  <2>4. CASE op[t] \notin Waits
    <3>1. reply[t] = "ok" /\ step[t] = Calls[op[t]]
      BY <2>1, <2>4 DEF Returned, Waits
    <3>2. op[t] # "none" /\ request[t] = "executed"
      BY <2>1, <3>1 DEF Call
    <3>3. Executed(t, Calls[op[t]])
      BY <3>1, <3>2 DEF Executed
    <3>4. op[t] \in {"mint", "faucet_asset", "send_to_mainchain"} =>
            CommitAt[op[t]] # 0 /\ CommitAt[op[t]] = Calls[op[t]]
      BY DEF CommitAt, Calls
    <3>5. op[t] = "mint" => Executed(t, 1)
      BY <3>1, <3>3, RowFacts DEF Executed
    <3> QED BY <2>1, <2>2, <3>2, <3>3, <3>4, <3>5 DEF Done
  <2> QED BY <2>3, <2>4
<1> QED BY <1>1, CAlways, PTL

\* release_peg_out pays exactly when one output of the transaction asks this
\* chain for a payment and can be paid, for transactions of any length; it pays
\* that and no other, and a success means it was paid.
THEOREM ReleasePaysTheBurnAlways == Spec => []ReleasePaysTheBurn
<1>1. ASSUME CInv PROVE ReleasePaysTheBurn
  <2> SUFFICES ASSUME NEW t \in Task
               PROVE
                 /\ paid[t] # NoPayment => due[t] = {paid[t]}
                 /\ op[t] = "release_peg_out" /\ result[t].kind = "ok" => paid[t] # NoPayment
                 /\ result[t].kind \in {"PegOutputNotFound", "PegOutputMalformed"} => due[t] = {}
    BY DEF ReleasePaysTheBurn
  <2>1. Types /\ Call(t) /\ Burn(t) /\ Returned(t)
    BY <1>1 DEF CInv, TaskInv
  <2>2. paid[t] # NoPayment => due[t] = {paid[t]}
    <3> SUFFICES ASSUME paid[t] # NoPayment PROVE due[t] = {paid[t]}
      OBVIOUS
    <3>1. op[t] = "release_peg_out" /\ Executed(t, 2) /\ paid[t] = scan[t].payment
      BY <2>1 DEF Burn
    <3>2. step[t] > 1
      BY <2>1, <3>1 DEF Executed, Types
    <3> QED BY <2>1, <3>1, <3>2 DEF Burn
  <2>3. ASSUME op[t] = "release_peg_out", result[t].kind = "ok"
        PROVE  paid[t] # NoPayment
    <3>1. reply[t] = "ok" /\ step[t] = 4
      BY <2>1, <2>3, RowFacts DEF Returned
    <3>2. Executed(t, 2) /\ scan[t].found = "one"
      BY <2>1, <2>3, <3>1 DEF Executed, Burn
    <3> QED BY <2>1, <2>3, <3>2 DEF Burn
  <2>4. result[t].kind \in {"PegOutputNotFound", "PegOutputMalformed"} => due[t] = {}
    BY <2>1 DEF Burn, Returned
  <2> QED BY <2>2, <2>3, <2>4
<1> QED BY <1>1, CAlways, PTL
===============================================================================
