------------------------------ MODULE PegInProofs ------------------------------
(***************************************************************************)
(* The blocks a peg-in mines, the claims it sends and what the end of its  *)
(* retries means, for every depth, bound and lag.                          *)
(***************************************************************************)
EXTENDS PegIn, TLAPS

LEMMA OwnBlocks ==
  /\ Own \in Nat /\ Remaining \in Nat
  /\ Own >= 1 /\ Own >= Depth
  /\ Own = 1 + Remaining
BY PegInAssumption DEF Own, Faucet, Remaining

LEMMA AfterIs ==
  /\ After["address"] = "deposit" /\ After["deposit"] = "faucetAddress"
  /\ After["faucetAddress"] = "confirm" /\ After["confirm"] = "miningAddress"
  /\ After["miningAddress"] = (IF Remaining > 0 THEN "mature" ELSE "fetch")
  /\ After["mature"] = "fetch" /\ After["proof"] = "claim" /\ After["extend"] = "claim"
BY DEF After

\* One call at a time; a request that was given up is the only one, and the
\* peg-in is over.
Calls ==
  /\ step # "done" => late = {} /\ result = "none"
  /\ \A op, p \in late : op = p
  /\ step = "done" => ~asked
  /\ ~asked => reply = "none"
  /\ reply = "immature" => step = "claim"
  /\ attempt <= Retries
  /\ step \notin {"claim", "extend", "done"} => attempt = 0
  /\ step = "extend" => attempt > 0

\* The deposit, and where it is on the main chain.
Deposited ==
  /\ step = "address" => deposit = "none"
  /\ step = "deposit" /\ reply = "none" => deposit = "none"
  /\ step = "deposit" /\ reply = "ok" => deposit # "none"
  /\ step \in {"faucetAddress", "confirm"} => deposit # "none"
  /\ step = "confirm" /\ reply = "ok" => deposit = "confirmed"
  /\ step \in {"miningAddress", "mature", "fetch", "proof", "claim", "extend"}
       => deposit = "confirmed"
  /\ "confirm" \in late => deposit # "none"
  /\ "mature" \in late \/ "extend" \in late => deposit = "confirmed"
  /\ "deposit" \in late => deposit = "none"
  /\ deposit # "confirmed" => mined = 0
  /\ deposit = "confirmed" => depositAt + mined <= height + 1

\* What was mined by each call; an answer that is an error says less.
Spent ==
  /\ step \in {"address", "deposit", "faucetAddress"} => mined = 0
  /\ step = "confirm" => /\ reply = "none" => mined = 0
                         /\ reply = "ok" => mined = 1
                         /\ mined <= 1
  /\ step = "miningAddress" => mined = 1
  /\ step = "mature" => /\ reply = "none" => mined = 1
                        /\ reply = "ok" => mined = Own
                        /\ mined <= Own
  /\ step \in {"fetch", "proof"} => mined = Own
  /\ step = "claim" => mined = Own + attempt
  /\ step = "extend" => /\ reply = "none" => mined + 1 = Own + attempt
                        /\ reply = "ok" => mined = Own + attempt
                        /\ mined <= Own + attempt
  /\ mined <= Own + Retries
  /\ "confirm" \in late => mined = 0
  /\ "mature" \in late => mined = 1
  /\ "extend" \in late => mined + 1 <= Own + Retries
  /\ result = "ok" => mined >= Own

\* What was read, claimed and concluded.
Judged ==
  /\ step = "fetch" /\ reply = "ok" => confs >= Depth
  /\ step = "claim" /\ reply = "immature" => attempt < lag + Margin
  /\ step # "done" /\ claimed => step = "claim" /\ reply \in {"ok", "error"}
  /\ result # "immature"
  /\ result = "exhausted" => lag + Margin > Retries

GInv == TypeOK /\ Calls /\ Deposited /\ Spent /\ Judged

-------------------------------------------------------------------------------
LEMMA InitGInv == Init => GInv
<1> SUFFICES ASSUME Init PROVE GInv OBVIOUS
<1>1. lag \in Nat BY PegInAssumption DEF Init
<1>2. TypeOK BY <1>1 DEF Init, TypeOK, Reads
<1>3. Calls /\ Judged BY PegInAssumption DEF Init, Calls, Judged
<1>4. Deposited BY DEF Init, Deposited
<1>5. Spent BY PegInAssumption, OwnBlocks DEF Init, Spent
<1> QED BY <1>2, <1>3, <1>4, <1>5 DEF GInv

\* n > 0 blocks, whoever mines them.
LEMMA MoreBlocks ==
  ASSUME TypeOK, NEW n \in Nat, n > 0, Blocks(n)
  PROVE  /\ height' \in Nat /\ depositAt' \in Nat
         /\ deposit' \in {"none", "mempool", "confirmed"}
         /\ deposit = "none" <=> deposit' = "none"
         /\ deposit # "none" => deposit' # "none"
         /\ deposit' = "mempool" => FALSE
         /\ height' = height + n
         /\ deposit = "confirmed" => depositAt' = depositAt
         /\ deposit = "mempool" => depositAt' = height + 1
BY DEF TypeOK, Blocks

LEMMA CommitStep == ASSUME GInv, Commit PROVE GInv'
<1> USE PegInAssumption, OwnBlocks DEF GInv
<1>1. /\ asked /\ reply = "none" /\ step \in Commits
      /\ reply' \in {"ok", "error"}
      /\ UNCHANGED <<late, asked, confs, step, attempt, result>>
      /\ step # "done"
  BY DEF Commit, Requested, clientVars, Commits
<1>2. CASE step = "deposit"
  <2>1. Send BY <1>2 DEF Commit, Execute
  <2> QED BY <1>1, <1>2, <2>1
           DEF Send, TypeOK, Calls, Deposited, Spent, Judged, Commits, Reads
<1>3. CASE step \in {"confirm", "extend"}
  <2>1. Blocks(1) /\ mined' = mined + 1 /\ UNCHANGED <<lag, others, claimed>>
    BY <1>3 DEF Commit, Execute, Generate
  <2>2. TypeOK' BY <1>1, <2>1, MoreBlocks DEF TypeOK
  <2>3. Calls' BY <1>1, <2>1 DEF Calls
  <2>4. Deposited' BY <1>1, <1>3, <2>1, MoreBlocks DEF TypeOK, Calls, Deposited
  <2>5. Spent' BY <1>1, <1>3, <2>1 DEF TypeOK, Calls, Spent
  <2>6. Judged' BY <1>1, <1>3, <2>1 DEF Judged
  <2> QED BY <2>2, <2>3, <2>4, <2>5, <2>6
<1>4. CASE step = "mature"
  <2>1. /\ Blocks(Remaining) /\ mined' = mined + Remaining
        /\ UNCHANGED <<lag, others, claimed>>
    BY <1>4 DEF Commit, Execute, Generate
  <2>2. TypeOK' BY <1>1, <2>1 DEF TypeOK, Blocks
  <2>3. Calls' BY <1>1, <2>1 DEF Calls
  <2>4. Deposited' BY <1>1, <1>4, <2>1 DEF TypeOK, Calls, Deposited, Blocks
  <2>5. Spent' BY <1>1, <1>4, <2>1 DEF TypeOK, Calls, Spent
  <2>6. Judged' BY <1>1, <1>4, <2>1 DEF Judged
  <2> QED BY <2>2, <2>3, <2>4, <2>5, <2>6
<1>5. CASE step = "claim"
  <2>1. Claim BY <1>5 DEF Commit, Execute
  <2> QED BY <1>1, <1>5, <2>1
           DEF Claim, TypeOK, Calls, Deposited, Spent, Judged, Commits, Reads
<1> QED BY <1>1, <1>2, <1>3, <1>4, <1>5 DEF Commits

LEMMA ReadStep == ASSUME GInv, Read PROVE GInv'
<1> USE PegInAssumption, OwnBlocks DEF GInv
<1>1. /\ asked /\ reply = "none" /\ step \in Reads /\ reply' = "ok"
      /\ UNCHANGED <<lag, height, deposit, depositAt, others, mined, claimed,
                     late, asked, step, attempt, result>>
      /\ confs' = IF step = "fetch" THEN Confirmations(height) ELSE confs
  BY DEF Read, Requested, chainVars, clientVars
<1>2. step = "fetch" => Confirmations(height) \in Nat /\ Confirmations(height) >= Depth
  BY DEF Confirmations, TypeOK, Deposited, Spent
<1>3. TypeOK' BY <1>1, <1>2 DEF TypeOK
<1>4. Calls' /\ Deposited' BY <1>1 DEF Calls, Deposited, Reads
<1>5. Spent' BY <1>1 DEF Spent, Reads
<1>6. Judged' BY <1>1, <1>2 DEF Judged, Reads
<1> QED BY <1>3, <1>4, <1>5, <1>6

LEMMA TooYoungStep == ASSUME GInv, TooYoung PROVE GInv'
<1> USE PegInAssumption, OwnBlocks DEF GInv
<1>1. /\ asked /\ reply = "none" /\ step = "claim" /\ reply' = "immature"
      /\ UNCHANGED <<lag, height, deposit, depositAt, others, mined, claimed,
                     late, asked, confs, step, attempt, result>>
  BY DEF TooYoung, Requested, chainVars, clientVars
<1>2. attempt < lag + Margin
  <2>1. PICK v \in Views : ~(Confirmations(v) >= Depth + Margin)
    BY DEF TooYoung, OldEnough
  <2>2. v \in Nat /\ v + lag >= height BY <2>1 DEF Views, TypeOK
  <2>3. /\ deposit = "confirmed"
        /\ depositAt + mined <= height + 1
        /\ mined = Own + attempt
    BY <1>1 DEF Deposited, Spent
  <2>4. CASE depositAt <= v
    <3>1. Confirmations(v) = (v - depositAt) + 1
      BY <2>3, <2>4 DEF Confirmations
    <3> QED BY <2>1, <2>2, <2>3, <3>1 DEF TypeOK
  <2>5. CASE ~(depositAt <= v)
    BY <2>2, <2>3, <2>5 DEF TypeOK
  <2> QED BY <2>4, <2>5
<1> QED
  BY <1>1, <1>2 DEF TypeOK, Calls, Deposited, Spent, Judged

LEMMA RefuseStep == ASSUME GInv, Refuse PROVE GInv'
<1>1. /\ asked /\ reply = "none" /\ reply' = "error"
      /\ UNCHANGED <<lag, height, deposit, depositAt, others, mined, claimed,
                     late, asked, confs, step, attempt, result>>
  BY DEF Refuse, Requested, chainVars, clientVars
<1>2. TypeOK' /\ Calls' /\ Judged' BY <1>1 DEF GInv, TypeOK, Calls, Judged
<1>3. Deposited' BY <1>1 DEF GInv, Deposited
<1>4. Spent' BY <1>1, PegInAssumption, OwnBlocks DEF GInv, TypeOK, Spent
<1> QED BY <1>2, <1>3, <1>4 DEF GInv

LEMMA ExecuteLateStep == ASSUME GInv, ExecuteLate PROVE GInv'
<1> USE PegInAssumption, OwnBlocks DEF GInv
<1>1. PICK op \in late : Execute(op) /\ late' = late \ {op}
  BY DEF ExecuteLate
<1>2. /\ UNCHANGED <<asked, reply, confs, step, attempt, result>>
      /\ step = "done" /\ late' = {} /\ op \in Commits
  BY <1>1 DEF ExecuteLate, clientVars, Calls, TypeOK
<1>3. CASE op = "deposit" /\ Send
  BY <1>1, <1>2, <1>3 DEF Send, TypeOK, Calls, Deposited, Spent, Judged
<1>4. CASE op \in {"confirm", "extend"} /\ Generate(1)
  <2>1. Blocks(1) /\ mined' = mined + 1 /\ UNCHANGED <<lag, others, claimed>>
    BY <1>4 DEF Generate
  <2>2. TypeOK' BY <1>2, <2>1, MoreBlocks DEF TypeOK
  <2>3. Calls' BY <1>2 DEF Calls
  <2>4. Deposited' BY <1>1, <1>2, <1>4, <2>1, MoreBlocks DEF TypeOK, Deposited
  <2>5. Spent' BY <1>1, <1>2, <1>4, <2>1 DEF TypeOK, Spent
  <2>6. Judged' BY <1>2, <2>1 DEF Judged
  <2> QED BY <2>2, <2>3, <2>4, <2>5, <2>6
<1>5. CASE op = "mature" /\ Generate(Remaining)
  <2>1. /\ Blocks(Remaining) /\ mined' = mined + Remaining
        /\ UNCHANGED <<lag, others, claimed>>
    BY <1>5 DEF Generate
  <2>2. TypeOK' BY <1>2, <2>1 DEF TypeOK, Blocks
  <2>3. Calls' BY <1>2 DEF Calls
  <2>4. Deposited' BY <1>1, <1>2, <1>5, <2>1 DEF TypeOK, Deposited, Blocks
  <2>5. Spent' BY <1>1, <1>2, <1>5, <2>1 DEF TypeOK, Spent
  <2>6. Judged' BY <1>2, <2>1 DEF Judged
  <2> QED BY <2>2, <2>3, <2>4, <2>5, <2>6
<1>6. CASE op = "claim" /\ Claim
  BY <1>1, <1>2, <1>6 DEF Claim, TypeOK, Calls, Deposited, Spent, Judged
<1> QED BY <1>1, <1>3, <1>4, <1>5, <1>6 DEF Execute

LEMMA OthersMineStep == ASSUME GInv, OthersMine PROVE GInv'
<1> USE DEF GInv
<1>1. /\ Blocks(1) /\ others' = others + 1
      /\ UNCHANGED <<lag, mined, claimed, late, asked, reply, confs, step, attempt, result>>
  BY DEF OthersMine, clientVars
<1>2. TypeOK' BY <1>1, MoreBlocks DEF TypeOK
<1>3. Calls' /\ Spent' /\ Judged' BY <1>1 DEF Calls, Spent, Judged
<1>4. Deposited' BY <1>1, MoreBlocks DEF TypeOK, Deposited
<1> QED BY <1>2, <1>3, <1>4

-------------------------------------------------------------------------------
LEMMA ContinueStep == ASSUME GInv, Continue PROVE GInv'
<1> USE PegInAssumption, OwnBlocks, AfterIs DEF GInv
<1>1. /\ reply = "ok" /\ step \notin {"fetch", "claim", "done"}
      /\ step' = After[step] /\ asked' = FALSE /\ reply' = "none"
      /\ UNCHANGED <<lag, height, deposit, depositAt, others, mined, claimed,
                     late, confs, attempt, result>>
  BY DEF Continue, Proceed, chainVars
<1>2. step \in {"address", "deposit", "faucetAddress", "confirm", "miningAddress",
                "mature", "proof", "extend"}
  BY <1>1 DEF TypeOK, Commits, Reads
<1>3. TypeOK' BY <1>1, <1>2 DEF TypeOK, Commits, Reads
<1>4. Calls' BY <1>1, <1>2 DEF Calls
<1>5. Deposited' BY <1>1, <1>2 DEF Calls, Deposited
<1>6. Spent' BY <1>1, <1>2 DEF Calls, Spent
<1>7. Judged' BY <1>1, <1>2 DEF Judged
<1> QED BY <1>3, <1>4, <1>5, <1>6, <1>7

LEMMA EndStep ==
  ASSUME GInv, step # "done",
         NEW how \in {"ok", "exhausted", "unmined", "error"}, Finish(how),
         \/ late' = late
         \/ reply = "none" /\ step \in Commits /\ late' = {step},
         how = "ok" => step = "claim",
         how = "exhausted" => lag + Margin > Retries
  PROVE  GInv'
<1> USE PegInAssumption, OwnBlocks DEF GInv
<1>1. /\ step' = "done" /\ result' = how /\ asked' = FALSE /\ reply' = "none"
      /\ UNCHANGED <<lag, height, deposit, depositAt, others, mined, claimed, confs, attempt>>
  BY DEF Finish, chainVars
<1>2. late = {} BY DEF Calls
<1>3. TypeOK' BY <1>1, <1>2 DEF TypeOK, Commits, Reads
<1>4. Calls' BY <1>1, <1>2 DEF Calls
<1>5. Deposited' BY <1>1, <1>2 DEF Deposited
<1>6. Spent' BY <1>1, <1>2 DEF TypeOK, Calls, Spent
<1>7. Judged' BY <1>1 DEF Judged
<1> QED BY <1>3, <1>4, <1>5, <1>6, <1>7

LEMMA ClientStep == ASSUME GInv, Client PROVE GInv'
<1> USE PegInAssumption, OwnBlocks DEF GInv
<1>1. CASE Request
  BY <1>1 DEF Request, TypeOK, Calls, Deposited, Spent, Judged, chainVars, clientVars
<1>2. CASE Continue BY <1>2, ContinueStep
<1>3. CASE Fetched
  <2>1. confs >= Depth BY <1>3 DEF Fetched, Judged
  <2>2. /\ step = "fetch" /\ step' = "proof" /\ asked' = FALSE /\ reply' = "none"
        /\ UNCHANGED <<lag, height, deposit, depositAt, others, mined, claimed,
                       late, confs, attempt, result>>
    BY <1>3, <2>1 DEF Fetched, Proceed, TypeOK, chainVars
  <2>3. TypeOK' BY <2>2 DEF TypeOK, Commits, Reads
  <2> QED BY <2>2, <2>3 DEF Calls, Deposited, Spent, Judged
<1>4. CASE ClaimSucceeds BY <1>4, EndStep DEF ClaimSucceeds
<1>5. CASE ClaimRetried
  <2>1. /\ step = "claim" /\ reply = "immature" /\ attempt < Retries
        /\ step' = "extend" /\ asked' = FALSE /\ reply' = "none"
        /\ attempt' = attempt + 1
        /\ UNCHANGED <<lag, height, deposit, depositAt, others, mined, claimed,
                       late, confs, result>>
    BY <1>5 DEF ClaimRetried, WorthRetrying, MoreAttempts, Proceed, chainVars
  <2>2. TypeOK'
    <3>1. /\ attempt \in Nat /\ attempt' = attempt + 1
          /\ step' = "extend" /\ asked' = FALSE /\ reply' = "none"
      BY <2>1 DEF TypeOK
    <3>2. /\ step' \in Commits \union Reads \union {"done"}
          /\ reply' \in {"none", "ok", "immature", "error"}
      BY <3>1 DEF Commits
    <3>3. attempt' \in Nat BY <3>1
    <3> QED BY <2>1, <3>1, <3>2, <3>3 DEF TypeOK
  <2>3. Calls' /\ Deposited' BY <2>1 DEF TypeOK, Calls, Deposited
  <2>4. Spent' BY <2>1 DEF TypeOK, Calls, Spent
  <2>5. Judged' BY <2>1 DEF Judged
  <2> QED BY <2>2, <2>3, <2>4, <2>5
<1>6. CASE ClaimExhausted
  <2>1. lag + Margin > Retries
    BY <1>6 DEF ClaimExhausted, WorthRetrying, MoreAttempts, Judged, TypeOK
  <2> QED BY <1>6, <2>1, EndStep DEF ClaimExhausted
<1>7. CASE CallFails
  <2>1. reply = "error" /\ Finish(Failure) /\ late' = late
    BY <1>7 DEF CallFails
  <2>2. step # "done" BY <2>1, <1>7 DEF Calls, TypeOK
  <2>3. Failure \in {"unmined", "error"} BY DEF Failure
  <2> QED BY <2>1, <2>2, <2>3, EndStep
<1>8. CASE GiveUp
  <2>1. Requested /\ Finish(Failure) BY <1>8 DEF GiveUp
  <2>2. step # "done" BY <2>1 DEF Requested, Calls
  <2>3. \/ late' = late
        \/ reply = "none" /\ step \in Commits /\ late' = {step}
    BY <1>8, <2>1, <2>2 DEF GiveUp, Requested, Calls
  <2>4. Failure \in {"unmined", "error"} BY DEF Failure
  <2> QED BY <2>1, <2>2, <2>3, <2>4, EndStep
<1> QED BY <1>1, <1>2, <1>3, <1>4, <1>5, <1>6, <1>7, <1>8 DEF Client

LEMMA NextGInv == GInv /\ [Next]_vars => GInv'
<1> SUFFICES ASSUME GInv, [Next]_vars PROVE GInv' OBVIOUS
<1>1. CASE Nodes
  BY <1>1, CommitStep, ReadStep, TooYoungStep, RefuseStep, ExecuteLateStep,
     OthersMineStep DEF Nodes
<1>2. CASE UNCHANGED vars
  BY <1>2 DEF vars, GInv, TypeOK, Calls, Deposited, Spent, Judged
<1> QED BY <1>1, <1>2, ClientStep DEF Next

LEMMA GInvAlways == Spec => []GInv
BY InitGInv, NextGInv, PTL DEF Spec

\* Every variable keeps its type (complete_peg_in).
THEOREM PegInTypeCorrect == Spec => []TypeOK
<1>1. GInv => TypeOK BY DEF GInv
<1> QED BY <1>1, GInvAlways, PTL

\* No claim is sent while an earlier one may have been taken (worth_retrying).
THEOREM NeverResubmittedAlways == Spec => []NeverResubmitted
<1>1. GInv => NeverResubmitted
  BY DEF GInv, Calls, Judged, Requested, NeverResubmitted
<1> QED BY <1>1, GInvAlways, PTL

\* A peg-in mines its depth and at most Retries blocks more (complete_peg_in).
THEOREM BlocksBoundedAlways == Spec => []BlocksBounded
<1>1. GInv => BlocksBounded BY DEF GInv, Spent, Judged, BlocksBounded
<1> QED BY <1>1, GInvAlways, PTL

\* Exhausted retries mean a lag they cannot make up for (complete_peg_in).
THEOREM ExhaustionNeedsLagAlways == Spec => []ExhaustionNeedsLag
<1>1. GInv => ExhaustionNeedsLag BY DEF GInv, Judged, ExhaustionNeedsLag
<1> QED BY <1>1, GInvAlways, PTL
===============================================================================
