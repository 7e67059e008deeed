-------------------------------- MODULE PegIn --------------------------------
(***************************************************************************)
(* A whole peg-in (Peg::complete_peg_in in nigiri-rs-core/src/peg.rs, with *)
(* the faucet of client.rs): a sequence of RPCs to bitcoind and elementsd, *)
(* of which some commit, and any may be refused, time out, or lose its     *)
(* answer. elementsd's view of the main chain lags, and elementsd wants    *)
(* more confirmations than it says; a claim it finds too young is sent     *)
(* again after one more block.                                             *)
(***************************************************************************)
EXTENDS Naturals

CONSTANTS
  Depth,       \* pegin_confirmation_depth
  Retries,     \* CLAIM_RETRY_BLOCKS
  MaxLag,      \* bound: how far elementsd's view may be behind
  Margin,      \* the confirmations it wants beyond Depth
  MaxOthers    \* bound: blocks mined by others

ASSUME PegInAssumption ==
  /\ Depth \in Nat
  /\ Retries \in Nat
  /\ MaxLag \in Nat
  /\ Margin \in Nat
  /\ MaxOthers \in Nat

VARIABLES
  lag,         \* how many blocks elementsd's view is behind, at most
  height,      \* main-chain blocks since the peg-in began
  deposit,     \* the deposit: none, mempool, confirmed
  depositAt,   \* the height of its block, once confirmed
  others,      \* blocks mined by others
  mined,       \* blocks mined on behalf of this peg-in
  claimed,     \* elementsd took a claim of the deposit
  late,        \* requests the client gave up, which may still be executed
  step,        \* the call the client is at, or done
  asked,       \* that call's request was sent
  reply,       \* what came back: none, ok, immature, error
  confs,       \* the confirmations read by getrawtransaction
  attempt,     \* claims sent before the current one
  result       \* what complete_peg_in returned

chainVars  == <<lag, height, deposit, depositAt, others, mined, claimed>>
clientVars == <<step, attempt, result>>
vars == <<lag, height, deposit, depositAt, others, mined, claimed, late, step,
          asked, reply, confs, attempt, result>>

Commits == {"deposit", "confirm", "mature", "extend", "claim"}

Reads == {"address", "faucetAddress", "miningAddress", "fetch", "proof"}

Init ==
  /\ lag \in 0..MaxLag
  /\ height = 0
  /\ deposit = "none"
  /\ depositAt = 0
  /\ others = 0
  /\ mined = 0
  /\ claimed = FALSE
  /\ late = {}
  /\ step = "address"
  /\ asked = FALSE
  /\ reply = "none"
  /\ confs = 0
  /\ attempt = 0
  /\ result = "none"

-------------------------------------------------------------------------------
(* bitcoind and elementsd.                                                 *)

Confirmations(at) ==
  IF deposit = "confirmed" /\ depositAt <= at THEN (at - depositAt) + 1 ELSE 0

\* n blocks on the main chain; the first of them takes the deposit.
Blocks(n) ==
  /\ height' = height + n
  /\ deposit' = IF deposit = "mempool" THEN "confirmed" ELSE deposit
  /\ depositAt' = IF deposit = "mempool" THEN height + 1 ELSE depositAt

Generate(n) ==
  /\ Blocks(n)
  /\ mined' = mined + n
  /\ UNCHANGED <<lag, others, claimed>>

\* The blocks left to mine after the faucet's.
MineAll == Depth                       \* mutant: the faucet's block is forgotten
Remaining == IF Depth > 0 THEN Depth - 1 ELSE 0

Send ==
  /\ deposit' = "mempool"
  /\ UNCHANGED <<lag, height, depositAt, others, mined, claimed>>

\* elementsd looks at a main chain that ends up to lag blocks ago.
OldEnough(view) == Confirmations(view) >= Depth + Margin

Views == {v \in 0..height : v + lag >= height}

Claim ==
  /\ \E v \in Views : OldEnough(v)
  /\ deposit = "confirmed" /\ ~claimed
  /\ claimed' = TRUE
  /\ UNCHANGED <<lag, height, deposit, depositAt, others, mined>>

Execute(op) ==
  \/ op = "deposit" /\ Send
  \/ op \in {"confirm", "extend"} /\ Generate(1)
  \/ op = "mature" /\ Generate(Remaining)
  \/ op = "claim" /\ Claim

Requested == asked /\ reply = "none"

\* A committing request is executed; its answer arrives, or arrives as an error.
Commit ==
  /\ Requested /\ step \in Commits
  /\ Execute(step)
  /\ reply' \in {"ok", "error"}
  /\ UNCHANGED <<late, asked, confs, clientVars>>

\* The others change nothing; the wallet reads the deposit's confirmations.
Read ==
  /\ Requested /\ step \in Reads
  /\ step \in {"fetch", "proof"} => deposit # "none"
  /\ reply' = "ok"
  /\ confs' = IF step = "fetch" THEN Confirmations(height) ELSE confs
  /\ UNCHANGED <<chainVars, late, asked, clientVars>>

TooYoung ==
  /\ Requested /\ step = "claim"
  /\ \E v \in Views : ~OldEnough(v)
  /\ reply' = "immature"
  /\ UNCHANGED <<chainVars, late, asked, confs, clientVars>>

\* Any other refusal, or an answer the client cannot use.
Refuse ==
  /\ Requested
  /\ reply' = "error"
  /\ UNCHANGED <<chainVars, late, asked, confs, clientVars>>

ExecuteLate ==
  /\ \E op \in late : Execute(op) /\ late' = late \ {op}
  /\ UNCHANGED <<asked, reply, confs, clientVars>>

OthersMine ==
  /\ others < MaxOthers
  /\ Blocks(1)
  /\ others' = others + 1
  /\ UNCHANGED <<lag, mined, claimed, late, asked, reply, confs, clientVars>>

-------------------------------------------------------------------------------
(* The client.                                                             *)

Request ==
  /\ step # "done" /\ ~asked
  /\ asked' = TRUE
  /\ UNCHANGED <<chainVars, late, reply, confs, clientVars>>

\* On to the next call.
Proceed(to) ==
  /\ step' = to
  /\ asked' = FALSE
  /\ reply' = "none"
  /\ UNCHANGED <<chainVars, late, confs, result>>

Finish(how) ==
  /\ step' = "done"
  /\ result' = how
  /\ asked' = FALSE
  /\ reply' = "none"
  /\ UNCHANGED <<chainVars, confs, attempt>>

\* Which call follows in the sequence of complete_peg_in, faucet,
\* mine_committed_transaction and fetch_matured_deposit; the loop follows.
After ==
  [address |-> "deposit", deposit |-> "faucetAddress",
   faucetAddress |-> "confirm", confirm |-> "miningAddress",
   miningAddress |-> IF Remaining > 0 THEN "mature" ELSE "fetch",
   mature |-> "fetch", proof |-> "claim", extend |-> "claim"]

Continue ==
  /\ reply = "ok" /\ step \notin {"fetch", "claim", "done"}
  /\ Proceed(After[step])
  /\ UNCHANGED attempt

\* fetch_matured_deposit: the proof is asked for only when mature.
Fetched ==
  /\ step = "fetch" /\ reply = "ok"
  /\ \/ confs >= Depth /\ Proceed("proof") /\ UNCHANGED attempt
     \/ confs < Depth /\ Finish("immature") /\ UNCHANGED late

ClaimSucceeds ==
  /\ step = "claim" /\ reply = "ok"
  /\ Finish("ok")
  /\ UNCHANGED late

AnyClaimError == {"immature", "error"}     \* mutant: an error is retried
WorthRetrying == {"immature"}

OneRetryLess == attempt + 1 < Retries      \* mutant: 0..CLAIM_RETRY_BLOCKS
MoreAttempts == attempt < Retries

ClaimRetried ==
  /\ step = "claim" /\ reply \in WorthRetrying /\ MoreAttempts
  /\ Proceed("extend")
  /\ attempt' = attempt + 1

ClaimExhausted ==
  /\ step = "claim" /\ reply \in WorthRetrying /\ ~MoreAttempts
  /\ Finish("exhausted")
  /\ UNCHANGED late

\* A failure after the faucet's send carries the committed deposit's id.
Failure == IF step \in {"faucetAddress", "confirm"} THEN "unmined" ELSE "error"

CallFails ==
  /\ reply = "error" /\ ~(step = "claim" /\ reply \in WorthRetrying)
  /\ Finish(Failure)
  /\ UNCHANGED late

\* The client's timeout, or a caller that drops the future.
GiveUp ==
  /\ Requested
  /\ late' = IF step \in Commits THEN late \union {step} ELSE late
  /\ Finish(Failure)

-------------------------------------------------------------------------------
Nodes == Commit \/ Read \/ TooYoung \/ Refuse \/ ExecuteLate \/ OthersMine

Client ==
  \/ Request \/ Continue \/ Fetched \/ ClaimSucceeds \/ ClaimRetried
  \/ ClaimExhausted \/ CallFails \/ GiveUp

Next == Nodes \/ Client \/ (step = "done" /\ UNCHANGED vars)

Spec == Init /\ [][Next]_vars

-------------------------------------------------------------------------------
(* Properties.                                                             *)

Faucet == 1

\* The depth the peg-in mines to by itself.
Own == IF Depth > Faucet THEN Depth ELSE Faucet

\* Every variable has its type (complete_peg_in).
TypeOK ==
  /\ lag \in Nat
  /\ height \in Nat
  /\ deposit \in {"none", "mempool", "confirmed"}
  /\ depositAt \in Nat
  /\ others \in Nat
  /\ mined \in Nat
  /\ claimed \in BOOLEAN
  /\ late \subseteq Commits
  /\ step \in Commits \union Reads \union {"done"}
  /\ asked \in BOOLEAN
  /\ reply \in {"none", "ok", "immature", "error"}
  /\ confs \in Nat
  /\ attempt \in Nat
  /\ result \in {"none", "ok", "immature", "exhausted", "unmined", "error"}

\* A claim is on its way to elementsd only if no earlier one was taken, or may
\* still be: an uncertain answer is never answered by another claim
\* (worth_retrying, docs/explanation-what-the-peg-simulates.md).
NeverResubmitted == (step = "claim" /\ Requested) => ~claimed /\ late = {}

\* A peg-in mines the depth the sidechain reports and at most CLAIM_RETRY_BLOCKS
\* more, whoever else mines, wherever it fails (docs/how-to-peg.md), and no block
\* too few: its own maturity check never finds the deposit immature.
BlocksBounded ==
  /\ mined <= Own + Retries
  /\ result = "ok" => mined >= Own
  /\ result # "immature"

\* The retries run out only against an elementsd that is further behind, or
\* wants more, than CLAIM_RETRY_BLOCKS blocks can make up for.
ExhaustionNeedsLag == result = "exhausted" => lag + Margin > Retries
===============================================================================
