---------------------------- MODULE FixtureStartup ----------------------------
(***************************************************************************)
(* The startup work of the fixtures of one process, side by side           *)
(* (start_under_with_owner, start_node, fund_wallet, start_electrs,        *)
(* wait_for_sync): each has a Docker stack, a deadline and services of its *)
(* own, and all Bitcoin nodes share the initial mining permit.             *)
(*                                                                         *)
(* How the supervisor creates and removes a stack is module Supervisor;    *)
(* how a pair brings up its dependent stack is module Coordinator. Here a  *)
(* stack is there, being removed, or over.                                 *)
(***************************************************************************)
EXTENDS Integers, Sequences

CONSTANTS
  MaxParams,   \* fixtures one test may ask for
  Blocks,      \* blocks of the initial Bitcoin mining (101 in the code)
  LaterBlocks, \* bound: blocks a pair mines on its Bitcoin node for the other stack
  Patient      \* fixtures whose deadline need not come (fairness only)

ASSUME StartupAssumption ==
  /\ MaxParams \in Nat
  /\ Blocks \in Nat \ {0}
  /\ LaterBlocks \in Nat
  /\ Patient \subseteq 1..MaxParams

Slot == 1..MaxParams

\* What a parameter starts; a pair is started around a Bitcoin fixture.
Kind == {"Bitcoin", "Liquid", "Pair"}

VARIABLES
  kind,       \* what each slot starts, "none" where the test has no parameter
  phase,      \* where each startup is, or how it returned
  expired,    \* the starts that met their own Deadline
  permit,     \* INITIAL_MINING_GATE: who owns the permit,
  waiting,    \* and who is next
  call,       \* generatetoaddress, as the slot's node has it
  height,     \* the node's tip
  esplora,    \* the tip Electrs has indexed and answers over HTTP
  electrum,   \* the tip it answers over the Electrum protocol
  reading,    \* the join of the three readings of one round
  stack       \* the slot's containers and network

chainVars == <<call, height, esplora, electrum>>
gateVars == <<permit, waiting>>
startupVars == <<kind, phase, expired, permit, waiting, call, height, esplora,
                 electrum, reading, stack>>

Open == -2            \* the reading's future is pending
Unavailable == -1     \* it came back with an error that is no timeout

Nobody == 0           \* the permit is free

AllOpen == [node |-> Open, esplora |-> Open, electrum |-> Open]

StartupInit ==
  /\ phase = [f \in Slot |-> "idle"]
  /\ expired = [f \in Slot |-> FALSE]
  /\ permit = Nobody
  /\ waiting = <<>>
  /\ call = [f \in Slot |-> "none"]
  /\ height = [f \in Slot |-> 0]
  /\ esplora = [f \in Slot |-> 0]
  /\ electrum = [f \in Slot |-> 0]
  /\ reading = [f \in Slot |-> AllOpen]
  /\ stack = [f \in Slot |-> "none"]

Used == {f \in Slot : kind[f] # "none"}

Returned(f) == phase[f] \in {"ok", "error"}

\* Blocks a node has when its wallet is funded: Liquid mines a single one.
Target(f) == IF kind[f] = "Liquid" THEN 1 ELSE Blocks

-------------------------------------------------------------------------------
(* Moving on, and failing.                                                 *)

Becomes(f, to) == phase' = [phase EXCEPT ![f] = to]

\* tokio's Mutex hands the permit to the first in the queue.
HandOn ==
  IF waiting = <<>>
  THEN permit' = Nobody /\ UNCHANGED waiting
  ELSE permit' = Head(waiting) /\ waiting' = Tail(waiting)

\* The guard, or the place in the queue, goes with the future that holds it.
KeepPlace(f) ==               \* mutant: a dropped waiter is not taken out
  IF permit = f /\ phase[f] = "mining" THEN HandOn ELSE UNCHANGED gateVars

LeaveGate(f) ==
  IF permit = f
  THEN HandOn
  ELSE waiting' = SelectSeq(waiting, LAMBDA g : g # f) /\ UNCHANGED permit

JoinGate(f) ==
  IF permit = Nobody
  THEN permit' = f /\ UNCHANGED waiting
  ELSE waiting' = Append(waiting, f) /\ UNCHANGED permit

\* The work ends with an error. A single fixture publishes it before cleanup; a
\* pair's coordinator returns when its stacks are cleaned up.
Fail(f) ==
  /\ Becomes(f, IF kind[f] = "Pair" THEN "unwinding" ELSE "error")
  /\ LeaveGate(f)
  /\ stack' = [stack EXCEPT ![f] = "removing"]
  /\ UNCHANGED <<kind, chainVars, reading>>

\* The steps that are one awaited call each: the network and node container,
\* createwallet, rescanblockchain, getnewaddress, the Electrs container.
SingleCalls == {"containers", "wallet", "rescan", "address", "electrs", "dependent"}

Following(f) ==
  CASE phase[f] = "containers" -> "rootRpc"
    [] phase[f] = "rootRpc" -> "wallet"
    [] phase[f] = "wallet" /\ kind[f] = "Liquid" -> "rescan"
    [] phase[f] = "wallet" /\ kind[f] # "Liquid" -> "address"
    [] phase[f] = "rescan" -> "address"
    [] phase[f] = "address" /\ kind[f] = "Liquid" -> "mining"
    [] phase[f] = "address" /\ kind[f] # "Liquid" -> "permit"
    [] phase[f] = "permit" -> "mining"
    [] phase[f] = "mining" -> "electrs"
    [] phase[f] = "electrs" -> "sync"
    [] phase[f] = "sync" /\ kind[f] = "Pair" -> "dependent"
    [] OTHER -> "ok"

\* Images, the engine connection, the deadline itself: refused before anything
\* is created, or the supervisor takes over.
Connect(f) ==
  /\ phase[f] = "connecting"
  /\ \/ Becomes(f, "error") /\ UNCHANGED stack
     \/ Becomes(f, "containers") /\ stack' = [stack EXCEPT ![f] = "present"]
  /\ UNCHANGED <<kind, expired, gateVars, chainVars, reading>>

\* wait_for_root_rpc retries every error; the other calls fail the start.
Advance(f) ==
  /\ phase[f] \in SingleCalls \union {"rootRpc"}
  /\ Becomes(f, Following(f))
  /\ IF Following(f) = "permit" THEN JoinGate(f) ELSE UNCHANGED gateVars
  /\ call' = IF Following(f) = "mining" THEN [call EXCEPT ![f] = "sent"] ELSE call
  /\ UNCHANGED <<kind, expired, height, esplora, electrum, reading, stack>>

CallFails(f) == phase[f] \in SingleCalls /\ Fail(f) /\ UNCHANGED expired

\* Every step runs under Deadline::run, the permit and the retry pauses too. The
\* future is polled before the clock, so an answer that is there still counts.
DeadlinePasses(f) ==
  /\ phase[f] \in SingleCalls \union {"rootRpc", "permit", "mining", "sync"}
  /\ expired' = [expired EXCEPT ![f] = TRUE]
  /\ Fail(f)

\* A pair's start returns its error after cleanup, or detaches at the deadline.
UnwindReturns(f) ==
  /\ phase[f] = "unwinding"
  /\ Becomes(f, "error")
  /\ \/ stack[f] = "over" /\ UNCHANGED expired
     \/ expired' = [expired EXCEPT ![f] = TRUE]
  /\ UNCHANGED <<kind, gateVars, chainVars, reading, stack>>

-------------------------------------------------------------------------------
(* The initial mining.                                                     *)

DropAtOnce(f) == LeaveGate(f) \* mutant: `let _ =` instead of `let _permit =`

HoldPermit(f) == UNCHANGED gateVars

TakePermit(f) ==
  /\ phase[f] = "permit"
  /\ permit = f
  /\ Becomes(f, Following(f))
  /\ call' = [call EXCEPT ![f] = "sent"]
  /\ HoldPermit(f)
  /\ UNCHANGED <<kind, expired, height, esplora, electrum, reading, stack>>

\* The node adds blocks one by one, whether or not its caller still waits.
NodeBegins(f) ==
  /\ call[f] = "sent" /\ stack[f] # "over"
  /\ call' = [call EXCEPT ![f] = "executing"]
  /\ UNCHANGED <<kind, phase, expired, gateVars, height, esplora, electrum, reading, stack>>

NodeMines(f) ==
  /\ call[f] = "executing" /\ stack[f] # "over"
  /\ height' = [height EXCEPT ![f] = @ + 1]
  /\ call' = IF height[f] + 1 = Target(f) THEN [call EXCEPT ![f] = "mined"] ELSE call
  /\ UNCHANGED <<kind, phase, expired, gateVars, esplora, electrum, reading, stack>>

MiningAnswered(f) ==
  /\ phase[f] = "mining"
  /\ call[f] = "mined"
  /\ Becomes(f, Following(f))
  /\ LeaveGate(f)
  /\ UNCHANGED <<kind, expired, chainVars, reading, stack>>

\* The node refused, or the transport failed before the answer arrived.
MiningFails(f) == phase[f] = "mining" /\ Fail(f) /\ UNCHANGED expired

-------------------------------------------------------------------------------
(* The wait for one tip height.                                            *)

\* Electrs exists from its container on, and indexes what the node has.
Indexes(f) ==
  /\ phase[f] \in {"sync", "dependent", "ok"}
  /\ \/ /\ esplora[f] < height[f]
        /\ esplora' = [esplora EXCEPT ![f] = @ + 1]
        /\ UNCHANGED electrum
     \/ /\ electrum[f] < esplora[f]
        /\ electrum' = [electrum EXCEPT ![f] = @ + 1]
        /\ UNCHANGED esplora
  /\ UNCHANGED <<kind, phase, expired, gateVars, call, height, reading, stack>>

NodeAndEsploraAgree(r) == r.node = r.esplora  \* mutant: Electrum is not compared

\* Heights::agree.
Agree(r) == r.node = r.esplora /\ r.node = r.electrum

\* What the three services would answer now.
Tips(f) == [node |-> height[f], esplora |-> esplora[f], electrum |-> electrum[f]]

\* When all three futures of the join are done, a failed or differing reading
\* starts another round.
JoinRound(f, round) ==
  IF \E s \in DOMAIN round : round[s] = Open
  THEN reading' = [reading EXCEPT ![f] = round] /\ UNCHANGED phase
  ELSE /\ reading' = [reading EXCEPT ![f] = AllOpen]
       /\ IF (\A s \in DOMAIN round : round[s] # Unavailable) /\ Agree(round)
          THEN Becomes(f, Following(f))
          ELSE UNCHANGED phase

\* The futures complete one by one, in any order.
Read(f) ==
  /\ phase[f] = "sync"
  /\ \E service \in DOMAIN AllOpen : \E tip \in {Unavailable, Tips(f)[service]} :
       /\ reading[f][service] = Open
       /\ JoinRound(f, [reading[f] EXCEPT ![service] = tip])
  /\ UNCHANGED <<kind, expired, gateVars, chainVars, stack>>

-------------------------------------------------------------------------------
(* The dependent stack of a pair.                                          *)

\* An LndPair funds and confirms its channel on the Bitcoin node that is up
\* already (the faucet's block, six confirmations); a PegPair mines nothing.
DependentMines(f) ==
  /\ phase[f] = "dependent" /\ stack[f] # "over"
  /\ height[f] < Target(f) + LaterBlocks
  /\ height' = [height EXCEPT ![f] = @ + 1]
  /\ UNCHANGED <<kind, phase, expired, gateVars, call, esplora, electrum, reading, stack>>

-------------------------------------------------------------------------------
(* Removal, by the failed start's supervisor or by the handle's drop.      *)

Teardown(f) == stack' = [stack EXCEPT ![f] = "removing"]

RemovalEnds(f) ==
  /\ stack[f] = "removing"
  /\ stack' = [stack EXCEPT ![f] = "over"]
  /\ UNCHANGED <<kind, phase, expired, gateVars, chainVars, reading>>

StartupStep(f) ==
  \/ Connect(f) \/ Advance(f) \/ CallFails(f) \/ DeadlinePasses(f) \/ UnwindReturns(f)
  \/ TakePermit(f) \/ NodeBegins(f) \/ NodeMines(f) \/ MiningAnswered(f)
  \/ MiningFails(f) \/ Indexes(f) \/ Read(f) \/ DependentMines(f) \/ RemovalEnds(f)
===============================================================================
