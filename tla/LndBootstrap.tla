----------------------------- MODULE LndBootstrap -----------------------------
(***************************************************************************)
(* From two running LND containers to an active channel (bootstrap_nodes   *)
(* in nigiri-rs-fixtures/src/lnd_pair.rs and bootstrap_ready_channel in    *)
(* lnd_pair/channel.rs): certificates, two wallets created concurrently,   *)
(* synchronization, funding, the peer connection, the channel, and the     *)
(* wait until both nodes call it active. The nodes follow bitcoind at      *)
(* their own pace, are not ready now and then, and may lose each other.    *)
(***************************************************************************)
EXTENDS Naturals

CONSTANTS
  Start,           \* bitcoind's height when the LND nodes come up
  Confirmations,   \* blocks mined for the funding transaction of the channel
  MaxFaults        \* bound: answers "not ready" and lost connections

ASSUME BootstrapAssumption ==
  /\ Start \in Nat \ {0}
  /\ Confirmations \in Nat \ {0}
  /\ MaxFaults \in Nat

VARIABLES
  stage,           \* the step the bootstrap is at
  unlock,          \* per node, where initialize_lnd_client is
  inits,           \* per node, the InitWallet requests sent
  listed,          \* ensure_peer_connected read that Bob is not connected
  pending,         \* the probes of the round that have no answer yet
  info, chan,      \* per node, the height and the channel state answered
  tipRead,         \* the height bitcoind answered
  wallet,          \* per node: LND has a wallet
  tip,             \* bitcoind's height
  seen,            \* per node, the height it is synchronized to
  funded, opened,  \* the heights that confirm Alice's funds and the channel
  peers,           \* Alice and Bob are connected
  active,          \* per node: it calls the channel active
  faults           \* counter of MaxFaults

readings == <<pending, info, chan, tipRead>>
daemons  == <<wallet, tip, seen, funded, opened, peers, active>>
client   == <<stage, unlock, inits, listed, readings>>
vars     == <<client, daemons, faults>>

Nodes == {"alice", "bob"}

Tip == <<"tip", "bitcoind">>

SyncProbes == {<<"info", n>> : n \in Nodes} \union {Tip}

ActiveProbes == SyncProbes \union {<<"chan", n>> : n \in Nodes}

Stages == {"aliceCert", "bobCert", "wallets", "sync", "identities", "address",
           "fund", "balance", "connect", "open", "reconnect", "probe", "done",
           "failed"}

Init ==
  /\ stage = "aliceCert"
  /\ unlock = [n \in Nodes |-> "seed"]
  /\ inits = [n \in Nodes |-> 0]
  /\ listed = FALSE
  /\ pending = {}
  /\ info = [n \in Nodes |-> 0]
  /\ chan = [n \in Nodes |-> FALSE]
  /\ tipRead = 0
  /\ wallet = [n \in Nodes |-> FALSE]
  /\ tip = Start
  /\ seen = [n \in Nodes |-> 0]
  /\ funded = 0
  /\ opened = 0
  /\ peers = FALSE
  /\ active = [n \in Nodes |-> FALSE]
  /\ faults = 0

-------------------------------------------------------------------------------
(* LND and bitcoind by themselves.                                         *)

Fault == faults < MaxFaults /\ faults' = faults + 1

CatchUp(n) ==
  /\ wallet[n] /\ seen[n] < tip
  /\ seen' = [seen EXCEPT ![n] = @ + 1]
  /\ UNCHANGED <<client, wallet, tip, funded, opened, peers, active, faults>>

\* A channel works between connected peers that saw its confirmations.
BecomesActive(n) ==
  /\ opened > 0 /\ peers /\ \A m \in Nodes : seen[m] >= opened
  /\ active' = [active EXCEPT ![n] = TRUE]
  /\ UNCHANGED <<client, wallet, tip, seen, funded, opened, peers, faults>>

LoseEachOther ==
  /\ peers /\ Fault
  /\ peers' = FALSE
  /\ active' = [n \in Nodes |-> FALSE]
  /\ UNCHANGED <<client, wallet, tip, seen, funded, opened>>

\* A peer comes back by itself.
MeetAgain ==
  /\ ~peers /\ opened > 0
  /\ peers' = TRUE
  /\ UNCHANGED <<client, wallet, tip, seen, funded, opened, active, faults>>

-------------------------------------------------------------------------------
(* One call after the other.                                               *)

After ==
  [aliceCert |-> "bobCert", bobCert |-> "wallets", sync |-> "identities",
   identities |-> "address", address |-> "fund", fund |-> "balance",
   balance |-> "connect", connect |-> "open", open |-> "reconnect",
   reconnect |-> "probe", probe |-> "done"]

Proceed == stage' = After[stage]

\* A certificate file that is there and not empty; an identity; an address.
Answered ==
  /\ stage \in {"aliceCert", "bobCert", "identities", "address"}
  /\ Proceed
  /\ UNCHANGED <<unlock, inits, listed, readings, daemons, faults>>

\* fund_address: the faucet's send and its block.
Fund ==
  /\ stage = "fund"
  /\ Proceed
  /\ tip' = tip + 1
  /\ funded' = tip + 1
  /\ UNCHANGED <<unlock, inits, listed, readings, wallet, seen, opened, peers,
                 active, faults>>

\* wait_for_confirmed_balance: any other answer is asked for again.
BalanceSeen ==
  /\ stage = "balance" /\ seen["alice"] >= funded
  /\ Proceed
  /\ UNCHANGED <<unlock, inits, listed, readings, daemons, faults>>

\* open_and_confirm_channel as a whole (module ChannelOpen).
Open ==
  /\ stage = "open" /\ peers
  /\ Proceed
  /\ tip' = tip + Confirmations
  /\ opened' = tip + Confirmations
  /\ UNCHANGED <<unlock, inits, listed, readings, wallet, seen, funded, peers,
                 active, faults>>

\* The deadline, a cancellation, or an error that is not worth a retry.
GiveUp ==
  /\ stage \notin {"done", "failed"}
  /\ stage' = "failed"
  /\ UNCHANGED <<unlock, inits, listed, readings, daemons, faults>>

\* LND refuses to open a channel with a node that is not connected.
OpenRefused == stage = "open" /\ ~peers /\ GiveUp

-------------------------------------------------------------------------------
(* Two wallets, by try_join of initialize_lnd_client.                      *)

SeedGenerated(n) ==
  /\ stage = "wallets" /\ unlock[n] = "seed"
  /\ unlock' = [unlock EXCEPT ![n] = "init"]
  /\ inits' = [inits EXCEPT ![n] = @ + 1]
  /\ UNCHANGED <<stage, listed, readings, daemons, faults>>

\* LND executes an InitWallet that was sent, also for a client that gave up.
Initialize(n) ==
  /\ unlock[n] = "init" /\ ~wallet[n]
  /\ wallet' = [wallet EXCEPT ![n] = TRUE]
  /\ UNCHANGED <<client, tip, seen, funded, opened, peers, active, faults>>

WalletReady(n) ==
  /\ stage = "wallets" /\ unlock[n] = "init" /\ wallet[n]
  /\ unlock' = [unlock EXCEPT ![n] = "ready"]
  /\ UNCHANGED <<stage, inits, listed, readings, daemons, faults>>

AnyTransient == {"seed", "init"}      \* mutant: the operation is not looked at
TransientCalls == {"seed"}

\* is_transient_seed_generation: only a failed GenSeed is tried again, after a
\* pause.
CallAgain(n) ==
  /\ stage = "wallets" /\ unlock[n] \in TransientCalls
  /\ Fault
  /\ unlock' = [unlock EXCEPT ![n] = "pause"]
  /\ UNCHANGED <<stage, inits, listed, readings, daemons>>

PauseOver(n) ==
  /\ stage = "wallets" /\ unlock[n] = "pause"
  /\ unlock' = [unlock EXCEPT ![n] = "seed"]
  /\ UNCHANGED <<stage, inits, listed, readings, daemons, faults>>

BothReady ==
  /\ stage = "wallets" /\ \A n \in Nodes : unlock[n] = "ready"
  /\ stage' = "sync"
  /\ pending' = SyncProbes
  /\ UNCHANGED <<unlock, inits, listed, info, chan, tipRead, daemons, faults>>

-------------------------------------------------------------------------------
(* ensure_peer_connected.                                                  *)

Connecting == stage \in {"connect", "reconnect"}

PeerListed ==
  /\ Connecting /\ ~listed /\ peers
  /\ Proceed
  /\ pending' = IF stage = "reconnect" THEN ActiveProbes ELSE pending
  /\ UNCHANGED <<unlock, inits, listed, info, chan, tipRead, daemons, faults>>

PeerMissing ==
  /\ Connecting /\ ~listed /\ ~peers
  /\ listed' = TRUE
  /\ UNCHANGED <<stage, unlock, inits, readings, daemons, faults>>

\* The listing is not ready: the same connect_peer, whoever is connected.
ListingNotReady ==
  /\ Connecting /\ ~listed /\ Fault
  /\ listed' = TRUE
  /\ UNCHANGED <<stage, unlock, inits, readings, daemons>>

\* connect_peer; to be connected already is no error.
ConnectPeer ==
  /\ Connecting /\ listed
  /\ listed' = FALSE
  /\ peers' = TRUE
  /\ UNCHANGED <<stage, unlock, inits, readings, wallet, tip, seen, funded, opened,
                 active, faults>>

NotYetConnected ==
  /\ Connecting /\ listed /\ Fault
  /\ listed' = FALSE
  /\ UNCHANGED <<stage, unlock, inits, readings, daemons>>

-------------------------------------------------------------------------------
(* The rounds of wait_for_lnd_sync and wait_for_active_channel: probes that *)
(* overlap, each of them answered at its own moment.                       *)

InfoAnswered(n) ==
  /\ <<"info", n>> \in pending /\ stage \in {"sync", "probe"}
  /\ pending' = pending \ {<<"info", n>>}
  /\ info' = [info EXCEPT ![n] = seen[n]]
  /\ UNCHANGED <<stage, unlock, inits, listed, chan, tipRead, daemons, faults>>

ChanAnswered(n) ==
  /\ <<"chan", n>> \in pending /\ stage = "probe"
  /\ pending' = pending \ {<<"chan", n>>}
  /\ chan' = [chan EXCEPT ![n] = active[n]]
  /\ UNCHANGED <<stage, unlock, inits, listed, info, tipRead, daemons, faults>>

TipAnswered ==
  /\ Tip \in pending /\ stage \in {"sync", "probe"}
  /\ pending' = pending \ {Tip}
  /\ tipRead' = tip
  /\ UNCHANGED <<stage, unlock, inits, listed, info, chan, daemons, faults>>

\* A transient error counts as an answer that satisfies nothing. bitcoind's is
\* one while synchronizing, and ends the wait for the channel (GiveUp).
NotReady(p) ==
  /\ p \in pending
  /\ stage = "sync" \/ (stage = "probe" /\ p # Tip)
  /\ Fault
  /\ pending' = pending \ {p}
  /\ info' = [n \in Nodes |-> IF p = <<"info", n>> THEN 0 ELSE info[n]]
  /\ chan' = [n \in Nodes |-> chan[n] /\ p # <<"chan", n>>]
  /\ tipRead' = IF p = Tip THEN 0 ELSE tipRead
  /\ UNCHANGED <<stage, unlock, inits, listed, daemons>>

\* The nodes agree with each other, but not with bitcoind (mutant).
AgreeAmongNodes ==
  /\ info["alice"] = info["bob"] /\ info["alice"] > 0
  /\ stage = "probe" => \A n \in Nodes : chan[n]

Agree ==
  /\ tipRead > 0
  /\ \A n \in Nodes : info[n] = tipRead
  /\ stage = "probe" => \A n \in Nodes : chan[n]

RoundSucceeds ==
  /\ stage \in {"sync", "probe"} /\ pending = {} /\ Agree
  /\ Proceed
  /\ UNCHANGED <<unlock, inits, listed, readings, daemons, faults>>

OnlyProbe == "probe"                  \* mutant: connected once is enough
NextRound == IF stage = "probe" THEN "reconnect" ELSE "sync"

RoundFails ==
  /\ stage \in {"sync", "probe"} /\ pending = {} /\ ~Agree
  /\ stage' = NextRound
  /\ pending' = IF stage' = "reconnect" THEN {}
                ELSE IF stage = "probe" THEN ActiveProbes ELSE SyncProbes
  /\ UNCHANGED <<unlock, inits, listed, info, chan, tipRead, daemons, faults>>

-------------------------------------------------------------------------------
Calls == Answered \/ Fund \/ BalanceSeen \/ Open \/ OpenRefused

Wallets == \E n \in Nodes :
  SeedGenerated(n) \/ WalletReady(n) \/ PauseOver(n) \/ CallAgain(n)

Peering ==
  PeerListed \/ PeerMissing \/ ListingNotReady \/ ConnectPeer \/ NotYetConnected

Probing ==
  \/ TipAnswered \/ RoundSucceeds \/ RoundFails
  \/ \E n \in Nodes : InfoAnswered(n) \/ ChanAnswered(n)
  \/ \E p \in ActiveProbes : NotReady(p)

Daemons ==
  \/ \E n \in Nodes : CatchUp(n) \/ BecomesActive(n) \/ Initialize(n)
  \/ LoseEachOther \/ MeetAgain

Next ==
  \/ Calls \/ Wallets \/ BothReady \/ Peering \/ Probing \/ Daemons \/ GiveUp
  \/ stage \in {"done", "failed"} /\ UNCHANGED vars

Spec == Init /\ [][Next]_vars

\* The futures are polled, and LND and bitcoind answer and make progress.
Progress ==
  /\ WF_vars(Calls) /\ WF_vars(BothReady) /\ WF_vars(Peering) /\ WF_vars(Probing)
  /\ \A n \in Nodes :
       /\ WF_vars(SeedGenerated(n)) /\ WF_vars(PauseOver(n))
       /\ WF_vars(Initialize(n)) /\ WF_vars(WalletReady(n))
       /\ WF_vars(CatchUp(n)) /\ WF_vars(BecomesActive(n))

FairSpec == Spec /\ Progress

-------------------------------------------------------------------------------
(* Properties.                                                             *)

\* Every variable has its type (bootstrap_nodes).
TypeOK ==
  /\ stage \in Stages
  /\ unlock \in [Nodes -> {"seed", "pause", "init", "ready"}]
  /\ inits \in [Nodes -> Nat]
  /\ listed \in BOOLEAN
  /\ pending \subseteq ActiveProbes
  /\ info \in [Nodes -> Nat]
  /\ chan \in [Nodes -> BOOLEAN]
  /\ tipRead \in Nat
  /\ wallet \in [Nodes -> BOOLEAN]
  /\ tip \in Nat \ {0}
  /\ seen \in [Nodes -> Nat]
  /\ funded \in Nat
  /\ opened \in Nat
  /\ peers \in BOOLEAN
  /\ active \in [Nodes -> BOOLEAN]
  /\ faults \in Nat

\* No node is sent a second InitWallet: after the first, a wallet with another
\* seed may exist (initialize_wallet, is_transient_seed_generation).
InitializedOnce == \A n \in Nodes : inits[n] <= 1

\* What was waited for is so, although no two readings are of one moment: both
\* nodes have the chain they started with, and at the end every block that
\* confirms the channel (wait_for_lnd_sync, wait_for_active_channel).
CaughtUp ==
  \A n \in Nodes :
    /\ stage \notin {"aliceCert", "bobCert", "wallets", "sync", "failed"} => seen[n] >= Start
    /\ stage = "done" => seen[n] >= opened /\ opened > funded

\* Once the nodes no longer lose each other the bootstrap comes to an end: every
\* round of the last wait first connects them again (ensure_peer_connected).
Converges == <>(stage \in {"done", "failed"})
===============================================================================
