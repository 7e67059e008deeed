# A TLA+ model of nigiri-rs

nigiri-rs starts disposable Bitcoin, Liquid and Lightning stacks in Docker for Rust tests
(`nigiri-rs-fixtures`), and talks to them through typed clients (`nigiri-rs-core`,
`nigiri-rs-lnd`). This directory holds a TLA+ development of its core logic: modules that model the
code, TLC configurations that check them on small instances, and proofs checked by TLAPS.

Paths below are relative to the repository; `S:123` stands for
`crates/nigiri-rs-fixtures/src/runtime/supervisor.rs:123`.

## 1. Inventory

| Component | State it keeps | Operations | What is hard about it | What makes it correct |
| --- | --- | --- | --- | --- |
| **Runtime supervisor** (`runtime/supervisor.rs`, `runtime/resources.rs`) | resource ledger, registry of pending create tasks, result/shutdown/completion oneshots, cancellation watch, join handle | `supervise`, `supervise_for_coordinator`, `Startup::create_network`, `start_container(_pair)`, `settle_mutation`, `cleanup`, `RuntimeHandle::shutdown`, drops | a caller future that can be dropped at every await, a thread of its own, create requests that outlive both, cleanup that may fail or never be answered | nothing that Docker created is forgotten; teardown order; no deadlock and no unbounded drop; results are truthful |
| **Composite coordinator** (`coordinate_startup` in the same file, `peg_pair.rs`, `lnd_pair.rs`) | two nested stacks, the value in a shared slot, acknowledgement oneshot, cancellation watch | start, hand over, cancel, shut down or drop the pair | a value two threads can take; a `select!` that polls before it is ready; a caller that detaches at the deadline | exactly one owner; dependent stack before backing stack in every way out; failures leave nothing |
| **Container engine** (`runtime/engine.rs`) | none (Docker's) | create, start, inspect, remove, logs, archive | lost answers, late commits, refusals | a missing resource counts as removed, errors are not swallowed |
| **Single fixture** (`fixture.rs`, `node.rs`, `electrs.rs`) | plan of resources, startup deadline | `start`, `shutdown`, node/Electrs plans | an order of phases under one deadline | the network is planned first, dependants after it |
| **Deadline** (`deadline.rs`) | one instant | `run`, `remaining`, `check` | zero remaining time, nested budgets | a phase never outlives the shared budget |
| **Readiness and initial mining** (`node.rs`, `electrs.rs`, `chain/*.rs`, `readiness.rs`, `electrum.rs`) | the three readings of a round, the process-wide mining permit | wait for the node's RPC, fund the wallet, start Electrs, sample and compare heights | three services that lag behind each other; nodes of one process that mine one after the other; starts that fail or are dropped in the queue | ready means the three agree; nobody waits for ever for the permit |
| **LND channel bootstrap** (`lnd_pair.rs`, `lnd_pair/channel.rs`) | channel point, mempool baseline, observation | fund, connect, open, mine, wait active, two probe payments | answers and mempool in either order; two nodes' views; retries of money | six blocks once; the channel is the one that was confirmed; no payment is retried after an uncertain outcome |
| **LND client** (`nigiri-rs-lnd`) | none across calls, a stream within one | invoices, payments, channel opening, wallet creation | streams that break, repeat or contradict; timeouts after a commit | an uncertain mutation is reported as uncertain, a terminal state once and rightly |
| **Peg client** (`peg.rs`, `peg/output.rs`) | claim attempts | `complete_peg_in`, `send_to_mainchain`, `release_peg_out` | a node that lags behind the blocks mined for it | bounded retries, only of immaturity; one unambiguous payout |
| **Chain client** (`client.rs`, `liquid.rs`, `rpc.rs`, `node_rpc.rs`, `http.rs`) | HTTP clients | faucet, mining, broadcast, waiting for confirmations, minting | a transaction committed whose mining failed; answers that are lost, cut or of the wrong shape | the caller learns of what was committed; an error that says "no" leaves nothing |
| **Test macro** (`nigiri-rs-macros`) | the results and handles in the generated wrapper | start all fixtures of a test, bind them, run the body, drop them | starts that are joined, one of which fails; a body that panics; drops that join their cleanup | a test passes only if its body ran; what the body finds is up |
| **Diagnostics** | none | bounded, redacted text | no behaviour over time | - |
| **Configuration, types, errors, conversions** | none | value checks | no behaviour over time | - |
| **Facade** | none | re-exports | no behaviour over time | - |

How they interact: a fixture's `start` awaits `supervise`, which spawns a thread with its own
current-thread runtime; that thread runs the startup work, which asks the engine for resources through
`Startup` and records each name in the ledger *before* it asks. The only links between the caller
and the thread are oneshots, a watch and a join handle. A composite spawns one more thread,
the coordinator, which awaits two nested supervisors (one after the other) and hands the pair to the
caller. Readiness, the channel bootstrap and `Peg::connect` run inside the startup work and use the
clients. The wrapper that `#[nigiri_rs::test]` generates starts several fixtures on one task; all
Bitcoin starts of a process meet at one mining permit.

## 2. Modules

| Module | Role | Models |
| --- | --- | --- |
| `OwnedResources` | abstract specification | what the runtime promises about a startup's Docker resources |
| `NestedStack` | abstract specification | what a supervisor in `Complete` mode promises the composite it is part of |
| `Supervisor` | detailed specification | supervisor thread, create tasks, caller, handle, Docker |
| `SupervisorMC` | instance for TLC | the single fixture and the LND nodes, each with a Docker that answers and one that may hang |
| `SupervisorProofs` | proofs | section 5 |
| `Coordinator` | specification | coordinator thread, handoff, caller, `PegPair` and `LndPair` |
| `CoordinatorMC` | instance for TLC | `PegPair` and `LndPair`, each with a Docker that answers and one that may hang |
| `CoordinatorProofs` | proofs | section 5 |
| `LndPayment` | specification | `pay_invoice` and `lookup_payment` against an LND, over a connection that loses things |
| `ReadinessPayments` | composition | the two probe payments of `LndPair`, made with the calls of `LndPayment` |
| `PaymentProofs` | proofs | section 5; of `LndPayment` and `ReadinessPayments` |
| `ChannelOpen` | specification | `open_channel` of the LND client and the bootstrap that polls it beside the mempool |
| `ChannelOpenProofs` | proofs | section 5 |
| `PegIn` | specification | `complete_peg_in` with its faucet, against bitcoind and a lagging elementsd |
| `PegInProofs` | proofs | section 5 |
| `LndBootstrap` | specification | `bootstrap_nodes`: from two running LND containers to an active channel |
| `LndBootstrapProofs` | proofs | section 5; of `LndBootstrap` and `BoundedReads` |
| `FixtureStartup` | specification | the startup work of the fixtures of one process, side by side, with the mining permit and the readiness rounds |
| `TestHarness` | composition | what `#[nigiri_rs::test]` accepts and generates, over `FixtureStartup` |
| `TestHarnessMC` | instance for TLC | the signatures of tests |
| `TestHarnessProofs` | proofs | section 5 |
| `PegOut` | operators | which payment a Liquid transaction asks the parent chain for |
| `ChainClient` | specification | the operations of `NigiriClient` and `Peg` that change a chain or wait for it, by several tasks |
| `ChainClientMC` | instance for TLC | one changing and one mining or waiting task; the transactions to release |
| `ChainClientProofs` | proofs | section 5; of `PegOut` and `ChainClient` |
| `BoundedReads` | specification | response bodies, log samples and LND's certificate, read from a peer that decides how much comes when |

### Supervisor

Four kinds of actor: the caller future, the supervisor thread (which polls the startup work), one
task per create request, and Docker.

| State | Code |
| --- | --- |
| `stage`, `branch` | where the async block of the work is: stages of the plan entered, and per resource how far `start_expected_container` (S:94-142) has come |
| `task` | one entry of the mutation registry: a create request in its own tokio task (S:193-216) |
| `ledger`, `confirmed` | `ResourceLedger::creation_order` and the ids it has (`resources.rs`) |
| `docker` | what really exists |
| `supervisor`, `outcome` | the thread's control point and the result of its work (S:439-520) |
| `queue`, `failed`, `refused` | the removal loop of `cleanup` (S:679-713) and what it could not remove; `refused` are networks Docker would not remove because a container is attached |
| `channel` | the result oneshot; "gone" when the receiver was dropped |
| `caller` | the caller: awaiting, then the error path (`failing`, `failed`), the drop path (`dropped`, `cancelling`, `gone`) or the handle (`holding`, `shutting`, `joining`, `closed`) |
| `cancelled`, `expired`, `shutdown`, `completion`, `reported` | watch flag, deadline, shutdown oneshot, completion oneshot, and what `shutdown()` returned |

Actions follow the code block by block; `PROJECT.json` maps each to its lines. Details worth knowing:

- `EnterStage` reserves every name of a stage before anything is awaited, as `create_network`,
  `start_container` and `start_container_pair` do; the pair's second container is in the ledger
  although the first may fail.
- `WorkFails` may fire with requests in flight when the deadline has passed or the cancellation flag
  is up: `select!` and `deadline.run` drop the work where it stands, while the spawned create tasks live on.
- A oneshot whose receiver is gone gives the value back: the value, with its `RuntimeHandle`, is
  dropped, and that drop sends the shutdown signal (`WorkSucceeds`). A value that sits in a channel
  whose receiver is dropped goes the same way (`DropFuture`).
- In `Deadline` mode an error is sent before cleanup, in `Complete` mode after it; a panic is always sent after
  it (S:505-517). `join_within_deadline` detaches only in `Deadline` mode.
- `RemoveNext` tries each resource once, a missing one counts as removed, and an error does not
  stop the loop.

### Coordinator

A nested stack is one supervisor in `Complete` mode, reduced to its life: absent, starting, up,
stopping, removed (cleanup left nothing) or left (something could not be removed). `NestedStack`
is that reduction by itself, with the stack's user (waiting for the startup, has the handle, leaving,
back) and what `shutdown` told it: a startup error, the drop of the startup future, `shutdown` and the handle's
drop come back only when the stack is over. Its steps are the stack's own (`StackStep`) or its user's
(`UserStep`). Two theorems join the modules there: `Supervisor` in `Complete` mode implements `NestedStack`,
and `Coordinator` does with each of its stacks only what `NestedStack` lets a user do (section 5).

`coord` is the coordinator thread's control point (S:577-650 around `start_peg_stacks` or
`start_with_environment_and_handoff`), `value` who holds the pair (`take_handoff_value` empties the slot
once), `channel` and `ack` the two oneshots, `watch` the cancellation watch, which is *closed*, too, when
`join_completed` drops its sender: that is how an acknowledged caller can wake the coordinator's
biased `select!` although nobody cancelled anything. `Connects` says whether `Peg::connect` runs once
both stacks are up (`PegPair`) or not (`LndPair`, whose second startup is also wrapped in `deadline.run`).
On every way out `FirstToGo` (the dependent stack) is released and waited for, then the other one.

### LndPayment

One connection and one call at a time. The daemon keeps a state per invoice (`payment`); a call has a
`request` on its way, an `answer` (the response head, or an error whose gRPC code is definite or
ambiguous in the sense of `mutating_status_is_ambiguous`), a `stream` of updates and the `line`'s end.
`phase`, `op`, `invoice`, `terminal` and `result` are the locals of `pay_invoice_with`,
`lookup_payment_with` and `consume_payment_stream` (`payment.rs:194-376`); `seen` only remembers
the updates read. The caller is anybody: it pays and looks up in any order and may drop a call's future.
An update's `wire` stands for its encoded bytes, because the code compares those.
`expired` is the timer of the call: one instant is computed when the call starts (`operation_deadline`) and bounds
the response head and every later message. An update that is read leaves it as it is (`AfterMessage`). `timeout_at` polls the
message before the timer, so an update that has arrived is still taken once the time is over.

Assumed of LND and the connection: a request that has not arrived when the next call starts never does;
LND takes a payment at most once while it is in flight or settled; its first terminal update in a stream
is true, whatever it sends afterwards. Streams end, break, repeat and contradict themselves
otherwise as they like.

### ReadinessPayments

`bootstrap_ready_channel`'s last two steps (`lnd_pair/channel.rs:355-515`). The module extends
`LndPayment`, adds the receivers' invoices and the place where the bootstrap
is, and lets only the bootstrap start calls. A payment whose invoice is settled does not fail, one whose
invoice was canceled does not succeed: that is what ties the two nodes' books together. "No route" and
"insufficient balance" are failure `a`; only they are retried.

### ChannelOpen

`open_and_confirm_channel` (`lnd_pair/channel.rs:171-250`) polls the open call and mempool queries in a
biased `select!`, so the call's steps carry the guard `Polled`, and its end drops the query polled beside it
(`CallEnds`). A query's answer is taken (`QueryMempool`) and looked at (`Observe`) in two steps.
Other transactions may enter the mempool at any time, `Old` ones are in it from the start, and
LND may say anything in its stream; it is assumed only to send a definite status
on the stream when the channel failed before it was published, or after its pending update. An update
whose transaction id does not convert (`malformed`) is told apart from the other
useless ones because its error names no channel point (section 6).

### PegIn

`Peg::complete_peg_in` (`peg.rs:253-296`) is a sequence of RPCs; `step` is the call it is at, `asked` and
`reply` what became of its request. Five calls change a node (`Commits`), five only ask (`Reads`). A
committing request may be executed and answered, executed with an answer that is lost or unusable
(`Commit`), refused (`Refuse`), or given up by the client's timeout or a dropped future (`GiveUp`) and
executed all the same, later (`ExecuteLate`). `After` is the order of the calls in `complete_peg_in`, `faucet`,
`mine_committed_transaction` and `fetch_matured_deposit`; the claim loop has actions of its own.

elementsd (external) looks at a main chain that ends up to `lag` blocks ago, a number chosen once per
behaviour, and wants `Margin` confirmations more than it reports: `peg.rs:68-81` measured a claim that was
refused at 8 and taken at 11. Others may mine. There are no reorganisations, the deposit is in the first
block after its send, and any error but the immaturity answer is one value, "error".

### LndBootstrap

`bootstrap_nodes` (`lnd_pair.rs:926-1012`) and `bootstrap_ready_channel` up to the active channel. `stage` is the
call it is at, `After` the order of the calls. The two wallets are created by a `try_join`, so `unlock` has a
place for each node, and `InitWallet`, once sent, is executed even for a client that gave up. `listed` is what
`ensure_peer_connected` read before it connects. A round of `wait_for_lnd_sync` or `wait_for_active_channel`
is a set of `pending` probes; each is answered at its own moment, so the readings of one round
(`info`, `chan`, `tipRead`) may be of different times. An answer "not ready" satisfies nothing; bitcoind's is
retried while synchronizing and ends the wait for the channel. Every failed round of the latter goes
back to `ensure_peer_connected`, which tries to connect also when the list of peers could not be read
(`ListingNotReady`).

External: the nodes follow bitcoind block by block, lose each other, meet again, and call the channel active only when
connected and when both have seen its confirmations. `open_and_confirm_channel` is one step here; its
inside is `ChannelOpen`. A faucet or an opening that was executed although the bootstrap gave up is not
followed: the bootstrap is over then, and the containers are removed.

### FixtureStartup and TestHarness

`FixtureStartup` follows `start_under_with_owner` for every fixture of a test: `phase` is the awaited call
(network and node container, root RPC, `createwallet`, `rescanblockchain` for Liquid, `getnewaddress`,
the permit for Bitcoin, the initial mining, Electrs, the rounds of `wait_for_sync`, a pair's dependent
stack). `Following` is their order. Each call may fail, and the fixture's own deadline may pass at any of
them; only the root RPC's errors and a round's readings are retried. `permit` and `waiting` are the
tokio mutex of `InitialMiningGate` with its queue: the guard, or the place in the queue, goes with the
future (`LeaveGate`). A node whose mining call was sent executes it block by block also when nobody waits for
the answer any more (`NodeBegins`, `NodeMines`), until its stack is gone. Electrs' two heights follow
the node's (`Indexes`); `reading` is the round in progress, whose three requests are answered each at a
moment of its own (`Read`), and which ends when the last of them has come (`JoinRound`). While a pair's dependent stack comes up,
its Bitcoin node may get up to `LaterBlocks` more (`DependentMines`): an `LndPair` funds and confirms its channel there.
A stack here is there, being removed or over: `Supervisor` is about how.

`TestHarness` extends it with the generated wrapper: `test` is where it is, `slot` the `expect` it is at,
`drops` the handles it is dropping. `Accepts` is what the parser lets through. The wrapper starts
all fixtures under one `join!`, panics at the first failed result, in which case the handles already bound and the
results not yet looked at are dropped (`UnwoundHandles`), gives clones of clients and the pairs themselves
to the body, and drops the rest after it, joining each cleanup. A body may shut down a pair it owns.

### PegOut and ChainClient

`PegOut` is `decode_peg_out`, the loop over the outputs as a recursive function that keeps what the code keeps
(`selected`, `malformed`), with scripts as sequences of instructions. `ChainClient`
gives each operation as a sequence of RPC methods (`Program`); a call is sent, executed or
refused by the node, answered or lost. `Responses` lists what can come back (the node's own
error, a result of the wrong shape, an envelope with both or neither, a body that broke off, no answer) and `Classified`
is what `call_with_sensitive` makes of it. A request the client gave up may still be executed.
`known` holds the identifiers the operation has read, which is what its error can name (`Wrapped`, `Fails`).
The waits are loops of Esplora queries: `Indexes` lets Esplora learn of a transaction, `Tolerated` is the 404
that `wait_for_confirmation` goes on after. The tasks meet in the node: a block mined by one takes the
other's transaction.

### BoundedReads

Three readers that keep at most so much: `http::send`, `collect_log_sample`, and the certificate of
`wait_for_tls_certificate` through `read_container_file`. A chunk is any part of what is left, an empty one too for the
log; the chunk that reaches the bound is cut. For the certificate, LND
writes the file (`LndWrites`) between the question for its size (`Stat`), the making of the archive
(`Download`) and the decoding; the archive is a header block, the file in whole blocks and the end blocks, so
that `Framed` and the size comparison are those of `validate_strict_tar_framing` and
`decode_single_file_archive`. A 404 is asked about again, at the size as at the archive. A certificate that is taken is one version of the file, which may be an
incomplete one: nothing in the code can tell, and building the client fails on it.

## 3. What the runs check

| Run | Instance | Question | Bounds |
| --- | --- | --- | --- |
| `supervisor` | network, node, Electrs in three stages in `Deadline` mode, or two containers in one stage in `Complete` mode; Docker answers, or may hang | is anything forgotten, removed in an order Docker refuses, misreported, orphaned; does an error or a drop of the public start wait for Docker; does a nested one wait for its cleanup; does everything end when Docker answers | the two real plans, of a fixture and of `start_lnd_nodes`, so nothing is cut off |
| `coordinator` | `PegPair` or `LndPair`; cleanups end, or may hang | order of the two stacks, the handoff's slot, the result of `shutdown`, a bounded `start`, every release ends | two stacks, as in the code |
| `lnd_payment` | two invoices, two updates in transit, any number of calls | does a call report what is so, after every break, repetition, contradiction or timeout; does it return however many updates LND sends | a contradiction needs two terminal updates, interference two invoices; calls are not counted |
| `readiness_payments` | Bob's invoice and two of Alice's | can a retried probe pay twice; what has a ready channel shown | `Reverse` bounds the retries to one, which a second payment needs; the proof has no bound |
| `channel_open` | one old and one new stranger, two updates in transit | does the returned channel have its confirmations; what do the alarm and each kind of error mean | a changed point needs two updates; one stranger of each kind |
| `channel_open_identifier` | one new stranger | the description of `InvalidResponse` in `docs/reference-errors.md:257-259` (section 6) | as above |
| `lnd_bootstrap` | start height 2, six confirmations, two faults | can a wallet be created twice; are both nodes where a successful wait says they are; does the bootstrap end | the heights fix which block is whose; two faults (answers "not ready", lost connections) let a connection break again after it was repaired, and a probe fail beside it |
| `peg_in` | depth 8, 20 retries, lag 0 to 19, margin 3, two blocks of others | can an uncertain claim be sent again; how many blocks does a peg-in cost, however it ends; when do the retries not suffice | depth and retries are the code's and the default chain's; lag 19 with margin 3 is past what the retries can make up for, lag 0 to 17 within |
| `test_harness` | signatures of up to two parameters, two Bitcoin stacks and a pair beside a fixture among them; fixture 2 need not meet its deadline | what does the body find; who mines beside whom; what is left when a test is over; can a test pass without its body; does a start get on | the permit needs two Bitcoin fixtures; `Blocks = 1` for the 101 of the code, as the mining is one call that is answered after its last block (the run also passes with two), and `LaterBlocks = 1` for the seven of an `LndPair`; the safety proofs hold for every number of either |
| `chain_client` | one task for a changing operation, one that mines or waits | does every error say what the node holds, or may still; is a success complete; which payment does a release make; do waits end | a second task is needed for a block that confirms another's transaction and for the waits; all transactions of up to two outputs of ten kinds, and some of three, as a third only repeats what a second did |
| `bounded_reads` | bodies, logs and files of up to five bytes, three kept, three log chunks, blocks of two bytes | is anything that fits refused, or more kept; what can a certificate be that is taken | the sources are shorter than, equal to and longer than what is kept, by more than one; a file's padding is none or one byte |

In the supervisor and the coordinator no counter is cut off: the plan bounds the stages, each resource is created once (its name carries a
fresh UUID), each removal is tried once, the deadline passes once. The state spaces are complete for
these plans. TLC also finds no deadlock: the only state without a further step is `Terminated`, which requires the thread and the caller
to be done.

Properties, and the mistakes they would catch:

- `NothingLeaks`, `ImplementsOwnership`: a create request committed after the code
  that sent it was dropped, or whose answer was lost.
- `OrderlyTeardown` (`TeardownOrder` and `ReturnedMeansCleaned`): cleanup in the order of answers rather than of
  reservations; a network before its containers; a nested caller that comes back before its stack is gone.
- `NoOrphanedStack`: a startup future dropped between the thread's send and the caller's receive.
- `FixtureCallerIsFree` (`ErrorIsPrompt` and `DropIsBounded`), `StartIsBounded`: the two wait modes. What
  the nested mode must guarantee is what the public mode must not wait for.
- `ShutdownTellsTheTruth` (both modules): an error of one removal or of the first phase overwritten
  by a later success.
- `DependentFirst`, `PairIsLive`, `NothingLeftBehind`: the pair, and the value two threads can take.
- `AnsweredCallsComplete` (`StartupAnswers` and `CleanupCompletes`), `AnsweredCleanupCompletes`: waiting for a
  request nobody sent, or for a signal nobody can send.
- `ReportsAreTrue`, `TerminalIsKept`: a broken stream taken for a failed payment, a terminal update
  forgotten because of a later error, or kept although LND contradicted it.
- `StatusMeansNotPaid`, `StatusMeansNoChannel`: an error code made up by the transport handed to the caller
  as LND's refusal, of a mutation that LND carries out.
- `NeverPaidTwice`, `ReadyMeansPaidOnce`: a retry after an uncertain outcome; a readiness that trusts the sender alone.
- `ReadyIsConfirmed`, `AlarmNeedsStranger`: mining for the wrong transaction, or a false alarm over one
  that was there before.
- `PendingPointIsKept`: the point of a published funding transaction forgotten or replaced.
- `NeverResubmitted`: a claim error taken for immaturity, so that a claim elementsd took is sent again.
- `BlocksBounded`, `ExhaustionNeedsLag`: the faucet's block forgotten or counted twice, a loop
  that ends one retry early. The last one relates a lag nobody observes to what the caller is told.
- `InitializedOnce`: the retry of wallet creation widened from `GenSeed` to `InitWallet`.
- `CaughtUp`: nodes that agree with each other taken for nodes that agree with bitcoind.
- `Converges`: a wait for the channel that does not connect the nodes again.
- `EveryCallReturns`: a timeout for each message instead of one deadline for the call, with which an LND that
  goes on sending updates would keep the caller for ever; a message awaited without it.
- `BodyFindsItsFunds`: three readings of different moments that agree by chance, a service left out of the
  comparison, a handle that is dropped when its client is handed to the body.
- `OverlapNeedsAbandonedCall`, `StartsMoveOn`: a permit let go too early, or kept in the queue for a start that
  is gone.
- `SurvivorsFailedToStart`: one failed start of several, after which the stacks that are up are forgotten.
- `PassedMeansBodyRan`: `#[should_panic]` satisfied by a stack that could not start.
- `ErrorsTellTheTruth`, `SuccessIsComplete`: a transaction or an asset that exists and whose identifier the
  error does not carry; an answer the node never gave taken for its refusal.
- `ReleasePaysTheBurn`: a burn for another chain, or the second of two, paid out.
- `WaitsEnd`: an Esplora that lags behind the block taken for a final answer.
- `BoundsAreExact`: off by one at a bound, or at the end of a chunk.
- `FileIsAVersion`: a certificate put together from two versions of the file.

### Fairness

`Scheduling` assumes that operating system threads and tokio tasks with a ready future are scheduled
(weak fairness of the thread's and of the caller's own steps) and that time passes
(`DeadlineExpires`). Every phase of the startup work is bounded by the shared deadline, which is why the
work as a whole moves on or fails; for the same reason a nested stack's startup ends
(`StackStarts`). In `Coordinator` a public `start()` future is wrapped in `deadline.run`, which drops it
once the deadline has passed: weak fairness of `expired /\ DropFuture`. Nobody is ever assumed to
call `shutdown`, to drop a handle, to cancel or to panic.

In `LndPayment` time passes (`WF_vars(DeadlinePasses)`), and a timer that stays over is served
(`WF_vars(Deadlines)`): both awaits of a call are inside `timeout_at` with one absolute deadline, and some poll finds
no message ready. A timer that every message sets anew is never over for good, and `EveryCallReturns` fails of
it. Nothing is assumed of LND, which may send updates for ever, or of the connection.
`ReadinessPayments`, `ChannelOpen` and `PegIn` state safety only.

In `TestHarness` the wrapper and the starts it joins are polled, the permit is taken by the start it was
handed to, and the deadline of a fixture comes; that of a `Patient` one need not, so that `StartsMoveOn`
shows the permit reaching it although no timer helps. Nothing is assumed of nodes, Electrs or Docker.

In `ChainClient` the tasks are polled and the HTTP client's own timeout ends a request nobody answers. Esplora
starts and indexes, because `WaitsEnd` is about what the code does once it does; no node has to answer, and a wait's deadline is
not assumed to come. `BoundedReads` states safety only.

In `LndBootstrap`, `Progress` assumes that the futures are polled and that LND and bitcoind answer and catch up: the
question is whether the code needs more than that. The deadline (`GiveUp`) may fire but is not
assumed to, so that `Converges` does not hold merely because everything ends at the deadline, and
the nodes lose each other only `MaxFaults` times.

`EngineAnswers` adds that Docker answers each request and removal. It is assumed only where the code can do
nothing without it (that cleanup *ends*). The properties that say the code does *not* wait for Docker are checked
without it: the run's `engine` is chosen once per behaviour, and only one that "answers" is fair.

## 4. Abstractions and assumptions

- An engine error is taken as final. `docs/explanation-lifecycle-ownership.md:70-85` says an
  uncertain transport failure may leave a resource behind; such a late commit after an error answer is
  outside the model. (A commit whose answer is *lost* is inside it.)
- Killing the process is not modelled; the documentation promises nothing for it.
- Image pulls, container starts and port lookups may fail and change no state that cleanup
  depends on. Reading a file or a log in startup, and attaching logs to an error, change no state.
- The `RecvError` branches of the caller need a supervisor thread whose cleanup panics; cleanup as
  modelled does not.
- In production `before_ack` is a ready future, so a caller in state "received" goes on at once; tests
  use the hook to drop the future there, and the model allows that drop.
- The Docker refusal of a network in use is modelled from Docker's behaviour as `cleanup` meets it (external).

- The shared deadline of the bootstrap is the action `GiveUp`, which may fire at any time; it drops
  the call that is polled, and a request on its way may still arrive.
- In `ChannelOpen` six blocks confirm whatever the mempool then holds, and mining may fail before or
  after it happened.
- In `PegIn` the reading of the deposit and its proof never fails because of a missing transaction index, only as
  any call may; `claim_peg_in` by itself, which a caller may retry under its own policy, is not modelled, nor what
  `Peg::connect` compares (it reads two values once; in `Coordinator` it is a step that succeeds or fails).
- Durations are not counted: a deadline is one expiry that may come at any await. The refusal of a zero or
  unrepresentable timeout, before anything is started, is left out.
- In `FixtureStartup` the node's blocks are those of the initial mining and, for a pair, of its dependent stack (a block
  that a dropped call of the latter still adds is left out, the stack being removed then); nobody else mines before
  the body runs, as the nodes are private to the fixture. An Electrum probe is one reading, whatever is wrong with its line.
- In `TestHarness` the tokens the macro writes, its runtime flavour and crate path are text. A process ends with
  its tests; what a detached cleanup still does then is not followed.
- In `ChainClient` identifiers of wrong shape count as unusable answers; amounts are compared, not computed.
- In `BoundedReads` Docker's archive has the ustar layout of one regular file (external); a file that shrinks or
  is replaced is left out, as LND appends.
- A gRPC error of `lookup_payment`'s response head is reported as it is, except for the timeout: a lookup
  changes nothing.

## 5. Proofs

`SupervisorProofs` (for every set of resources and all jobs, a plan and a mode each, that satisfy
`JobsAssumption`) and `CoordinatorProofs` (for both values of `Connects`) establish as theorems
of `Spec`:

- type correctness of both, and for the supervisor the invariants `CleanupSettled`, `NothingLeaks`,
  `ReturnedMeansCleaned`, `TeardownOrder` (both together are `OrderlyTeardown`), `ShutdownTellsTheTruth`,
  `RefusalNeedsFailure`, `NoOrphanedStack`;
- `OwnershipRefined`: `Supervisor` implements `OwnedResources`, with the phase computed from the
  thread's control point and ownership from ledger and queue;
- for the pair `DependentFirst`, `PairIsLive`, `NothingLeftBehind`, `ShutdownTellsTheTruth`;
- the link between the two: `NestedStackRefined` (`Supervisor` in `Complete` mode, for every plan, implements
  `NestedStack`; the stack is over when the thread is, and the result `shutdown` returned is still
  true then) and `NestedStacksUsed` (in every behaviour of `Coordinator`, each of the two stacks with its
  user is a behaviour of `NestedStack`). The first does not hold in `Deadline` mode, whose
  caller may be back before the thread is over.

The two halves of that link fit because each states its role (`NestedRoles`), step by step. In `Supervisor` a
step of the caller (`CallerSteps`, `CallerChoices`) is a `UserStep` or a stutter, and a step of the thread, its
tasks, Docker or the clock is a `StackStep` or a stutter; in `Coordinator` a step of one of the stacks
(`StackSteps`) is a `StackStep`, and every other step a `UserStep`. A third theorem,
`StacksAreFree`, is the converse for the coordinator's side: every `StackStep` of one of its stacks, with the rest of
the state as it was, is a step of `Coordinator` at any time. So what a supervisor does as seen from outside
is something `Coordinator` allows its stack, and what coordinator and caller do to a stack is what the user of
a `NestedStack` may do. The link is about safety: that a stack's cleanup ends is assumed in the coordinator
(`EngineAnswers`) and model-checked for the supervisor.

Some of them are proved and not run by themselves: `TeardownOrder` and `ReturnedMeansCleaned` are run
as `OrderlyTeardown`; `CleanupSettled` and `RefusalNeedsFailure` say what a lower level
of the argument needs. The type invariants are theorems where a proof module exists; they were checked with TLC
before, and no run spends time on them.

`JobsAssumption` is what the fixtures guarantee: fresh names occur once, a network is planned before
every container, the mode is one of two. The job of a supervisor is chosen initially and never changes
(`job`), so that the run has a fixture and a pair's LND nodes in one state space, and one theorem is about both.

`PaymentProofs` (for all invoices and any number of updates in transit) proves `TypeOK`,
`ReportsAreTrue`, `StatusMeansNotPaid` and `TerminalIsKept` of `LndPayment`, and (for any set of reverse
invoices) that the probes implement it (`UsesPayments`), `NeverPaidTwice` and `ReadyMeansPaidOnce`; `ChannelOpenProofs` (for any strangers)
its `TypeOK`, `ReadyIsConfirmed`, `AlarmNeedsStranger`, `StatusMeansNoChannel` and the action property
`PendingPointIsKept`. `PegInProofs` (for every depth, retry budget, lag, margin and number of foreign blocks)
proves `TypeOK`, `NeverResubmitted`, `BlocksBounded` and `ExhaustionNeedsLag`;
`LndBootstrapProofs` (for every start height, number of confirmations and number of faults) `TypeOK`,
`InitializedOnce` and `CaughtUp`, and (for every limit, tar block size and length of what a peer sends)
`BoundsAreExact` and `FileIsAVersion` of `BoundedReads`; `TestHarnessProofs` (for any number of parameters, any set of signatures, any
height of the initial mining and any number of later blocks) the types, `OverlapNeedsAbandonedCall`, `BodyFindsItsFunds`, `PassedMeansBodyRan` and
`SurvivorsFailedToStart`. `ChainClientProofs` (for any tasks, jobs and waits between them, and transactions of any
length) proves `DecodeFindsTheBurn` of the function `decode_peg_out`, and of `ChainClient` the types,
`ErrorsTellTheTruth`, `SuccessIsComplete` and `ReleasePaysTheBurn`.

The assumptions are named in the modules that declare the constants. Two say more than a type:
`PegOutAssumption` keeps the kinds of pushes apart (a block hash is no address), and `ReadAssumption` says that the
overhead of an archive holds four tar blocks (header, padding, two end blocks), which `engine.rs:28` grants with 64 KiB
against blocks of 512 bytes; without it an unchanged file could be refused.

None of the invariants is inductive alone. `NothingLeaks` speaks of the end of the thread; what
carries it there is that every resource Docker has, or may still get, is in the ledger, in
the queue, or among those whose removal failed, and that nothing is in flight from the first removal on. That
conjunction, with the facts about which control points go together, is the inductive invariant `IInv`.
Teardown order needs a second one (`OrderInv`): the ledger lists its names in planned order, holds only names of
entered stages, and the queue is a suffix of its reverse. `NoOrphanedStack` needs the relation between
the channel, the caller and the shutdown flag (`Handover`). The coordinator's `CInv` has four parts: which stack can be in
which state at each control point (`Stages`), who owns the pair (`Owners`), what the signals imply about the
other thread (`Signals`) and what a reported result says (`Told`). The two nested-stack theorems rest on
these, on a closer handover that holds in `Complete` mode (`Nesting`: before cleanup is over nothing is sent but an
unused handle), and on which stacks were ever started (`Started`). TLC checked each of them on the
instances above before they were proved.

A report of `LndPayment` is true because the first terminal update *on its way* is (`Truth` in `PInv`, over
the contents of the stream), because nothing came of a request that has not arrived (`Pending`), and
because what was read is what `terminal` holds (`Read`, `Verdict`). `ReadinessPayments`
adds to `PInv`, which holds of it because every step of the probes is one of `LndPayment`, that every invoice but the current one has no payment or
a failed one (`OthersDead`) and what each stage of the probes knows (`Stages`). In `OInv` of `ChannelOpen`,
`MinedOnce` follows the trigger from the snapshot through the mempool to its confirmation, `Fresh` keeps it apart
from the baseline, and `Known` and `Warned` say what LND may hold while the call does not know: a
refusal that follows a pending update finds that update already read or still in front of it. In `GInv` of
`PegIn`, `Spent` counts the blocks each call has mined before and after its answer, a late request's too;
`Deposited` keeps the deposit's block at least `mined - 1` below the tip, which with the count gives maturity; and
`Judged` says that an immaturity answer to claim number `attempt` means `attempt < lag + Margin`. In `BInv` of
`LndBootstrap`, `Counted` ties the `InitWallet` requests to where the client is, `Chain` says what is on the
chain at each stage and what an active channel implies, and `Readings` that a reading, however old, is a
lower bound of what its node has seen since; that is why readings of different moments may be combined.

`HInv` of `TestHarness` has a part for each fixture, `StartInv`, and a part for the wrapper. `StartInv` says how high the chain can be in
each phase, that only a pair's goes past its target, and that neither Electrs height is ahead of it (`Chain`), that a reading is no higher than its service is now and the
node's is the target (`Readings`), that a Bitcoin start whose mining call is under way holds the permit (`Gate`), and that the
stack of a start that goes on is there (`Up`). As nobody mines between the answer to the initial call and the
end of the rounds, three equal readings, however old, are the target. The wrapper's parts say what kind of signature it was generated for (`Signed`), that all starts have returned once
it looks at their results (`Joined`), that nothing that is up is taken down before the body (`Kept`), and what a
verdict implies (`Judged`). A step of a start touches one fixture, and the wrapper's parts need of it only how `phase`
and `stack` move (`Moves`).

`SurvivorsFailedToStart` needs what becomes of every single handle: `Released` follows a handle from `join!` through
the sequences that panics and ends of bodies make of the slots (`Held`), down to the drop that waits for its
stack, and knows that a start refused before its supervisor took over has no stack. `CInv` of `ChainClient` says of each task, by two tables of the programs (`Calls`, their lengths, and `CommitAt`,
the call that commits), that a transaction or an asset is at a node exactly when that call was
executed (`Done`), that the task has its name exactly when it was answered (`Learnt`), that what a release pays is what it
decoded (`Burn`), and which answer to which call a result can come from (`Returned`). The errors tell the truth since
an answer that names the node's refusal is only made of a refusal (`ClassifiedFacts`), and mining
errors come only after the commit was answered. In `ReadInv` of `BoundedReads`, `Streaming` and `Unpacking` say byte by byte that what
is kept and what is still to come are together the source, or the archive of the first `declared` bytes
of the file (`Sent`); a verdict is given once, from that. That an archive of the size Docker told is never given up rests on
`PaddedFacts` and `ArchiveFits`.

Recursive functions and loops. The library's induction theorems take an operator and cannot be used with the
installed provers, but the well-foundedness of `<` on the naturals can, which is stated with sets
(`NatLessThanWellFounded`, `WFMin`). Lemma `Induction` derives from it that a set of naturals with 0 and every successor is
all of them; with it the recursive functions `Held` and `decode_peg_out` are shown to exist and to be what their loops
mean (`HeldFacts`, `ScanEquation`, `ScanStep`), for any number of handles and outputs.

Only model-checked: everything with fairness (`CleanupCompletes`, `StartupAnswers`, `ErrorIsPrompt`,
`DropIsBounded`, `StartIsBounded`, `EveryCallReturns`, `Converges`, `StartsMoveOn`, `WaitsEnd`), since TLAPS does not
reason about ENABLED. Every invariant, every action property and every refinement a run
checks is a theorem as well. Coordinator and Supervisor are connected by the two theorems about `NestedStack`.

## 6. Findings

`channel_open_identifier`: `docs/reference-errors.md:257-259` says the identifier of
`InvalidResponse` preserves a safe channel point when available. After a pending update has named the point,
an opened update whose transaction id is missing or malformed ends `open_channel_with` through
`and_then(channel_point)?` (`nigiri-rs-lnd/src/channel.rs:147`; a second pending update at line 132), whose error has no identifier: the
known point is dropped, while the neighbouring error paths pass it on.

## 7. Plan

Done: `Supervisor`, `Coordinator`, `LndPayment`, `ReadinessPayments`, `ChannelOpen`, `PegIn`, `LndBootstrap` and
`TestHarness` with `FixtureStartup`, `ChainClient` with `PegOut`, and `BoundedReads`, each with proofs; `NestedStack`,
which joins the first two.

Left, in this order:

1. `claim_peg_in` by itself, under a caller's retries, beside `PegIn`.
2. Liveness across the link: `Coordinator`'s `EngineAnswers` from the fairness of two supervisors. Its safety
   is what the two theorems about `NestedStack` establish.

### Not modelled

Diagnostics and redaction (text only), configuration, value types and conversions of single values (checks
of one value each), and the facade (re-exports) have no behaviour over time, and unit tests reach them. The accessors, builders
and single read-only requests of the modelled components are left out for the same reason, as is the
protocol code of `nigiri-rs-lnd` that only fills in a message. About half of the Rust lines under `crates/`
are `#[cfg(test)]` modules in the same files, which the mapping does not count as modelled.
