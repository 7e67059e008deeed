----------------------------- MODULE ChannelOpen -----------------------------
(***************************************************************************)
(* Opening and confirming Alice's channel (open_and_confirm_channel in     *)
(* lnd_pair/channel.rs, open_channel_with in the LND client's channel.rs): *)
(* the bootstrap polls the open call and the mempool by turns, mines six   *)
(* blocks on the first new transaction, and then checks that the channel   *)
(* point LND reports was among those it mined for.                         *)
(***************************************************************************)
EXTENDS Naturals, Sequences

CONSTANTS
  Fund,        \* the funding transaction LND would publish
  Strangers,   \* other transactions; a channel point stands for its txid
  Old,         \* those already in the mempool when the opening begins
  NoTx,        \* no channel point
  MaxUpdates   \* bound: updates in transit

ASSUME ChannelAssumption ==
  /\ Fund \notin Strangers
  /\ NoTx \notin {Fund} \union Strangers
  /\ Old \subseteq Strangers
  /\ MaxUpdates \in Nat

Tx == {Fund} \union Strangers

\* ChanPending, ChanOpen, either of them with a transaction id that does not
\* convert, and what the client has no use for: a PSBT request, an update
\* without state or a point.
Update == [kind : {"pending", "opened", "malformed", "other"}, point : Tx]

VARIABLES
  mempool,    \* bitcoind's unconfirmed transactions
  confirmed,  \* transactions with six confirmations
  minings,    \* how often the bootstrap mined six blocks
  lnd,        \* Alice's LND: none, negotiating, published, open, failed
  request,    \* the open request is on its way
  answer,     \* the response head on its way back
  stream,     \* updates on their way back
  line,       \* the response stream: open, ended, broken, or refused by LND
  told,       \* LND has sent the pending update of its channel
  call,       \* the open call: unsent, opening, streaming, over
  pending,    \* pending_point, or NoTx
  outcome,    \* what the call returned
  point,      \* the channel point it returned or named, or NoTx
  boot,       \* the bootstrap
  baseline,   \* the mempool it captured first
  snapshot,   \* an answered mempool query that was not looked at yet
  asked,      \* a mempool query was answered
  trigger     \* the new transactions it mined for

chainVars == <<mempool, confirmed, minings>>
lndVars   == <<lnd, request, answer, stream, line, told>>
callVars  == <<call, pending, outcome, point>>
bootVars  == <<boot, baseline, snapshot, asked, trigger>>
vars == <<mempool, confirmed, minings, lnd, request, answer, stream, line, told,
          call, pending, outcome, point, boot, baseline, snapshot, asked, trigger>>

Init ==
  /\ mempool = Old
  /\ confirmed = {}
  /\ minings = 0
  /\ lnd = "none"
  /\ request = FALSE
  /\ answer = "none"
  /\ stream = <<>>
  /\ line = "open"
  /\ told = FALSE
  /\ call = "unsent"
  /\ pending = NoTx
  /\ outcome = "none"
  /\ point = NoTx
  /\ boot = "baseline"
  /\ baseline = {}
  /\ snapshot = {}
  /\ asked = FALSE
  /\ trigger = {}

-------------------------------------------------------------------------------
(* LND, the connection and other users of bitcoind.                        *)

Inject ==
  /\ \E t \in Strangers : t \notin confirmed /\ mempool' = mempool \union {t}
  /\ UNCHANGED <<confirmed, minings, lndVars, callVars, bootVars>>

Accept ==
  /\ request
  /\ request' = FALSE
  /\ lnd' = "negotiating"
  /\ answer' = "stream"
  /\ UNCHANGED <<chainVars, stream, line, told, callVars, bootVars>>

Refuse ==
  /\ request
  /\ request' = FALSE
  /\ answer' \in {"definite", "ambiguous"}
  /\ UNCHANGED <<chainVars, lnd, stream, line, told, callVars, bootVars>>

LoseAnswer ==
  /\ answer = "stream" /\ call = "opening"
  /\ answer' = "ambiguous"
  /\ UNCHANGED <<chainVars, lnd, request, stream, line, told, callVars, bootVars>>

Publish ==
  /\ lnd = "negotiating"
  /\ lnd' = "published"
  /\ mempool' = mempool \union {Fund}
  /\ UNCHANGED <<confirmed, minings, request, answer, stream, line, told,
                 callVars, bootVars>>

\* Bob refuses, or Alice cannot fund the channel.
NegotiationFails ==
  /\ lnd = "negotiating"
  /\ lnd' = "failed"
  /\ line' = IF line = "open" THEN "refused" ELSE line
  /\ UNCHANGED <<chainVars, request, answer, stream, told, callVars, bootVars>>

SeesConfirmations ==
  /\ lnd = "published" /\ Fund \in confirmed
  /\ lnd' = "open"
  /\ UNCHANGED <<chainVars, request, answer, stream, line, told, callVars, bootVars>>

Transmit(u) ==
  /\ answer = "stream" /\ line = "open"
  /\ Len(stream) < MaxUpdates
  /\ stream' = Append(stream, u)
  /\ UNCHANGED <<chainVars, lnd, request, answer, line, callVars, bootVars>>

TransmitPending ==
  /\ lnd \in {"published", "open"}
  /\ Transmit([kind |-> "pending", point |-> Fund])
  /\ told' = TRUE

TransmitOpened ==
  /\ lnd = "open"
  /\ Transmit([kind |-> "opened", point |-> Fund])
  /\ UNCHANGED told

\* Anything LND should not say: a changed point, a PSBT request, no state.
TransmitStray ==
  /\ \E u \in Update : Transmit(u)
  /\ UNCHANGED told

\* After its pending update LND may close the stream with any status.
CloseStream ==
  /\ answer = "stream" /\ line = "open"
  /\ line' \in {"ended"} \union (IF told THEN {"refused"} ELSE {})
  /\ UNCHANGED <<chainVars, lnd, request, answer, stream, told, callVars, bootVars>>

\* A broken connection loses the updates in transit from some point on.
BreakStream ==
  /\ answer = "stream" /\ line = "open"
  /\ line' = "broken"
  /\ \E n \in 0..Len(stream) : stream' = SubSeq(stream, 1, n)
  /\ UNCHANGED <<chainVars, lnd, request, answer, told, callVars, bootVars>>

-------------------------------------------------------------------------------
(* The open call. It moves only while the bootstrap polls it.              *)

Polled == boot \in {"watching", "awaiting"}

\* What the bootstrap makes of the call's end: an error ends it, a channel
\* point ends the mempool query the biased select polled beside it.
CallEnds(how, p) ==
  /\ call' = "over"
  /\ outcome' = how
  /\ point' = p
  /\ boot' = IF how = "ok" THEN boot ELSE "failed"
  /\ asked' = FALSE
  /\ UNCHANGED <<chainVars, lnd, request, answer, line, told, baseline, snapshot, trigger>>

Dispatch ==
  /\ Polled /\ call = "unsent"
  /\ call' = "opening"
  /\ request' = TRUE
  /\ UNCHANGED <<chainVars, lnd, answer, stream, line, told, pending, outcome,
                 point, bootVars>>

OpenStream ==
  /\ Polled /\ call = "opening" /\ answer = "stream"
  /\ call' = "streaming"
  /\ UNCHANGED <<chainVars, lndVars, pending, outcome, point, bootVars>>

OpenFails ==
  /\ Polled /\ call = "opening" /\ answer \in {"definite", "ambiguous"}
  /\ CallEnds(IF answer = "definite" THEN "status" ELSE "unknown", NoTx)
  /\ UNCHANGED <<stream, pending>>

AnyPoint(u) == FALSE          \* mutant: points are not compared

\* A second point for the same channel.
PointChanged(u) == pending # NoTx /\ u.point # pending

Consume ==
  /\ Polled /\ call = "streaming" /\ stream # <<>>
  /\ LET u == Head(stream)
     IN \/ /\ u.kind = "malformed"
           /\ CallEnds("invalid", NoTx)
           /\ UNCHANGED pending
        \/ /\ u.kind = "other" \/ (u.kind # "malformed" /\ PointChanged(u))
           /\ CallEnds("invalid", pending)
           /\ UNCHANGED pending
        \/ /\ u.kind = "pending" /\ ~PointChanged(u)
           /\ pending' = u.point
           /\ UNCHANGED <<chainVars, lnd, request, answer, line, told, call,
                          outcome, point, bootVars>>
        \/ /\ u.kind = "opened" /\ ~PointChanged(u)
           /\ CallEnds("ok", u.point)
           /\ UNCHANGED pending
  /\ stream' = Tail(stream)

StreamEnds ==
  /\ Polled /\ call = "streaming" /\ stream = <<>> /\ line = "ended"
  /\ CallEnds("invalid", pending)
  /\ UNCHANGED <<stream, pending>>

StatusIsFinal == line = "refused"    \* mutant: also after the pending update

\* Before the pending update the mutating classifier decides, afterwards no
\* error is final (unknown_open_outcome).
Definite == line = "refused" /\ pending = NoTx

StreamFails ==
  /\ Polled /\ call = "streaming" /\ stream = <<>> /\ line \in {"broken", "refused"}
  /\ CallEnds(IF Definite THEN "status" ELSE "unknown", pending)
  /\ UNCHANGED <<stream, pending>>

\* The call's own timeout, before or after the response head.
CallTimesOut ==
  /\ Polled /\ call \in {"opening", "streaming"}
  /\ CallEnds("unknown", pending)
  /\ UNCHANGED <<stream, pending>>

-------------------------------------------------------------------------------
(* The bootstrap.                                                          *)

BootSteps(from) ==
  /\ boot = from
  /\ UNCHANGED <<lndVars, callVars>>

NoBaseline == {}          \* mutant: every transaction is new

Captured == mempool

CaptureBaseline ==
  /\ BootSteps("baseline")
  /\ baseline' = Captured
  /\ boot' = "watching"
  /\ UNCHANGED <<chainVars, snapshot, asked, trigger>>

\* bitcoind answers getrawmempool; the answer is looked at later.
QueryMempool ==
  /\ BootSteps("watching")
  /\ ~asked
  /\ asked' = TRUE
  /\ snapshot' = mempool
  /\ UNCHANGED <<chainVars, boot, baseline, trigger>>

NewlyObserved == snapshot \ baseline

Observe ==
  /\ BootSteps("watching")
  /\ asked
  /\ asked' = FALSE
  /\ trigger' = NewlyObserved
  /\ boot' = IF NewlyObserved = {} THEN "watching" ELSE "mining"
  /\ UNCHANGED <<chainVars, baseline, snapshot>>

\* Six blocks confirm whatever the mempool holds by now.
Mine ==
  /\ BootSteps("mining")
  /\ confirmed' = confirmed \union mempool
  /\ mempool' = {}
  /\ minings' = minings + 1
  /\ boot' = "awaiting"
  /\ UNCHANGED <<baseline, snapshot, asked, trigger>>

Uncorrelated == TRUE      \* mutant: any channel point will do

Correlated == point \in trigger

Correlate ==
  /\ BootSteps("awaiting")
  /\ outcome = "ok"
  /\ boot' = IF Correlated THEN "ready" ELSE "uncorrelated"
  /\ UNCHANGED <<chainVars, baseline, snapshot, asked, trigger>>

Final == boot \in {"ready", "uncorrelated", "failed"}

\* An error of bitcoind's, with or without the blocks, or the shared deadline.
GiveUp ==
  /\ ~Final
  /\ boot' = "failed"
  /\ \/ UNCHANGED chainVars
     \/ /\ boot = "mining"
        /\ confirmed' = confirmed \union mempool
        /\ mempool' = {}
        /\ minings' = minings + 1
  /\ UNCHANGED <<lndVars, callVars, baseline, snapshot, asked, trigger>>

-------------------------------------------------------------------------------
Lnd ==
  \/ Accept \/ Refuse \/ LoseAnswer \/ Publish \/ NegotiationFails
  \/ SeesConfirmations \/ TransmitPending \/ TransmitOpened \/ TransmitStray
  \/ CloseStream \/ BreakStream

Client ==
  \/ Dispatch \/ OpenStream \/ OpenFails \/ Consume \/ StreamEnds \/ StreamFails
  \/ CallTimesOut

Bootstrap ==
  \/ CaptureBaseline \/ QueryMempool \/ Observe \/ Mine \/ Correlate \/ GiveUp

Next == Inject \/ Lnd \/ Client \/ Bootstrap \/ (Final /\ UNCHANGED vars)

Spec == Init /\ [][Next]_vars

-------------------------------------------------------------------------------
(* Properties.                                                             *)

\* Every variable has its type (open_and_confirm_channel, open_channel_with).
TypeOK ==
  /\ mempool \subseteq Tx
  /\ confirmed \subseteq Tx
  /\ minings \in Nat
  /\ lnd \in {"none", "negotiating", "published", "open", "failed"}
  /\ request \in BOOLEAN
  /\ answer \in {"none", "stream", "definite", "ambiguous"}
  /\ stream \in Seq(Update)
  /\ line \in {"open", "ended", "broken", "refused"}
  /\ told \in BOOLEAN
  /\ call \in {"unsent", "opening", "streaming", "over"}
  /\ pending \in Tx \union {NoTx}
  /\ outcome \in {"none", "ok", "status", "unknown", "invalid"}
  /\ point \in Tx \union {NoTx}
  /\ boot \in {"baseline", "watching", "mining", "awaiting", "ready",
               "uncorrelated", "failed"}
  /\ baseline \subseteq Tx
  /\ snapshot \subseteq Tx
  /\ asked \in BOOLEAN
  /\ trigger \subseteq Tx

\* A ready channel's funding transaction has its six confirmations, mined once,
\* although LND reports the point over a stream of its own, before or after
\* the mining, and may report a wrong one.
ReadyIsConfirmed == boot = "ready" => point \in confirmed /\ minings = 1

\* The true channel point fails the correlation check only when somebody else's
\* transaction entered the isolated mempool during the opening (the comment in
\* open_and_confirm_channel): what was there before is in the baseline.
AlarmNeedsStranger ==
  (boot = "uncorrelated" /\ point = Fund) => \E t \in Strangers \ Old : t \in trigger

\* A definite status of open_channel means that LND has no such channel and
\* never will: nothing is negotiated, published or on its way.
StatusMeansNoChannel ==
  outcome = "status" => lnd \in {"none", "failed"} /\ ~request

\* Once LND has named the channel point of its funding transaction the call
\* never forgets it or takes another: the channel it then returns, and the
\* unknown outcome after any error or timeout, name that point
\* (open_channel_with, unknown_open_outcome).
PendingPointIsKept ==
  [][pending # NoTx => /\ pending' = pending
                       /\ (outcome' \in {"ok", "unknown"} => point' = pending)]_vars

\* docs/reference-errors.md of InvalidResponse: the error preserves a safe
\* channel point when it is available.
InvalidNamesThePoint == (outcome = "invalid" /\ pending # NoTx) => point = pending
===============================================================================
