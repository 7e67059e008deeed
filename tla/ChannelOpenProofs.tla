--------------------------- MODULE ChannelOpenProofs ---------------------------
(***************************************************************************)
(* What a confirmed channel, an alarm and a definite answer mean, for any  *)
(* other transactions in the mempool and any number of updates in transit. *)
(***************************************************************************)
EXTENDS ChannelOpen, TLAPS

\* The bootstrap mines once, and what made it mine is confirmed thereby.
MinedOnce ==
  /\ boot \in {"baseline", "watching", "mining"} => minings = 0
  /\ boot \in {"awaiting", "ready", "uncorrelated"} => minings = 1 /\ trigger \subseteq confirmed
  /\ boot = "mining" => trigger \subseteq mempool
  /\ boot = "baseline" => ~asked
  /\ boot = "watching" /\ asked => snapshot \subseteq mempool

\* The baseline covers what was there before, and the trigger is new.
Fresh ==
  /\ boot = "baseline" => Old \subseteq mempool
  /\ boot \in {"watching", "mining", "awaiting", "ready", "uncorrelated"} => Old \subseteq baseline
  /\ boot \in {"mining", "awaiting", "ready", "uncorrelated"} =>
       trigger # {} /\ trigger \cap Old = {}

Compared ==
  /\ boot = "ready" => point \in trigger
  /\ boot = "uncorrelated" => point \notin trigger
  /\ call # "over" => outcome = "none"
  /\ boot \in {"baseline", "watching", "mining", "awaiting"} =>
       outcome \in {"none", "ok"}

\* What LND has of the call.
Known ==
  /\ call = "unsent" => ~request /\ answer = "none"
  /\ request => lnd = "none" /\ answer = "none"
  /\ answer \in {"none", "definite"} => lnd = "none"
  /\ answer = "definite" => ~request
  /\ lnd # "none" => ~request
  /\ told => lnd \in {"published", "open"}
  /\ outcome = "status" => lnd \in {"none", "failed"} /\ ~request

HasPending(s) == \E n \in DOMAIN s : s[n].kind = "pending"

\* A refusal that follows the pending update finds it read.
Warned ==
  /\ line = "refused" => told \/ lnd = "failed"
  /\ told /\ line # "broken" /\ call \in {"unsent", "opening", "streaming"}
       => pending # NoTx \/ HasPending(stream)

\* An answer that is no refusal carries the point that was read.
Named ==
  /\ call \in {"unsent", "opening"} => pending = NoTx
  /\ outcome \in {"ok", "unknown"} /\ pending # NoTx => point = pending

OInv == TypeOK /\ MinedOnce /\ Fresh /\ Compared /\ Known /\ Warned /\ Named

-------------------------------------------------------------------------------
LEMMA Emptied == <<>> \in Seq(Update) /\ ~HasPending(<<>>)
BY DEF HasPending

LEMMA Appended ==
  ASSUME NEW s \in Seq(Update), NEW u \in Update
  PROVE  /\ Append(s, u) \in Seq(Update)
         /\ HasPending(s) => HasPending(Append(s, u))
         /\ u.kind = "pending" => HasPending(Append(s, u))
<1>1. /\ Append(s, u) \in Seq(Update) /\ Len(s) \in Nat
      /\ DOMAIN s = 1..Len(s)
      /\ DOMAIN Append(s, u) = 1..(Len(s) + 1)
      /\ \A n \in 1..Len(s) : Append(s, u)[n] = s[n]
      /\ Append(s, u)[Len(s) + 1] = u
  OBVIOUS
<1> QED BY <1>1 DEF HasPending

LEMMA TakenFirst ==
  ASSUME NEW s \in Seq(Update), s # <<>>
  PROVE  /\ Head(s) \in Update
         /\ Tail(s) \in Seq(Update)
         /\ HasPending(s) => Head(s).kind = "pending" \/ HasPending(Tail(s))
<1>1. /\ Head(s) \in Update /\ Head(s) = s[1]
      /\ Tail(s) \in Seq(Update)
      /\ Len(s) \in Nat /\ Len(s) > 0
      /\ DOMAIN Tail(s) = 1..(Len(s) - 1)
      /\ DOMAIN s = 1..Len(s)
      /\ \A m \in 1..(Len(s) - 1) : Tail(s)[m] = s[m + 1]
  OBVIOUS
<1>2. ASSUME HasPending(s), Head(s).kind # "pending" PROVE HasPending(Tail(s))
  <2>1. PICK n \in 1..Len(s) : s[n].kind = "pending" BY <1>1, <1>2 DEF HasPending
  <2>2. n - 1 \in 1..(Len(s) - 1) /\ Tail(s)[n - 1] = s[n] BY <1>1, <1>2, <2>1
  <2> QED BY <1>1, <2>1, <2>2 DEF HasPending
<1> QED BY <1>1, <1>2

-------------------------------------------------------------------------------
LEMMA InitOInv == Init => OInv
<1> SUFFICES ASSUME Init PROVE OInv OBVIOUS
<1>1. TypeOK BY ChannelAssumption, Emptied DEF Init, TypeOK, Tx
<1> QED
  BY <1>1 DEF Init, OInv, MinedOnce, Fresh, Compared, Known, Warned, Named

LEMMA InjectStep == ASSUME OInv, Inject PROVE OInv'
<1>1. TypeOK'
  BY DEF OInv, Inject, TypeOK, Tx, lndVars, callVars, bootVars
<1> QED
  BY <1>1 DEF OInv, Inject, MinedOnce, Fresh, Compared, Known, Warned, Named,
              lndVars, callVars, bootVars

LEMMA LndStep == ASSUME OInv, Lnd PROVE OInv'
<1> USE DEF OInv, chainVars, callVars, bootVars
<1>1. CASE Accept
  <2>1. TypeOK'
    <3>1. /\ request' \in BOOLEAN
          /\ lnd' \in {"none", "negotiating", "published", "open", "failed"}
          /\ answer' \in {"none", "stream", "definite", "ambiguous"}
      BY <1>1 DEF Accept
    <3> QED BY <1>1, <3>1 DEF Accept, TypeOK
  <2>2. MinedOnce' /\ Fresh' /\ Compared'
    BY <1>1 DEF Accept, MinedOnce, Fresh, Compared
  <2>3. Known' BY <1>1 DEF Accept, Known
  <2>4. Warned' /\ Named' BY <1>1 DEF Accept, Known, Warned, Named
  <2> QED BY <2>1, <2>2, <2>3, <2>4
<1>2. CASE Refuse
  <2>1. TypeOK'
    <3>1. /\ request' \in BOOLEAN
          /\ answer' \in {"none", "stream", "definite", "ambiguous"}
      BY <1>2 DEF Refuse
    <3> QED BY <1>2, <3>1 DEF Refuse, TypeOK
  <2>2. MinedOnce' /\ Fresh' /\ Compared'
    BY <1>2 DEF Refuse, MinedOnce, Fresh, Compared
  <2>3. Known' BY <1>2 DEF Refuse, Known
  <2>4. Warned' /\ Named' BY <1>2 DEF Refuse, Known, Warned, Named
  <2> QED BY <2>1, <2>2, <2>3, <2>4
<1>3. CASE LoseAnswer
  BY <1>3 DEF LoseAnswer, TypeOK, MinedOnce, Fresh, Compared, Known, Warned, Named
<1>4. CASE Publish
  <2>1. TypeOK' BY <1>4 DEF Publish, TypeOK, Tx
  <2> QED BY <1>4, <2>1 DEF Publish, MinedOnce, Fresh, Compared, Known, Warned, Named
<1>5. CASE NegotiationFails
  BY <1>5 DEF NegotiationFails, TypeOK, MinedOnce, Fresh, Compared, Known, Warned, Named
<1>6. CASE SeesConfirmations
  BY <1>6 DEF SeesConfirmations, TypeOK, MinedOnce, Fresh, Compared, Known, Warned, Named
<1>7. ASSUME NEW u \in Update, Transmit(u),
             \/ told' = told
             \/ lnd \in {"published", "open"} /\ u.kind = "pending" /\ told' = TRUE
      PROVE  OInv'
  <2>1. Append(stream, u) \in Seq(Update) BY Appended DEF TypeOK
  <2>2. TypeOK'
    <3>1. told' \in BOOLEAN BY <1>7 DEF TypeOK
    <3> QED BY <1>7, <2>1, <3>1 DEF Transmit, TypeOK
  <2>3. Warned' BY <1>7, Appended DEF Transmit, TypeOK, Warned
  <2> QED BY <1>7, <2>2, <2>3 DEF Transmit, MinedOnce, Fresh, Compared, Known, Named
<1>8. CASE TransmitPending
  <2>1. [kind |-> "pending", point |-> Fund] \in Update BY DEF Update, Tx
  <2> QED BY <1>7, <1>8, <2>1 DEF TransmitPending
<1>9. CASE TransmitOpened
  <2>1. [kind |-> "opened", point |-> Fund] \in Update BY DEF Update, Tx
  <2> QED BY <1>7, <1>9, <2>1 DEF TransmitOpened
<1>10. CASE TransmitStray
  BY <1>7, <1>10 DEF TransmitStray
<1>11. CASE CloseStream
  BY <1>11 DEF CloseStream, TypeOK, MinedOnce, Fresh, Compared, Known, Warned, Named
<1>12. CASE BreakStream
  <2>1. PICK n \in 0..Len(stream) : stream' = SubSeq(stream, 1, n)
    BY <1>12 DEF BreakStream
  <2>2. stream' \in Seq(Update) BY <2>1 DEF TypeOK
  <2>3. TypeOK' BY <1>12, <2>2 DEF BreakStream, TypeOK
  <2> QED BY <1>12, <2>3 DEF BreakStream, MinedOnce, Fresh, Compared, Known, Warned, Named
<1> QED
  BY <1>1, <1>2, <1>3, <1>4, <1>5, <1>6, <1>8, <1>9, <1>10, <1>11, <1>12 DEF Lnd

\* The call's end, for every answer it may give.
LEMMA Ends ==
  ASSUME OInv, Polled, call \in {"opening", "streaming"},
         NEW how \in {"ok", "status", "unknown", "invalid"}, NEW p \in Tx \union {NoTx},
         CallEnds(how, p), stream' \in Seq(Update), pending' = pending,
         how = "status" => lnd \in {"none", "failed"} /\ ~request,
         how \in {"ok", "unknown"} /\ pending # NoTx => p = pending
  PROVE  OInv'
<1>1. /\ call' = "over" /\ outcome' = how /\ point' = p /\ asked' = FALSE
      /\ boot' = (IF how = "ok" THEN boot ELSE "failed")
      /\ mempool' = mempool /\ confirmed' = confirmed /\ minings' = minings
      /\ lnd' = lnd /\ request' = request /\ answer' = answer /\ line' = line
      /\ told' = told /\ baseline' = baseline /\ snapshot' = snapshot
      /\ trigger' = trigger
  BY DEF CallEnds, chainVars
<1>2. boot \in {"watching", "awaiting"} BY DEF Polled
<1>3. TypeOK'
  <2>1. TypeOK BY DEF OInv
  <2>2. /\ mempool' \subseteq Tx /\ confirmed' \subseteq Tx /\ minings' \in Nat
        /\ baseline' \subseteq Tx /\ snapshot' \subseteq Tx /\ trigger' \subseteq Tx
    BY <1>1, <2>1 DEF TypeOK
  <2>3. /\ request' \in BOOLEAN /\ told' \in BOOLEAN /\ asked' \in BOOLEAN
    BY <1>1, <2>1 DEF TypeOK
  <2>4. /\ lnd' \in {"none", "negotiating", "published", "open", "failed"}
        /\ answer' \in {"none", "stream", "definite", "ambiguous"}
        /\ line' \in {"open", "ended", "broken", "refused"}
    BY <1>1, <2>1 DEF TypeOK
  <2>5. /\ call' \in {"unsent", "opening", "streaming", "over"}
        /\ outcome' \in {"none", "ok", "status", "unknown", "invalid"}
        /\ boot' \in {"baseline", "watching", "mining", "awaiting", "ready",
                     "uncorrelated", "failed"}
    BY <1>1, <1>2
  <2>6. pending' \in Tx \union {NoTx} /\ point' \in Tx \union {NoTx}
    BY <1>1, <2>1 DEF TypeOK
  <2> QED BY <2>2, <2>3, <2>4, <2>5, <2>6 DEF TypeOK
<1>4. MinedOnce'
  <2>1. MinedOnce BY DEF OInv
  <2> QED BY <1>1, <1>2, <2>1 DEF MinedOnce
<1>5. Fresh'
  <2>1. Fresh BY DEF OInv
  <2> QED BY <1>1, <1>2, <2>1 DEF Fresh
<1>6. Compared'
  <2>1. Compared BY DEF OInv
  <2> QED BY <1>1, <1>2, <2>1 DEF Compared
<1>7. Known'
  <2>1. Known BY DEF OInv
  <2> QED BY <1>1, <2>1 DEF Known
<1>8. Warned'
  <2>1. Warned BY DEF OInv
  <2> QED BY <1>1, <2>1 DEF Warned
<1>9. Named'
  <2>1. Named BY DEF OInv
  <2> QED BY <1>1, <2>1 DEF Named
<1> QED BY <1>3, <1>4, <1>5, <1>6, <1>7, <1>8, <1>9 DEF OInv

LEMMA ClientStep == ASSUME OInv, Client PROVE OInv'
<1> USE DEF OInv, chainVars, lndVars, bootVars
<1>1. CASE Dispatch
  <2>1. lnd = "none" BY <1>1 DEF Dispatch, Known
  <2>2. ~told BY <2>1 DEF Known
  <2> QED
    BY <1>1, <2>1, <2>2
    DEF Dispatch, Polled, TypeOK, MinedOnce, Fresh, Compared, Known, Warned, Named
<1>2. CASE OpenStream
  <2>1. TypeOK' BY <1>2 DEF OpenStream, TypeOK
  <2>2. /\ call = "opening" /\ call' = "streaming"
        /\ UNCHANGED <<lndVars, pending, outcome, point, bootVars>>
    BY <1>2 DEF OpenStream
  <2>3. Known' /\ Named' BY <1>2, <2>2 DEF OpenStream, Known, Named
  <2>4. Warned' BY <2>2 DEF Warned
  <2> QED BY <1>2, <2>1, <2>3, <2>4 DEF OpenStream, MinedOnce, Fresh, Compared
<1>3. CASE OpenFails
  <2>1. (IF answer = "definite" THEN "status" ELSE "unknown") = "status"
          => lnd \in {"none", "failed"} /\ ~request
    BY DEF Known
  <2>2. stream' \in Seq(Update) BY <1>3 DEF OpenFails, TypeOK
  <2>3. pending = NoTx BY <1>3 DEF OpenFails, Named
  <2> QED BY <1>3, <2>1, <2>2, <2>3, Ends DEF OpenFails
<1>4. CASE Consume
  <2> DEFINE u == Head(stream)
  <2>1. stream # <<>> /\ Polled /\ call = "streaming" /\ stream' = Tail(stream)
    BY <1>4 DEF Consume
  <2>2. u \in Update /\ Tail(stream) \in Seq(Update)
        /\ (HasPending(stream) => u.kind = "pending" \/ HasPending(Tail(stream)))
    BY <2>1, TakenFirst DEF TypeOK
  <2>3. u.point \in Tx /\ pending \in Tx \union {NoTx} /\ NoTx \notin Tx
    BY <2>2, ChannelAssumption DEF Update, TypeOK, Tx
  <2>4. CASE u.kind = "pending" /\ ~PointChanged(u)
    <3>1. /\ pending' = u.point
          /\ UNCHANGED <<chainVars, lnd, request, answer, line, told, call,
                         outcome, point, bootVars>>
      BY <1>4, <2>4 DEF Consume
    <3>2. TypeOK' BY <2>1, <2>2, <2>3, <3>1 DEF TypeOK
    <3>3. Warned' BY <2>3, <3>1 DEF Warned
    <3>4. Named' BY <2>1, <3>1 DEF Compared, Named
    <3> QED BY <3>1, <3>2, <3>3, <3>4 DEF MinedOnce, Fresh, Compared, Known
  <2>5. CASE ~(u.kind = "pending" /\ ~PointChanged(u))
    <3>1. PICK how \in {"ok", "invalid"}, p \in Tx \union {NoTx} :
            /\ CallEnds(how, p) /\ pending' = pending
            /\ how = "ok" /\ pending # NoTx => p = pending
      BY <1>4, <2>3, <2>5 DEF Consume, PointChanged
    <3> QED BY <2>1, <2>2, <3>1, Ends
  <2> QED BY <2>4, <2>5
<1>5. CASE StreamEnds
  <2>1. stream' \in Seq(Update) /\ pending \in Tx \union {NoTx}
    BY <1>5 DEF StreamEnds, TypeOK
  <2> QED BY <1>5, <2>1, Ends DEF StreamEnds
<1>6. CASE StreamFails
  <2>1. stream' \in Seq(Update) /\ pending \in Tx \union {NoTx}
    BY <1>6 DEF StreamFails, TypeOK
  <2>2. ASSUME Definite PROVE lnd \in {"none", "failed"} /\ ~request
    BY <1>6, <2>2, Emptied DEF StreamFails, Definite, Warned, Known
  <2> QED BY <1>6, <2>1, <2>2, Ends DEF StreamFails
<1>7. CASE CallTimesOut
  <2>1. stream' \in Seq(Update) /\ pending \in Tx \union {NoTx}
    BY <1>7 DEF CallTimesOut, TypeOK
  <2> QED BY <1>7, <2>1, Ends DEF CallTimesOut
<1> QED BY <1>1, <1>2, <1>3, <1>4, <1>5, <1>6, <1>7 DEF Client

LEMMA BootstrapStep == ASSUME OInv, Bootstrap PROVE OInv'
<1> USE DEF OInv, BootSteps, chainVars, lndVars, callVars
<1>1. CASE CaptureBaseline
  <2>1. TypeOK'
    <3>1. /\ boot' \in {"watching", "mining"}
          /\ baseline' \subseteq Tx
      BY <1>1 DEF CaptureBaseline, Captured, TypeOK
    <3> QED BY <1>1, <3>1 DEF CaptureBaseline, TypeOK
  <2>2. MinedOnce' BY <1>1 DEF CaptureBaseline, Captured, TypeOK, MinedOnce
  <2>3. Fresh' BY <1>1 DEF CaptureBaseline, Captured, TypeOK, MinedOnce, Fresh
  <2>4. Compared' BY <1>1 DEF CaptureBaseline, Compared
  <2>5. Known' /\ Warned' /\ Named' BY <1>1 DEF CaptureBaseline, Known, Warned, Named
  <2> QED BY <2>1, <2>2, <2>3, <2>4, <2>5
<1>2. CASE QueryMempool
  BY <1>2 DEF QueryMempool, TypeOK, MinedOnce, Fresh, Compared, Known, Warned, Named
<1>3. CASE Observe
  <2>1. TypeOK'
    <3>1. /\ boot' \in {"watching", "mining"}
          /\ trigger' \subseteq Tx /\ asked' \in BOOLEAN
      BY <1>3 DEF Observe, NewlyObserved, TypeOK
    <3> QED BY <1>3, <3>1 DEF Observe, TypeOK
  <2>2. MinedOnce' BY <1>3 DEF Observe, NewlyObserved, TypeOK, MinedOnce
  <2>3. Fresh' BY <1>3 DEF Observe, NewlyObserved, TypeOK, MinedOnce, Fresh
  <2>4. Compared' BY <1>3 DEF Observe, Compared
  <2>5. Known' /\ Warned' /\ Named' BY <1>3 DEF Observe, Known, Warned, Named
  <2> QED BY <2>1, <2>2, <2>3, <2>4, <2>5
<1>4. CASE Mine
  BY <1>4 DEF Mine, TypeOK, MinedOnce, Fresh, Compared, Known, Warned, Named
<1>5. CASE Correlate
  BY <1>5 DEF Correlate, Correlated, TypeOK, MinedOnce, Fresh, Compared, Known, Warned, Named
<1>6. CASE GiveUp
  BY <1>6 DEF GiveUp, Final, TypeOK, MinedOnce, Fresh, Compared, Known, Warned, Named
<1> QED BY <1>1, <1>2, <1>3, <1>4, <1>5, <1>6 DEF Bootstrap

LEMMA StutterStep == ASSUME OInv, UNCHANGED vars PROVE OInv'
BY DEF vars, OInv, TypeOK, MinedOnce, Fresh, Compared, Known, Warned, Named

LEMMA NextOInv == OInv /\ [Next]_vars => OInv'
BY InjectStep, LndStep, ClientStep, BootstrapStep, StutterStep DEF Next

LEMMA OInvAlways == Spec => []OInv
BY InitOInv, NextOInv, PTL DEF Spec

\* Every variable keeps its type (open_and_confirm_channel, open_channel_with).
THEOREM ChannelTypeCorrect == Spec => []TypeOK
<1>1. OInv => TypeOK BY DEF OInv
<1> QED BY <1>1, OInvAlways, PTL

\* A channel point is returned only of a confirmed transaction, mined for once
\* (open_and_confirm_channel).
THEOREM ReadyIsConfirmedAlways == Spec => []ReadyIsConfirmed
<1>1. OInv => ReadyIsConfirmed BY DEF OInv, MinedOnce, Compared, ReadyIsConfirmed
<1> QED BY <1>1, OInvAlways, PTL

\* The true channel is refused only after another transaction's intrusion
\* (open_and_confirm_channel).
THEOREM AlarmNeedsStrangerAlways == Spec => []AlarmNeedsStranger
<1>1. OInv => AlarmNeedsStranger
  BY DEF OInv, TypeOK, Tx, Fresh, Compared, AlarmNeedsStranger
<1> QED BY <1>1, OInvAlways, PTL

\* The point LND named is never replaced, and every channel or unknown outcome
\* after it carries it (open_channel_with).
THEOREM PendingPointIsKeptAlways == Spec => PendingPointIsKept
<1> DEFINE Kept == pending # NoTx =>
                     /\ pending' = pending
                     /\ (outcome' \in {"ok", "unknown"} => point' = pending)
<1>1. ASSUME OInv, OInv', [Next]_vars PROVE Kept
  <2> SUFFICES ASSUME pending # NoTx PROVE pending' = pending
    BY <1>1 DEF OInv, Named
  <2>1. CASE Consume
    BY <2>1 DEF Consume, PointChanged, CallEnds
  <2>2. CASE ~Consume
    BY <1>1, <2>2 DEF Next, Inject, Lnd, Accept, Refuse, LoseAnswer, Publish,
         NegotiationFails, SeesConfirmations, TransmitPending, TransmitOpened,
         TransmitStray, Transmit, CloseStream, BreakStream, Client, Dispatch,
         OpenStream, OpenFails, StreamEnds, StreamFails, CallTimesOut,
         Bootstrap, BootSteps, CaptureBaseline, QueryMempool, Observe, Mine,
         Correlate, GiveUp, vars, callVars
  <2> QED BY <2>1, <2>2
<1>2. Kept => [Kept]_vars OBVIOUS
<1> QED BY <1>1, <1>2, OInvAlways, PTL DEF Spec, PendingPointIsKept

\* A definite status leaves no channel behind (open_channel_with).
THEOREM StatusMeansNoChannelAlways == Spec => []StatusMeansNoChannel
<1>1. OInv => StatusMeansNoChannel BY DEF OInv, Known, StatusMeansNoChannel
<1> QED BY <1>1, OInvAlways, PTL
===============================================================================
