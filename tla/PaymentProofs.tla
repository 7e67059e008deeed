----------------------------- MODULE PaymentProofs -----------------------------
(***************************************************************************)
(* What pay_invoice and lookup_payment report is so, for every set of      *)
(* invoices and every number of updates in transit (LndPayment). The probe *)
(* payments are one caller of these calls and inherit it; on top of it, no *)
(* retry of the reverse probe ever pays twice (ReadinessPayments).         *)
(***************************************************************************)
EXTENDS ReadinessPayments, TLAPS

\* A request that has not arrived: nothing came of this call yet.
Pending ==
  request => /\ ~accepted
             /\ ~truthful
             /\ answer = "none"
             /\ phase # "streaming"
             /\ result \in {"none", "unknown"}

HasEnd(s) == \E n \in DOMAIN s : Terminal(s[n])

FirstEnd(s, state) ==
  \A n \in DOMAIN s :
    Terminal(s[n]) /\ (\A m \in 1..(n - 1) : ~Terminal(s[m])) => s[n].state = state

\* The first terminal update on its way, and the one consumed, is LND's state,
\* and LND does not change it without another request.
Truth ==
  /\ truthful => Terminal([state |-> payment[invoice], wire |-> "a"])
  /\ terminal # None => truthful /\ Terminal(terminal) /\ terminal.state = payment[invoice]
  /\ HasEnd(stream) => truthful
  /\ terminal = None =>
       /\ truthful /\ line = "open" => HasEnd(stream)
       /\ FirstEnd(stream, payment[invoice])

\* What the call has read, and what it made of it.
Read ==
  /\ phase = "opening" => terminal = None /\ seen = {}
  /\ phase # "idle" => result = "none"
  /\ phase # "idle" \/ result \in {"succeeded", "failed", "unknown"}
       => \A u \in seen : Terminal(u) => u = terminal

\* The outcomes, once the call is over.
Verdict ==
  /\ result \in {"succeeded", "failed"} => terminal # None /\ result = terminal.state
  /\ result = "unknown" => terminal = None
  /\ op = "pay" /\ (answer = "definite" \/ result = "status") => ~accepted /\ ~request

PInv == TypeOK /\ Pending /\ Truth /\ Read /\ Verdict

LEMMA UpdateFields == \A u \in Update : u.state # "none" /\ u # None
BY DEF Update, None

-------------------------------------------------------------------------------
(* The stream, as a sequence: appending, cutting short, taking the first.  *)

LEMMA Emptied ==
  /\ <<>> \in Seq(Update) /\ Len(<<>>) = 0
  /\ ~HasEnd(<<>>)
BY DEF HasEnd

LEMMA EndlessIsTrue == ASSUME NEW s, NEW state, ~HasEnd(s) PROVE FirstEnd(s, state)
BY DEF HasEnd, FirstEnd

LEMMA Appended ==
  ASSUME NEW s \in Seq(Update), NEW u \in Update, NEW state
  PROVE  /\ Append(s, u) \in Seq(Update)
         /\ Len(Append(s, u)) = Len(s) + 1
         /\ HasEnd(Append(s, u)) <=> HasEnd(s) \/ Terminal(u)
         /\ FirstEnd(s, state) /\ (HasEnd(s) \/ (Terminal(u) => u.state = state))
              => FirstEnd(Append(s, u), state)
<1>1. /\ Append(s, u) \in Seq(Update) /\ Len(s) \in Nat
      /\ DOMAIN s = 1..Len(s)
      /\ DOMAIN Append(s, u) = 1..(Len(s) + 1)
      /\ Len(Append(s, u)) = Len(s) + 1
      /\ \A n \in 1..Len(s) : Append(s, u)[n] = s[n]
      /\ Append(s, u)[Len(s) + 1] = u
  OBVIOUS
<1>2. HasEnd(Append(s, u)) <=> HasEnd(s) \/ Terminal(u)
  BY <1>1 DEF HasEnd
<1>3. ASSUME FirstEnd(s, state), HasEnd(s) \/ (Terminal(u) => u.state = state)
      PROVE  FirstEnd(Append(s, u), state)
  BY <1>1, <1>3 DEF FirstEnd, HasEnd
<1> QED BY <1>1, <1>2, <1>3

LEMMA CutShort ==
  ASSUME NEW s \in Seq(Update), NEW n \in 0..Len(s), NEW state
  PROVE  /\ SubSeq(s, 1, n) \in Seq(Update)
         /\ Len(SubSeq(s, 1, n)) = n
         /\ HasEnd(SubSeq(s, 1, n)) => HasEnd(s)
         /\ FirstEnd(s, state) => FirstEnd(SubSeq(s, 1, n), state)
<1>1. /\ SubSeq(s, 1, n) \in Seq(Update)
      /\ Len(SubSeq(s, 1, n)) = n
      /\ DOMAIN SubSeq(s, 1, n) = 1..n /\ DOMAIN s = 1..Len(s)
      /\ n <= Len(s) /\ Len(s) \in Nat /\ n \in Nat
      /\ \A m \in 1..n : SubSeq(s, 1, n)[m] = s[m]
  OBVIOUS
<1> QED BY <1>1 DEF HasEnd, FirstEnd

LEMMA TakenFirst ==
  ASSUME NEW s \in Seq(Update), s # <<>>, NEW state
  PROVE  /\ Head(s) \in Update
         /\ Tail(s) \in Seq(Update)
         /\ Len(Tail(s)) < Len(s)
         /\ HasEnd(Tail(s)) => HasEnd(s)
         /\ Terminal(Head(s)) => HasEnd(s) /\ (FirstEnd(s, state) => Head(s).state = state)
         /\ ~Terminal(Head(s)) => /\ HasEnd(s) => HasEnd(Tail(s))
                                  /\ FirstEnd(s, state) => FirstEnd(Tail(s), state)
<1>1. /\ Head(s) \in Update /\ Head(s) = s[1]
      /\ Tail(s) \in Seq(Update)
      /\ Len(Tail(s)) = Len(s) - 1
      /\ Len(s) \in Nat /\ Len(s) > 0
      /\ DOMAIN Tail(s) = 1..(Len(s) - 1)
      /\ DOMAIN s = 1..Len(s)
      /\ \A m \in 1..(Len(s) - 1) : Tail(s)[m] = s[m + 1]
  OBVIOUS
<1>2. HasEnd(Tail(s)) => HasEnd(s)
  BY <1>1 DEF HasEnd
<1>3. Terminal(Head(s)) => HasEnd(s) /\ (FirstEnd(s, state) => Head(s).state = state)
  BY <1>1 DEF HasEnd, FirstEnd
<1>4. ASSUME ~Terminal(Head(s)), HasEnd(s) PROVE HasEnd(Tail(s))
  <2>1. PICK n \in 1..Len(s) : Terminal(s[n]) BY <1>1, <1>4 DEF HasEnd
  <2>2. n # 1 BY <1>1, <1>4, <2>1
  <2>3. n - 1 \in 1..(Len(s) - 1) /\ Tail(s)[n - 1] = s[n] BY <1>1, <2>2
  <2> QED BY <1>1, <2>1, <2>3 DEF HasEnd
<1>5. ASSUME ~Terminal(Head(s)), FirstEnd(s, state) PROVE FirstEnd(Tail(s), state)
  <2> SUFFICES ASSUME NEW n \in 1..(Len(s) - 1), Terminal(Tail(s)[n]),
                      \A m \in 1..(n - 1) : ~Terminal(Tail(s)[m])
               PROVE  Tail(s)[n].state = state
    BY <1>1 DEF FirstEnd
  <2>1. n + 1 \in 1..Len(s) /\ Tail(s)[n] = s[n + 1] BY <1>1
  <2>2. ASSUME NEW m \in 1..((n + 1) - 1) PROVE ~Terminal(s[m])
    <3>1. CASE m = 1 BY <3>1, <1>1, <1>5
    <3>2. CASE m # 1
      <4>1. m - 1 \in 1..(n - 1) /\ Tail(s)[m - 1] = s[m] BY <1>1, <3>2
      <4> QED BY <4>1
    <3> QED BY <3>1, <3>2
  <2> QED BY <1>1, <1>5, <2>1, <2>2 DEF FirstEnd
<1> QED BY <1>1, <1>2, <1>3, <1>4, <1>5

-------------------------------------------------------------------------------
LEMMA InitPInv == Init => PInv
<1> SUFFICES ASSUME Init PROVE PInv OBVIOUS
<1>1. TypeOK
  <2>1. stream \in Seq(Update) /\ Len(stream) = 0 /\ 0 <= MaxUpdates
    BY MaxUpdatesAssumption, Emptied DEF Init
  <2> QED BY <2>1 DEF Init, TypeOK
<1>2. Truth BY Emptied, EndlessIsTrue DEF Init, Truth
<1> QED BY <1>1, <1>2 DEF Init, PInv, Pending, Read, Verdict

LEMMA DaemonStep == ASSUME PInv, Daemon PROVE PInv'
<1> USE MaxUpdatesAssumption DEF PInv
<1>1. CASE AcceptPay
  <2>1. TypeOK' BY <1>1 DEF AcceptPay, TypeOK, callVars
  <2>2. ~truthful /\ ~HasEnd(stream) /\ terminal = None
    BY <1>1 DEF AcceptPay, Pending, Truth
  <2>3. Truth'
    BY <1>1, <2>2, EndlessIsTrue DEF AcceptPay, Truth, callVars
  <2> QED BY <1>1, <2>1, <2>3 DEF AcceptPay, Pending, Read, Verdict, callVars
<1>2. CASE AcceptLookup
  BY <1>2 DEF AcceptLookup, TypeOK, Pending, Truth, Read, Verdict, Terminal, callVars
<1>3. CASE Refuse
  BY <1>3 DEF Refuse, TypeOK, Pending, Truth, Read, Verdict, Terminal, callVars
<1>4. CASE LoseAnswer
  BY <1>4 DEF LoseAnswer, TypeOK, Pending, Truth, Read, Verdict, Terminal, callVars
<1>5. CASE Settle
  <2>1. PICK i \in Invoice, to \in {"succeeded", "failed"} :
          payment[i] = "inflight" /\ payment' = [payment EXCEPT ![i] = to]
    BY <1>5 DEF Settle
  <2>2. UNCHANGED <<request, accepted, answer, stream, line, truthful, callVars>>
    BY <1>5 DEF Settle
  <2>3. TypeOK' BY <2>1, <2>2 DEF TypeOK, callVars
  <2>4. Truth'
    <3>1. CASE i = invoice
      <4>1. ~truthful /\ ~HasEnd(stream) /\ terminal = None
        BY <2>1, <3>1 DEF Truth, Terminal
      <4> QED BY <2>2, <4>1, EndlessIsTrue DEF Truth, callVars
    <3>2. CASE i # invoice
      <4>1. payment'[invoice] = payment[invoice]
        BY <2>1, <3>2 DEF TypeOK
      <4> QED BY <2>2, <4>1 DEF Truth, callVars
    <3> QED BY <3>1, <3>2
  <2> QED BY <2>2, <2>3, <2>4 DEF Pending, Read, Verdict, callVars
<1>6. CASE EndStream
  BY <1>6 DEF EndStream, TypeOK, Pending, Truth, Read, Verdict, Terminal, callVars
<1>7. CASE BreakStream
  <2>1. PICK n \in 0..Len(stream) : stream' = SubSeq(stream, 1, n)
    BY <1>7 DEF BreakStream
  <2>2. TypeOK'
    BY <1>7, <2>1, CutShort DEF BreakStream, TypeOK, callVars
  <2>3. Truth'
    BY <1>7, <2>1, CutShort DEF BreakStream, TypeOK, Truth, callVars
  <2> QED BY <1>7, <2>2, <2>3 DEF BreakStream, Pending, Read, Verdict, callVars
<1>8. CASE TransmitState
  <2>1. PICK u \in Update :
          /\ \/ u.state = payment[invoice]
             \/ u.state = "initiated" /\ payment[invoice] = "inflight"
          /\ Transmit(u)
    BY <1>8 DEF TransmitState
  <2>2. /\ truthful' = (truthful \/ payment[invoice] # "inflight")
        /\ stream' = Append(stream, u)
        /\ UNCHANGED <<payment, request, accepted, answer, line, callVars>>
        /\ answer = "stream" /\ line = "open" /\ Len(stream) < MaxUpdates
    BY <1>8, <2>1 DEF TransmitState, Transmit
  <2>3. TypeOK' BY <2>1, <2>2 DEF TypeOK, callVars
  <2>4. Truth'
    <3>1. HasEnd(stream') <=> HasEnd(stream) \/ Terminal(u)
      BY <2>2, Appended DEF TypeOK
    <3>2. FirstEnd(stream, payment[invoice])
            /\ (HasEnd(stream) \/ (Terminal(u) => u.state = payment[invoice]))
          => FirstEnd(stream', payment[invoice])
      BY <2>2, Appended DEF TypeOK
    <3>3. /\ Terminal(u) => u.state = payment[invoice]
          /\ Terminal(u) <=> payment[invoice] \in {"succeeded", "failed"}
          /\ payment[invoice] # "none"
      BY <2>1, UpdateFields DEF Terminal, TypeOK
    <3>4. payment[invoice] # "inflight" => Terminal(u)
      BY <3>3 DEF TypeOK
    <3> QED BY <2>2, <3>1, <3>2, <3>3, <3>4 DEF Truth, Terminal, callVars
  <2> QED BY <2>2, <2>3, <2>4 DEF Pending, Read, Verdict, callVars
<1>9. CASE TransmitStray
  <2>1. PICK u \in Update : (u.state = "foreign" \/ truthful) /\ Transmit(u)
    BY <1>9 DEF TransmitStray
  <2>2. /\ stream' = Append(stream, u)
        /\ UNCHANGED <<payment, request, accepted, answer, line, truthful, callVars>>
        /\ answer = "stream" /\ line = "open" /\ Len(stream) < MaxUpdates
    BY <1>9, <2>1 DEF TransmitStray, Transmit
  <2>3. TypeOK' BY <2>1, <2>2 DEF TypeOK, callVars
  <2>4. Truth'
    <3>1. HasEnd(stream') <=> HasEnd(stream) \/ Terminal(u)
      BY <2>2, Appended DEF TypeOK
    <3>2. FirstEnd(stream, payment[invoice])
            /\ (HasEnd(stream) \/ (Terminal(u) => u.state = payment[invoice]))
          => FirstEnd(stream', payment[invoice])
      BY <2>2, Appended DEF TypeOK
    <3>3. Terminal(u) => truthful
      BY <2>1 DEF Terminal
    <3> QED BY <2>2, <3>1, <3>2, <3>3 DEF Truth, callVars
  <2> QED BY <2>2, <2>3, <2>4 DEF Pending, Read, Verdict, callVars
<1> QED BY <1>1, <1>2, <1>3, <1>4, <1>5, <1>6, <1>7, <1>8, <1>9 DEF Daemon

LEMMA ConsumeStep == ASSUME PInv, Consume PROVE PInv'
<1> USE MaxUpdatesAssumption DEF PInv
<1> DEFINE u == Head(stream)
<1>1. /\ stream \in Seq(Update) /\ stream # <<>> /\ phase = "streaming"
      /\ stream' = Tail(stream)
      /\ seen' = seen \union {u}
      /\ UNCHANGED <<payment, request, accepted, answer, line, truthful, op, invoice>>
  BY DEF Consume, TypeOK
<1>2. /\ u \in Update /\ Tail(stream) \in Seq(Update)
      /\ Len(Tail(stream)) < Len(stream)
      /\ HasEnd(Tail(stream)) => HasEnd(stream)
      /\ Terminal(u) => /\ HasEnd(stream)
                        /\ FirstEnd(stream, payment[invoice]) => u.state = payment[invoice]
      /\ ~Terminal(u) => /\ HasEnd(stream) => HasEnd(Tail(stream))
                         /\ FirstEnd(stream, payment[invoice])
                              => FirstEnd(Tail(stream), payment[invoice])
  BY <1>1, TakenFirst
<1> HIDE DEF u
<1>3. CASE u.state = "foreign" \/ Contradicts(u)
  <2>1. phase' = "idle" /\ expired' \in BOOLEAN /\ result' = "invalid" /\ UNCHANGED terminal
    BY <1>3 DEF Consume, u
  <2>2. TypeOK' BY <1>1, <1>2, <2>1 DEF TypeOK
  <2>3. terminal = None => ~Terminal(u)
    BY <1>3 DEF Contradicts, Terminal
  <2>4. Truth' BY <1>1, <1>2, <2>1, <2>3 DEF Truth
  <2>5. Read' BY <1>1, <2>1 DEF Read
  <2> QED BY <1>1, <2>1, <2>2, <2>4, <2>5 DEF Pending, Verdict
<1>4. CASE ~(u.state = "foreign" \/ Contradicts(u))
  <2>1. /\ terminal' = IF terminal = None /\ Terminal(u) THEN u ELSE terminal
        /\ UNCHANGED <<phase, expired, result>>
    BY <1>4 DEF Consume, AfterMessage, u
  <2>2. TypeOK' BY <1>1, <1>2, <2>1 DEF TypeOK
  <2>3. Terminal(u) => u.state = payment[invoice] /\ truthful /\ terminal' = u
    BY <1>1, <1>2, <1>4, <2>1 DEF Truth, Contradicts
  <2>4. Truth'
    <3>1. CASE terminal = None /\ Terminal(u)
      <4>1. terminal' = u /\ u # None BY <1>2, <2>1, <3>1, UpdateFields
      <4> QED BY <1>1, <1>2, <2>3, <3>1, <4>1 DEF Truth
    <3>2. CASE ~(terminal = None /\ Terminal(u))
      BY <1>1, <1>2, <2>1, <3>2 DEF Truth
    <3> QED BY <3>1, <3>2
  <2>5. Read'
    <3>1. result' = "none" /\ phase' = "streaming"
      BY <1>1, <2>1 DEF Read
    <3>2. ASSUME NEW v \in seen', Terminal(v) PROVE v = terminal'
      <4>1. CASE v = u BY <2>3, <3>2, <4>1
      <4>2. CASE v \in seen /\ v # u
        BY <1>1, <2>1, <3>2, <4>2 DEF Read, Terminal, None
      <4> QED BY <1>1, <4>1, <4>2
    <3> QED BY <3>1, <3>2 DEF Read
  <2>6. Verdict' /\ Pending'
    BY <1>1, <2>1 DEF Verdict, Pending, Read
  <2> QED BY <2>2, <2>4, <2>5, <2>6
<1> QED BY <1>3, <1>4

LEMMA ReturnStep == ASSUME PInv, Client \/ DropCall, ~Consume, ~OpenStream PROVE PInv'
<1> USE MaxUpdatesAssumption, UpdateFields DEF PInv, Return, daemonVars
<1>1. CASE OpenFails
  BY <1>1 DEF OpenFails, DefiniteAnswers, TypeOK, Pending, Truth, Read, Verdict
<1>2. CASE OpenTimesOut
  BY <1>2 DEF OpenTimesOut, TypeOK, Pending, Truth, Read, Verdict
<1>3. CASE StreamEnds
  <2>1. CASE terminal = None
    BY <1>3, <2>1 DEF StreamEnds, TypeOK, Pending, Truth, Read, Verdict
  <2>2. CASE terminal # None
    BY <1>3, <2>2 DEF StreamEnds, TypeOK, Pending, Truth, Read, Verdict, Terminal
  <2> QED BY <2>1, <2>2
<1>4. CASE StreamBreaks
  BY <1>4 DEF StreamBreaks, AfterError, TypeOK, Pending, Truth, Read, Verdict, Terminal
<1>5. CASE StreamTimesOut
  BY <1>5 DEF StreamTimesOut, AfterError, TypeOK, Pending, Truth, Read, Verdict, Terminal
<1>6. CASE DropCall
  BY <1>6 DEF DropCall, TypeOK, Pending, Truth, Read, Verdict
<1>7. CASE DeadlinePasses
  BY <1>7 DEF DeadlinePasses, TypeOK, Pending, Truth, Read, Verdict
<1> QED BY <1>1, <1>2, <1>3, <1>4, <1>5, <1>6, <1>7 DEF Client, Deadlines

LEMMA CallStep ==
  ASSUME PInv, NEW o \in {"pay", "lookup"}, NEW i \in Invoice, Call(o, i)
  PROVE  PInv'
<1> USE DEF PInv, Call
<1>1. TypeOK'
  <2>1. stream' \in Seq(Update) /\ Len(stream') = 0 /\ 0 <= MaxUpdates
    BY MaxUpdatesAssumption, Emptied
  <2> QED BY <2>1 DEF TypeOK
<1>2. Truth' BY Emptied, EndlessIsTrue DEF Truth
<1> QED BY <1>1, <1>2 DEF Pending, Read, Verdict

LEMMA OpenStreamStep == ASSUME PInv, OpenStream PROVE PInv'
BY DEF PInv, OpenStream, daemonVars, TypeOK, Pending, Truth, Read, Verdict

LEMMA StutterStep == ASSUME PInv, UNCHANGED vars PROVE PInv'
BY DEF PInv, vars, TypeOK, Pending, Truth, Read, Verdict, Terminal

LEMMA NextPInv == ASSUME PInv, [Next]_vars PROVE PInv'
<1>1. CASE Daemon BY <1>1, DaemonStep
<1>2. CASE Client \/ DropCall BY <1>2, ConsumeStep, OpenStreamStep, ReturnStep
<1>3. ASSUME NEW i \in Invoice, pay_invoice(i) \/ lookup_payment(i) PROVE PInv'
  BY <1>3, CallStep DEF pay_invoice, lookup_payment
<1>4. CASE UNCHANGED vars BY <1>4, StutterStep
<1> QED BY <1>1, <1>2, <1>3, <1>4 DEF Next, Caller

LEMMA PInvAlways == Spec => []PInv
<1>1. Init => PInv BY InitPInv
<1>2. PInv /\ [Next]_vars => PInv' BY NextPInv
<1> QED BY <1>1, <1>2, PTL DEF Spec

\* What a caller may rely on in the state a report was made in.
LEMMA Reported ==
  ASSUME PInv, result \in {"succeeded", "failed"}
  PROVE  payment[invoice] = result /\ ~request
BY DEF PInv, Pending, Truth, Verdict

-------------------------------------------------------------------------------
\* Every variable of the payment calls keeps its type.
THEOREM PaymentTypeCorrect == Spec => []TypeOK
BY PInvAlways, PTL DEF PInv

\* A reported success or failure is LND's terminal state (consume_payment_stream).
THEOREM ReportsAreTrueAlways == Spec => []ReportsAreTrue
<1>1. PInv => ReportsAreTrue BY Reported DEF ReportsAreTrue
<1> QED BY <1>1, PInvAlways, PTL

\* A status error of pay_invoice means LND did not take the payment
\* (bounded_mutating_request_until).
THEOREM StatusMeansNotPaidAlways == Spec => []StatusMeansNotPaid
<1>1. PInv => StatusMeansNotPaid BY DEF PInv, Verdict, StatusMeansNotPaid
<1> QED BY <1>1, PInvAlways, PTL

\* The unknown outcome is never returned after a terminal update was read, and a
\* reported end rests on one terminal update (consume_payment_stream).
THEOREM TerminalIsKeptAlways == Spec => []TerminalIsKept
<1>1. ASSUME PInv, result = "unknown", NEW u \in seen PROVE ~Terminal(u)
  BY <1>1, UpdateFields DEF PInv, TypeOK, Read, Verdict
<1>2. PInv /\ result \in {"succeeded", "failed"} =>
        \A u, v \in seen : (Terminal(u) /\ Terminal(v)) => u = v
  BY DEF PInv, Read
<1>3. PInv => TerminalIsKept
  BY <1>1, <1>2 DEF TerminalIsKept
<1> QED BY <1>3, PInvAlways, PTL

-------------------------------------------------------------------------------
(* The probe payments.                                                     *)

\* Money is where the current invoice is, and nowhere else.
OthersDead ==
  \A r \in Reverse : r # invoice => payment[r] \in {"none", "failed"}

ForwardPaid == payment[Forward] = "succeeded" /\ receipt[Forward] = "settled"

\* What each stage of the bootstrap has behind it.
Stages ==
  /\ probe = "forward" => ~request /\ \A i \in Invoice : payment[i] = "none"
  /\ probe \in {"payingForward", "settlingForward"} => invoice = Forward
  /\ probe = "settlingForward" => payment[Forward] = "succeeded"
  /\ probe \in {"settlingForward", "waiting", "reverse"} =>
       ~request /\ (invoice = Forward \/ payment[invoice] = "failed")
  /\ probe \in {"waiting", "reverse", "payingReverse", "settlingReverse", "ready"}
       => ForwardPaid
  /\ probe \in {"payingReverse", "settlingReverse", "ready"} => invoice \in Reverse
  /\ probe \in {"settlingReverse", "ready"} => payment[invoice] = "succeeded"
  /\ probe = "ready" => receipt[invoice] = "settled"
  /\ probe \notin {"payingForward", "payingReverse"} => phase = "idle"

RInv ==
  /\ PInv
  /\ receipt \in [Invoice -> {"none", "open", "accepted", "settled", "canceled"}]
  /\ probe \in {"forward", "payingForward", "settlingForward", "waiting",
                "reverse", "payingReverse", "settlingReverse", "ready", "failed"}
  /\ OthersDead
  /\ Stages

\* Every step of the probes is a step of the payment calls, or none of theirs.
LEMMA StepIsPaymentStep == ASSUME [ProbeNext]_probeVars PROVE [Next]_vars
<1>1. CASE UNCHANGED probeVars BY <1>1 DEF probeVars
<1>2. ASSUME NEW i \in Invoice, Receive(i) \/ Expire(i) PROVE UNCHANGED vars
  BY <1>2 DEF Receive, Expire
<1>3. ASSUME NEW i \in Invoice, Attempt(i) PROVE Next
  BY <1>3 DEF Attempt, Next, Caller
<1>4. CASE LndMoves BY <1>4 DEF LndMoves, Next
<1>5. CASE CallGoesOn \/ ForwardReturns \/ ReverseReturns
  BY <1>5 DEF CallGoesOn, ForwardReturns, ReverseReturns, Next
<1>6. CASE ChannelActive \/ Settled
  BY <1>6 DEF ChannelActive, Settled
<1>7. CASE GiveUp
  BY <1>7 DEF GiveUp, Next, Caller
<1>8. CASE Done BY <1>8 DEF Done, probeVars
<1> QED BY <1>1, <1>2, <1>3, <1>4, <1>5, <1>6, <1>7, <1>8 DEF ProbeNext

\* The probes are one caller of pay_invoice (prove_readiness_payment,
\* prove_reverse_readiness_with_retry).
THEOREM UsesPayments == ProbeSpec => Spec
<1>1. ProbeInit => Init BY DEF ProbeInit
<1>2. [ProbeNext]_probeVars => [Next]_vars BY StepIsPaymentStep
<1> QED BY <1>1, <1>2, PTL DEF ProbeSpec, Spec

-------------------------------------------------------------------------------
(* What the three kinds of payment step leave alone.                       *)

LEMMA DaemonMoves ==
  ASSUME PInv, Daemon
  PROVE  /\ UNCHANGED <<phase, op, invoice, terminal, result>>
         /\ request' => request
         /\ \A i \in Invoice :
              \/ payment'[i] = payment[i]
              \/ payment[i] = "inflight" /\ payment'[i] \in {"succeeded", "failed"}
              \/ i = invoice /\ request /\ payment[i] # "succeeded"
<1> USE DEF callVars
<1>1. payment \in [Invoice -> {"none", "inflight", "succeeded", "failed"}]
  BY DEF PInv, TypeOK
<1>2. CASE AcceptPay BY <1>1, <1>2 DEF AcceptPay
<1>3. CASE Settle BY <1>1, <1>3 DEF Settle
<1>4. CASE AcceptLookup \/ Refuse \/ LoseAnswer \/ EndStream \/ BreakStream
  BY <1>4 DEF AcceptLookup, Refuse, LoseAnswer, EndStream, BreakStream
<1>5. CASE TransmitState \/ TransmitStray
  BY <1>5 DEF TransmitState, TransmitStray, Transmit
<1> QED BY <1>2, <1>3, <1>4, <1>5 DEF Daemon

LEMMA ClientMoves ==
  ASSUME Client \/ DropCall
  PROVE  UNCHANGED <<payment, request, op, invoice>> /\ phase # "idle"
BY DEF Client, OpenStream, OpenFails, Consume, StreamEnds,
       StreamBreaks, DeadlinePasses, Deadlines, OpenTimesOut, StreamTimesOut,
       DropCall, Return, daemonVars

LEMMA ReportedNext ==
  PInv' => (result' \in {"succeeded", "failed"} => payment'[invoice'] = result' /\ ~request')
BY DEF PInv, Pending, Truth, Verdict

-------------------------------------------------------------------------------
LEMMA InitRInv == ProbeInit => RInv
<1> SUFFICES ASSUME ProbeInit PROVE RInv OBVIOUS
<1>1. PInv
  BY InitPInv DEF ProbeInit
<1>2. payment = [i \in Invoice |-> "none"] /\ request = FALSE /\ phase = "idle"
  BY DEF ProbeInit, Init
<1> QED BY <1>1, <1>2, ForwardAssumption DEF ProbeInit, RInv, OthersDead, Stages, Reverse

LEMMA NextRInv == ASSUME RInv, [ProbeNext]_probeVars PROVE RInv'
<1> USE DEF RInv
<1>1. PInv'
  BY StepIsPaymentStep, NextPInv
<1>2. Forward \in Invoice /\ Reverse \subseteq Invoice /\ Forward \notin Reverse
  BY ForwardAssumption DEF Reverse
<1>3. CASE UNCHANGED probeVars
  BY <1>1, <1>3 DEF probeVars, vars, OthersDead, Stages, ForwardPaid
<1>4. ASSUME NEW i \in Invoice, Receive(i) \/ Expire(i) PROVE RInv'
  <2>1. /\ UNCHANGED vars /\ probe' = probe
        /\ receipt' \in [Invoice -> {"none", "open", "accepted", "settled", "canceled"}]
        /\ \A j \in Invoice : receipt[j] = "settled" => receipt'[j] = "settled"
    BY <1>4 DEF Receive, Expire
  <2>2. invoice \in Invoice BY DEF PInv, TypeOK
  <2> QED BY <1>1, <1>2, <2>1, <2>2 DEF vars, OthersDead, Stages, ForwardPaid
<1>5. ASSUME NEW i \in Invoice, Attempt(i) PROVE RInv'
  <2>1. /\ phase' = "opening" /\ invoice' = i /\ payment' = payment
        /\ receipt' = [receipt EXCEPT ![i] = "open"] /\ receipt[i] = "none"
        /\ \/ probe = "forward" /\ i = Forward /\ probe' = "payingForward"
           \/ probe = "reverse" /\ i \in Reverse /\ probe' = "payingReverse"
    BY <1>5 DEF Attempt, pay_invoice, Call
  <2>2. OthersDead' BY <1>2, <2>1 DEF OthersDead, Stages
  <2>3. Stages' BY <1>2, <2>1 DEF Stages, ForwardPaid
  <2> QED BY <1>1, <2>1, <2>2, <2>3
<1>6. CASE LndMoves
  <2>1. Daemon /\ UNCHANGED <<receipt, probe>> BY <1>6 DEF LndMoves
  <2>2. invoice \in Invoice BY DEF PInv, TypeOK
  <2> QED BY <1>1, <1>2, <2>1, <2>2, DaemonMoves DEF OthersDead, Stages, ForwardPaid
<1>7. CASE CallGoesOn
  BY <1>1, <1>7, ClientMoves DEF CallGoesOn, OthersDead, Stages, ForwardPaid
<1>8. CASE ForwardReturns
  <2>1. result' = "succeeded" => payment'[invoice'] = "succeeded" /\ ~request'
    BY <1>1, ReportedNext
  <2> QED BY <1>1, <1>8, <2>1, ClientMoves DEF ForwardReturns, OthersDead, Stages, ForwardPaid
<1>9. CASE ReverseReturns
  <2>1. result' \in {"succeeded", "failed"} => payment'[invoice'] = result' /\ ~request'
    BY <1>1, ReportedNext
  <2> QED BY <1>1, <1>9, <2>1, ClientMoves
          DEF ReverseReturns, Transient, OthersDead, Stages, ForwardPaid
<1>10. CASE ChannelActive
  BY <1>1, <1>10 DEF ChannelActive, vars, OthersDead, Stages, ForwardPaid
<1>11. CASE Settled
  BY <1>1, <1>11 DEF Settled, ReceiptSettled, vars, OthersDead, Stages, ForwardPaid
<1>12. CASE GiveUp
  <2>1. probe' = "failed" /\ UNCHANGED <<payment, invoice>>
    BY <1>12, ClientMoves DEF GiveUp, vars
  <2>2. receipt' \in [Invoice -> {"none", "open", "accepted", "settled", "canceled"}]
    BY <1>2, <1>12 DEF GiveUp
  <2>3. phase' = "idle" BY <1>12 DEF GiveUp, vars, DropCall, Return
  <2> QED BY <1>1, <2>1, <2>2, <2>3 DEF OthersDead, Stages
<1>13. CASE Done
  BY <1>1, <1>13 DEF Done, probeVars, vars, OthersDead, Stages, ForwardPaid
<1> QED BY <1>3, <1>4, <1>5, <1>6, <1>7, <1>8, <1>9, <1>10, <1>11, <1>12, <1>13 DEF ProbeNext

LEMMA RInvAlways == ProbeSpec => []RInv
<1>1. ProbeInit => RInv BY InitRInv
<1>2. RInv /\ [ProbeNext]_probeVars => RInv' BY NextRInv
<1> QED BY <1>1, <1>2, PTL DEF ProbeSpec

\* At most one reverse payment can move money, for any number of retries, any
\* stream length and any way the calls end (is_transient_routing_failure).
THEOREM NeverPaidTwiceAlways == ProbeSpec => []NeverPaidTwice
<1>1. RInv => NeverPaidTwice
  BY DEF RInv, OthersDead, NeverPaidTwice, Moves
<1> QED BY <1>1, RInvAlways, PTL

\* A ready channel has one settled payment each way and no payment in flight
\* (bootstrap_ready_channel).
THEOREM ReadyMeansPaidOnceAlways == ProbeSpec => []ReadyMeansPaidOnce
<1>1. RInv => ReadyMeansPaidOnce
  BY DEF RInv, OthersDead, Stages, ForwardPaid, ReadyMeansPaidOnce
<1> QED BY <1>1, RInvAlways, PTL
===============================================================================
