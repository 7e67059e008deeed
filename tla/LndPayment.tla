------------------------------ MODULE LndPayment ------------------------------
(***************************************************************************)
(* pay_invoice and lookup_payment of the LND client (payment.rs,           *)
(* transport.rs): one call at a time against an LND daemon that keeps the  *)
(* payments, over a connection that loses requests, answers and updates.   *)
(*                                                                         *)
(* The caller is anybody: it pays and looks up what it likes, in any       *)
(* order, and may drop a call's future at any await.                       *)
(***************************************************************************)
EXTENDS Naturals, Sequences

CONSTANTS
  Invoice,     \* BOLT11 invoices with an amount, by payment hash
  MaxUpdates   \* bound: updates in transit in one payment stream

ASSUME MaxUpdatesAssumption == MaxUpdates \in Nat

\* An update on the wire. Two terminal updates with the same state may still
\* differ, in preimage, fee or failure reason; "initiated" is a state the client
\* does not know, "foreign" does not convert or has another hash or amount.
Update == [state : {"succeeded", "failed"}, wire : {"a", "b"}]
            \union [state : {"inflight", "initiated", "foreign"}, wire : {"a"}]

Terminal(u) == u.state \in {"succeeded", "failed"}

None == [state |-> "none", wire |-> "a"]

VARIABLES
  payment,   \* the daemon: what became of each invoice's payment
  request,   \* the call's request is on its way to the daemon
  accepted,  \* the daemon put the payment in flight for this call
  answer,    \* response head on its way back
  stream,    \* updates on their way back
  line,      \* the response stream: open, ended by LND, or broken
  truthful,  \* the daemon has sent its terminal state on this stream
  phase,     \* where the call is: idle, opening, streaming
  expired,   \* its timer has run out
  op,        \* pay or lookup
  invoice,   \* the one of the last call
  terminal,  \* the first terminal update the call consumed, or None
  seen,      \* every update the call consumed
  result     \* what the last call returned

daemonVars == <<payment, request, accepted, answer, stream, line, truthful>>
callVars   == <<phase, expired, op, invoice, terminal, seen, result>>
vars == <<payment, request, accepted, answer, stream, line, truthful, phase, expired,
          op, invoice, terminal, seen, result>>

Init ==
  /\ payment = [i \in Invoice |-> "none"]
  /\ request = FALSE
  /\ accepted = FALSE
  /\ answer = "none"
  /\ stream = <<>>
  /\ line = "open"
  /\ truthful = FALSE
  /\ phase = "idle"
  /\ expired = FALSE
  /\ op = "lookup"
  /\ invoice \in Invoice
  /\ terminal = None
  /\ seen = {}
  /\ result = "none"

-------------------------------------------------------------------------------
(* The daemon and the connection.                                          *)

\* LND takes an invoice it never tried, or whose payment failed.
AcceptPay ==
  /\ request /\ op = "pay"
  /\ payment[invoice] \in {"none", "failed"}
  /\ payment' = [payment EXCEPT ![invoice] = "inflight"]
  /\ accepted' = TRUE
  /\ answer' = "stream"
  /\ request' = FALSE
  /\ UNCHANGED <<stream, line, truthful, callVars>>

AcceptLookup ==
  /\ request /\ op = "lookup"
  /\ payment[invoice] # "none"
  /\ answer' = "stream"
  /\ request' = FALSE
  /\ UNCHANGED <<payment, accepted, stream, line, truthful, callVars>>

\* The request is refused (authentication, validation, already paid), or lost.
Refuse ==
  /\ request
  /\ request' = FALSE
  /\ answer' \in {"definite", "ambiguous"}
  /\ UNCHANGED <<payment, accepted, stream, line, truthful, callVars>>

\* The request was taken, and the client sees a broken transport or one of the
\* codes Cancelled, Unknown, DeadlineExceeded, ResourceExhausted, Internal,
\* Unavailable instead of the response head.
LoseAnswer ==
  /\ answer = "stream" /\ phase = "opening"
  /\ answer' = "ambiguous"
  /\ UNCHANGED <<payment, request, accepted, stream, line, truthful, callVars>>

Settle ==
  /\ \E i \in Invoice, to \in {"succeeded", "failed"} :
       /\ payment[i] = "inflight"
       /\ payment' = [payment EXCEPT ![i] = to]
  /\ UNCHANGED <<request, accepted, answer, stream, line, truthful, callVars>>

Transmit(u) ==
  /\ answer = "stream" /\ line = "open"
  /\ Len(stream) < MaxUpdates
  /\ stream' = Append(stream, u)
  /\ UNCHANGED <<payment, request, accepted, answer, line, callVars>>

\* lookup_payment asks for no in-flight updates.
TransmitState ==
  /\ op = "pay" \/ payment[invoice] # "inflight"
  /\ \E u \in Update :
       /\ \/ u.state = payment[invoice]
          \/ u.state = "initiated" /\ payment[invoice] = "inflight"
       /\ Transmit(u)
  /\ truthful' = (truthful \/ payment[invoice] # "inflight")

\* An update that is not the state of this payment; the first terminal update
\* with its hash is true, whatever follows it.
TransmitStray ==
  /\ \E u \in Update : (u.state = "foreign" \/ truthful) /\ Transmit(u)
  /\ UNCHANGED truthful

EndStream ==
  /\ answer = "stream" /\ line = "open"
  /\ line' = "ended"
  /\ UNCHANGED <<payment, request, accepted, answer, stream, truthful, callVars>>

\* A broken connection loses the updates in transit from some point on.
BreakStream ==
  /\ answer = "stream" /\ line = "open"
  /\ line' = "broken"
  /\ \E n \in 0..Len(stream) : stream' = SubSeq(stream, 1, n)
  /\ UNCHANGED <<payment, request, accepted, answer, truthful, callVars>>

-------------------------------------------------------------------------------
(* The call.                                                               *)

\* A request of an earlier call that has not arrived by now never does: the
\* client has one connection.
Call(o, i) ==
  /\ phase = "idle"
  /\ phase' = "opening"
  /\ expired' = FALSE
  /\ op' = o
  /\ invoice' = i
  /\ terminal' = None
  /\ seen' = {}
  /\ result' = "none"
  /\ request' = TRUE
  /\ accepted' = FALSE
  /\ answer' = "none"
  /\ stream' = <<>>
  /\ line' = "open"
  /\ truthful' = FALSE
  /\ UNCHANGED payment

pay_invoice(i) == Call("pay", i)

lookup_payment(i) == Call("lookup", i)

Return(r) ==
  /\ phase' = "idle"
  /\ expired' = FALSE
  /\ result' = r
  /\ UNCHANGED <<daemonVars, op, invoice, terminal>>

\* bounded_mutating_request_until and bounded_request_until.
EveryStatusIsDefinite == {"definite", "ambiguous"}   \* mutant: no classifier

DefiniteAnswers == IF op = "pay" THEN {"definite"} ELSE {"definite", "ambiguous"}

OpenStream ==
  /\ phase = "opening" /\ answer = "stream"
  /\ phase' = "streaming"
  /\ UNCHANGED <<daemonVars, expired, op, invoice, terminal, seen, result>>

OpenFails ==
  /\ phase = "opening" /\ answer \in {"definite", "ambiguous"}
  /\ Return(IF answer \in DefiniteAnswers THEN "status" ELSE "unknown")
  /\ UNCHANGED seen

\* operation_deadline: one instant for the whole call, which tokio's timer meets.
DeadlinePasses ==
  /\ phase # "idle" /\ ~expired
  /\ expired' = TRUE
  /\ UNCHANGED <<daemonVars, phase, op, invoice, terminal, seen, result>>

\* The deadline passes before the response head is here; a lookup maps that to
\* the unknown outcome, too.
OpenTimesOut ==
  /\ phase = "opening" /\ expired
  /\ Return("unknown")
  /\ UNCHANGED seen

\* The stream contradicts its own terminal update or goes back behind it.
Contradicts(u) == terminal # None /\ u # terminal

Rearmed == FALSE                \* mutant: each message has its own timeout

AfterMessage == expired

\* One update of consume_payment_stream. timeout_at polls the message before the
\* timer, so that an update that has arrived is taken although the time is over.
Consume ==
  /\ phase = "streaming" /\ stream # <<>>
  /\ LET u == Head(stream)
     IN /\ seen' = seen \union {u}
        /\ IF u.state = "foreign" \/ Contradicts(u)
           THEN /\ phase' = "idle"
                /\ expired' = FALSE
                /\ result' = "invalid"
                /\ UNCHANGED terminal
           ELSE /\ expired' = AfterMessage
                /\ terminal' = IF terminal = None /\ Terminal(u) THEN u ELSE terminal
                /\ UNCHANGED <<phase, result>>
  /\ stream' = Tail(stream)
  /\ UNCHANGED <<payment, request, accepted, answer, line, truthful, op, invoice>>

StreamEnds ==
  /\ phase = "streaming" /\ stream = <<>> /\ line = "ended"
  /\ Return(IF terminal # None THEN terminal.state ELSE "invalid")
  /\ UNCHANGED seen

BrokenMeansFailed == "failed"   \* mutant: an error is taken for a failure

AlwaysUnknown == "unknown"      \* mutant: a late error hides a known end

\* A known terminal state outlives the stream's error, anything else is unknown.
AfterError == IF terminal # None THEN terminal.state ELSE "unknown"

StreamBreaks ==
  /\ phase = "streaming" /\ stream = <<>> /\ line = "broken"
  /\ Return(AfterError)
  /\ UNCHANGED seen

StreamTimesOut ==
  /\ phase = "streaming" /\ expired
  /\ Return(AfterError)
  /\ UNCHANGED seen

\* The caller drops the future; nothing is undone.
DropCall ==
  /\ phase # "idle"
  /\ Return("none")
  /\ UNCHANGED seen

-------------------------------------------------------------------------------
Daemon ==
  \/ AcceptPay \/ AcceptLookup \/ Refuse \/ LoseAnswer \/ Settle
  \/ TransmitState \/ TransmitStray \/ EndStream \/ BreakStream

Deadlines == OpenTimesOut \/ StreamTimesOut

Client ==
  \/ OpenStream \/ OpenFails \/ Consume \/ StreamEnds \/ StreamBreaks
  \/ DeadlinePasses \/ Deadlines

Caller == DropCall \/ \E i \in Invoice : pay_invoice(i) \/ lookup_payment(i)

Next == Daemon \/ Client \/ Caller

Spec == Init /\ [][Next]_vars

\* The time passes, and a timer that stays over is served: nothing is assumed of
\* LND, which may send updates for ever.
TimedSpec == Spec /\ WF_vars(DeadlinePasses) /\ WF_vars(Deadlines)

-------------------------------------------------------------------------------
(* Properties.                                                             *)

\* Every variable has its type (pay_invoice_with, consume_payment_stream).
TypeOK ==
  /\ payment \in [Invoice -> {"none", "inflight", "succeeded", "failed"}]
  /\ request \in BOOLEAN
  /\ accepted \in BOOLEAN
  /\ answer \in {"none", "stream", "definite", "ambiguous"}
  /\ stream \in Seq(Update)
  /\ Len(stream) <= MaxUpdates
  /\ line \in {"open", "ended", "broken"}
  /\ truthful \in BOOLEAN
  /\ phase \in {"idle", "opening", "streaming"}
  /\ expired \in BOOLEAN
  /\ op \in {"pay", "lookup"}
  /\ invoice \in Invoice
  /\ terminal \in Update \union {None}
  /\ seen \subseteq Update
  /\ result \in {"none", "succeeded", "failed", "status", "invalid", "unknown"}

\* A payment that is reported succeeded has settled, and one that is reported
\* failed can no longer settle, however the stream broke, repeated itself or
\* ended: a caller may act on PaymentFailed (docs/reference-errors.md).
ReportsAreTrue ==
  result \in {"succeeded", "failed"} => payment[invoice] = result

\* pay_invoice returns a gRPC status only when LND did not take the payment,
\* and never will; all else is OutcomeUnknown (mutating_status_is_ambiguous).
StatusMeansNotPaid ==
  (op = "pay" /\ result = "status") => ~accepted /\ ~request

\* The result agrees with every terminal update of the stream: OutcomeUnknown is
\* not returned once one was read, so that no caller is sent to look up what
\* this call knew, and a terminal result rests on one that nothing in the stream
\* contradicted (consume_payment_stream).
TerminalIsKept ==
  /\ result = "unknown" => \A u \in seen : ~Terminal(u)
  /\ result \in {"succeeded", "failed"} =>
       \A u, v \in seen : (Terminal(u) /\ Terminal(v)) => u = v

\* Every call returns by its deadline, whatever LND does: also when it keeps the
\* payment in flight and sends one update after the other (consume_payment_stream,
\* request_and_stream_share_one_absolute_deadline).
EveryCallReturns == phase # "idle" ~> phase = "idle"
===============================================================================
