-------------------------- MODULE ReadinessPayments --------------------------
(***************************************************************************)
(* The two probe payments at the end of LndPair's startup                  *)
(* (lnd_pair/channel.rs): Alice pays one invoice of Bob's, then Bob pays   *)
(* an invoice of Alice's, with a fresh one for each retry.                 *)
(*                                                                         *)
(* The payments are the calls of module LndPayment; the probes are its     *)
(* caller.                                                                 *)
(***************************************************************************)
EXTENDS LndPayment

CONSTANT Forward     \* Bob's invoice

ASSUME ForwardAssumption == Forward \in Invoice

\* Bound: the invoices Alice can create before the deadline.
Reverse == Invoice \ {Forward}

VARIABLES
  receipt,   \* the receiver's invoice: none, open, accepted, settled, canceled
  probe      \* where the bootstrap is

probeVars == <<vars, receipt, probe>>

ProbeInit ==
  /\ Init
  /\ receipt = [i \in Invoice |-> "none"]
  /\ probe = "forward"

-------------------------------------------------------------------------------
(* The receivers.                                                          *)

\* The receiver takes the payment while it is in flight; the sender's own
\* record may say so earlier or later.
Receive(i) ==
  /\ receipt[i] \in {"open", "accepted"}
  /\ payment[i] \in {"inflight", "succeeded"}
  /\ \E to \in {"accepted", "settled"} : receipt' = [receipt EXCEPT ![i] = to]
  /\ UNCHANGED <<vars, probe>>

Expire(i) ==
  /\ receipt[i] = "open"
  /\ receipt' = [receipt EXCEPT ![i] = "canceled"]
  /\ UNCHANGED <<vars, probe>>

\* A payment whose invoice is settled does not fail, and one whose invoice
\* expired does not succeed.
LndMoves ==
  /\ Daemon
  /\ \A i \in Invoice :
       /\ receipt[i] = "settled" => payment'[i] # "failed"
       /\ receipt[i] = "canceled" => payment'[i] # "succeeded"
  /\ UNCHANGED <<receipt, probe>>

-------------------------------------------------------------------------------
(* The bootstrap.                                                          *)

\* wait_for_active_channel, before every reverse attempt.
ChannelActive ==
  /\ probe = "waiting"
  /\ probe' = "reverse"
  /\ UNCHANGED <<vars, receipt>>

\* create_readiness_invoice and the payment it is for.
Attempt(i) ==
  /\ receipt[i] = "none"
  /\ receipt' = [receipt EXCEPT ![i] = "open"]
  /\ pay_invoice(i)
  /\ \/ probe = "forward" /\ i = Forward /\ probe' = "payingForward"
     \/ probe = "reverse" /\ i \in Reverse /\ probe' = "payingReverse"

CallGoesOn ==
  /\ Client
  /\ phase' # "idle"
  /\ UNCHANGED <<receipt, probe>>

UncertainIsTransient(r, t) ==   \* mutant: a timeout is worth another try
  r = "unknown" \/ (r = "failed" /\ t.wire = "a")

\* is_transient_routing_failure: PaymentFailed with "no route" or "insufficient
\* balance" (wire "a"), among all the errors and failure reasons.
Transient(r, t) == r = "failed" /\ t.wire = "a"

AlwaysSettled == TRUE           \* mutant: the receiver is not asked

ReceiptSettled == receipt[invoice] = "settled"

\* prove_readiness_payment: no second try.
ForwardReturns ==
  /\ probe = "payingForward"
  /\ Client
  /\ phase' = "idle"
  /\ probe' = IF result' = "succeeded" THEN "settlingForward" ELSE "failed"
  /\ UNCHANGED receipt

\* prove_reverse_readiness_with_retry.
ReverseReturns ==
  /\ probe = "payingReverse"
  /\ Client
  /\ phase' = "idle"
  /\ probe' = CASE result' = "succeeded" -> "settlingReverse"
                [] Transient(result', terminal') -> "waiting"
                [] OTHER -> "failed"
  /\ UNCHANGED receipt

\* wait_for_settled_invoice.
Settled ==
  /\ ReceiptSettled
  /\ \/ probe = "settlingForward" /\ probe' = "waiting"
     \/ probe = "settlingReverse" /\ probe' = "ready"
  /\ UNCHANGED <<vars, receipt>>

\* Any other error, or the shared deadline, ends the bootstrap where it is; an
\* invoice may have been created all the same.
GiveUp ==
  /\ probe \notin {"ready", "failed"}
  /\ probe' = "failed"
  /\ \/ phase = "idle" /\ UNCHANGED vars
     \/ DropCall
  /\ \/ UNCHANGED receipt
     \/ /\ probe \in {"forward", "reverse"}
        /\ \E i \in IF probe = "forward" THEN {Forward} ELSE Reverse :
             /\ receipt[i] = "none"
             /\ receipt' = [receipt EXCEPT ![i] = "open"]

Done == probe \in {"ready", "failed"} /\ UNCHANGED probeVars

ProbeNext ==
  \/ \E i \in Invoice : Receive(i) \/ Expire(i) \/ Attempt(i)
  \/ LndMoves \/ ChannelActive \/ CallGoesOn
  \/ ForwardReturns \/ ReverseReturns \/ Settled \/ GiveUp \/ Done

ProbeSpec == ProbeInit /\ [][ProbeNext]_probeVars

-------------------------------------------------------------------------------
(* Properties.                                                             *)

\* Every variable has its type (bootstrap_ready_channel).
ProbeTypeOK ==
  /\ TypeOK
  /\ receipt \in [Invoice -> {"none", "open", "accepted", "settled", "canceled"}]
  /\ probe \in {"forward", "payingForward", "settlingForward", "waiting",
                "reverse", "payingReverse", "settlingReverse", "ready", "failed"}

Moves(i) == payment[i] \in {"inflight", "succeeded"}

\* However often the reverse probe is retried, and however it is cut short, at
\* most one of its payments can move money (prove_reverse_readiness_with_retry).
NeverPaidTwice == \A r, s \in Reverse : Moves(r) /\ Moves(s) => r = s

\* A startup that reports its channel ready has settled one payment in each
\* direction, on the sender's and on the receiver's books, and every other
\* attempt is dead (docs/explanation-fixture-readiness.md, the guarantee).
ReadyMeansPaidOnce ==
  probe = "ready" =>
    /\ payment[Forward] = "succeeded" /\ receipt[Forward] = "settled"
    /\ \E r \in Reverse : payment[r] = "succeeded" /\ receipt[r] = "settled"
    /\ \A r \in Reverse : payment[r] \notin {"inflight"}
===============================================================================
