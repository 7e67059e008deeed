------------------------------ MODULE ChainClient ------------------------------
(***************************************************************************)
(* The operations of NigiriClient and Peg that change a chain or wait for  *)
(* it (client.rs, liquid.rs, rpc.rs, peg.rs), used by several tasks over   *)
(* clones of one client: each is a sequence of node RPCs (node_rpc.rs,     *)
(* http.rs) or a loop of Esplora queries. A request may be refused, be     *)
(* executed without a usable answer, or be executed after the client gave  *)
(* it up. Nothing is retried but the queries of the two waits.             *)
(***************************************************************************)
EXTENDS PegOut

CONSTANTS
  Task,         \* tasks that use the client, each for one operation
  Jobs,         \* the operations a task may choose
  Watched,      \* the task whose transaction a task waits for
  Outputs       \* the transactions release_peg_out may be given

Commits == {"sendtoaddress", "sendrawtransaction", "sendasset", "sendtomainchain"}

\* faucet and broadcast_tx, with mine_committed_transaction.
Mine == <<"getnewaddress", "generatetoaddress">>

Program ==
  [faucet |-> <<"sendtoaddress">> \o Mine,
   broadcast_tx |-> <<"sendrawtransaction">> \o Mine,
   release_peg_out |-> <<"getrawtransaction", "sendtoaddress">> \o Mine,
   send_to_mainchain |-> <<"sendtomainchain">>,
   mint |-> <<"issueasset", "sendasset">>,
   faucet_asset |-> <<"sendasset">>,
   generate_to_address |-> <<"generatetoaddress">>,
   wait_for_confirmation |-> <<"status">>,
   wait_ready |-> <<"height">>]

Waits == {"wait_for_confirmation", "wait_ready"}
Mines == {"faucet", "broadcast_tx", "release_peg_out"}

ASSUME ClientAssumption ==
  /\ Jobs \in [Task -> SUBSET DOMAIN Program]
  /\ Watched \in [Task -> Task]
  /\ Outputs \subseteq Seq(Output)

VARIABLES
  tx,           \* a task's transaction at its node: none, mempool, confirmed
  issued,       \* the assets minted
  paid,         \* what the payments of releases pay
  indexed,      \* what Esplora knows of a task's transaction
  up,           \* Esplora and its indexer answer from now on
  op,           \* a task's operation
  step,         \* its call in the program
  request,      \* that call at the node: none, sent, executed, refused
  reply,        \* what node_rpc::call made of the answer
  known,        \* the identifiers the operation has read
  scan,         \* what decode_peg_out made of the transaction to release,
  due,          \* and what it asks this chain for (history)
  result        \* what the operation returned

nodeVars   == <<tx, issued, paid>>
esploraVars == <<indexed, up>>
clientVars == <<op, step, request, reply, known, scan, due, result>>
vars == <<nodeVars, esploraVars, clientVars>>

NoResult == [kind |-> "none", names |-> {}]

Init ==
  /\ tx = [t \in Task |-> "none"]
  /\ issued = {}
  /\ paid = [t \in Task |-> NoPayment]
  /\ indexed = [t \in Task |-> "unknown"]
  /\ up \in BOOLEAN
  /\ op = [t \in Task |-> "none"]
  /\ step = [t \in Task |-> 1]
  /\ request = [t \in Task |-> "none"]
  /\ reply = [t \in Task |-> "none"]
  /\ known = [t \in Task |-> {}]
  /\ scan = [t \in Task |-> Unread]
  /\ due = [t \in Task |-> {}]
  /\ result = [t \in Task |-> NoResult]

Running(t) == op[t] # "none" /\ result[t] = NoResult

Method(t) == Program[op[t]][step[t]]

-------------------------------------------------------------------------------
(* The nodes.                                                              *)

\* A block takes every transaction of the Bitcoin node's mempool.
Block ==
  tx' = [u \in Task |->
           IF tx[u] = "mempool" /\ op[u] \in Mines THEN "confirmed" ELSE tx[u]]

\* sendtoaddress pays what the release decoded.
Pays(t) ==
  paid' = IF op[t] = "release_peg_out"
          THEN [paid EXCEPT ![t] = scan[t].payment]
          ELSE paid

Execute(t) ==
  \/ Method(t) \in Commits /\ tx' = [tx EXCEPT ![t] = "mempool"] /\ Pays(t) /\ UNCHANGED issued
  \/ Method(t) = "issueasset" /\ issued' = issued \union {t} /\ UNCHANGED <<tx, paid>>
  \/ Method(t) = "generatetoaddress" /\ Block /\ UNCHANGED <<issued, paid>>
  \/ Method(t) \in {"getnewaddress", "getrawtransaction"} /\ UNCHANGED nodeVars

\* The client may have given the call up meanwhile.
NodeExecutes(t) ==
  /\ request[t] = "sent" /\ op[t] \notin Waits
  /\ Execute(t)
  /\ request' = [request EXCEPT ![t] = "executed"]
  /\ UNCHANGED <<esploraVars, op, step, reply, known, scan, due, result>>

NodeRefuses(t) ==
  /\ request[t] = "sent" /\ op[t] \notin Waits
  /\ request' = [request EXCEPT ![t] = "refused"]
  /\ UNCHANGED <<nodeVars, esploraVars, op, step, reply, known, scan, due, result>>

\* What comes back of an executed or a refused call: the node's envelope, or what
\* a proxy, a size limit or a node of another version makes of it.
Responses(outcome) ==
  {r \in [success : BOOLEAN, exceeded : BOOLEAN, envelope : BOOLEAN,
          result : {"null", "typed", "other"}, error : {"null", "payload", "other"}] :
     IF outcome = "executed" THEN r.result # "null" ELSE r.result = "null" /\ r.error # "null"}

-------------------------------------------------------------------------------
(* One call.                                                               *)

\* call_with_sensitive, from the response on.
Classified(r) ==
  CASE r.exceeded -> "InvalidResponse"
    [] ~r.exceeded /\ ~r.envelope -> IF r.success THEN "InvalidResponse" ELSE "HttpStatus"
    [] ~r.exceeded /\ r.envelope /\ r.error # "null" ->
         IF r.result # "null" \/ r.error = "other" THEN "InvalidResponse" ELSE "RpcFailed"
    [] OTHER -> IF ~r.success THEN "HttpStatus"
                ELSE IF r.result = "typed" THEN "ok" ELSE "InvalidResponse"

Begin(t) ==
  /\ op[t] = "none"
  /\ \E o \in Jobs[t] : op' = [op EXCEPT ![t] = o]
  /\ UNCHANGED <<nodeVars, esploraVars, step, request, reply, known, scan, due, result>>

Send(t) ==
  /\ Running(t) /\ request[t] = "none"
  /\ request' = [request EXCEPT ![t] = "sent"]
  /\ UNCHANGED <<nodeVars, esploraVars, op, step, reply, known, scan, due, result>>

\* parse_txid, and the typed result of issueasset, give the client its names.
Learns(t) ==
  CASE Method(t) \in Commits -> {"txid"}
    [] Method(t) = "issueasset" -> {"asset"}
    [] OTHER -> {}

AnswerArrives(t) ==
  /\ Running(t) /\ request[t] \in {"executed", "refused"} /\ reply[t] = "none"
  /\ \E r \in Responses(request[t]) : reply' = [reply EXCEPT ![t] = Classified(r)]
  /\ known' = IF reply'[t] = "ok" THEN [known EXCEPT ![t] = @ \union Learns(t)] ELSE known
  /\ \/ /\ Method(t) = "getrawtransaction" /\ reply'[t] = "ok"
        /\ \E vout \in Outputs : /\ scan' = [scan EXCEPT ![t] = decode_peg_out(vout)]
                                 /\ due' = [due EXCEPT ![t] = Due(vout)]
     \/ /\ ~(Method(t) = "getrawtransaction" /\ reply'[t] = "ok")
        /\ UNCHANGED <<scan, due>>
  /\ UNCHANGED <<nodeVars, esploraVars, op, step, request, result>>

\* HttpTransport or Timeout: before the response is read.
Gone(t) ==
  /\ Running(t) /\ request[t] # "none" /\ reply[t] = "none"
  /\ op[t] \notin Waits
  /\ reply' = [reply EXCEPT ![t] = "no response"]
  /\ UNCHANGED <<nodeVars, esploraVars, op, step, request, known, scan, due, result>>

-------------------------------------------------------------------------------
(* The operations.                                                         *)

Returns(t, kind, names) == result' = [result EXCEPT ![t] = [kind |-> kind, names |-> names]]

NextCall(t) ==
  /\ Running(t) /\ reply[t] = "ok"
  /\ step[t] < Len(Program[op[t]])
  /\ Method(t) = "getrawtransaction" => scan[t].found = "one"
  /\ step' = [step EXCEPT ![t] = @ + 1]
  /\ request' = [request EXCEPT ![t] = "none"]
  /\ reply' = [reply EXCEPT ![t] = "none"]
  /\ UNCHANGED <<nodeVars, esploraVars, op, known, scan, due, result>>

\* decode_peg_out fails.
NothingToRelease(t) ==
  /\ Running(t) /\ reply[t] = "ok" /\ Method(t) = "getrawtransaction"
  /\ scan[t].found # "one"
  /\ Returns(t, IF scan[t].found = "nothing"
                THEN "PegOutputNotFound" ELSE "PegOutputMalformed", {})
  /\ UNCHANGED <<nodeVars, esploraVars, op, step, request, reply, known, scan, due>>

Succeeds(t) ==
  /\ Running(t) /\ reply[t] = "ok" /\ step[t] = Len(Program[op[t]])
  /\ Returns(t, "ok", known[t])
  /\ UNCHANGED <<nodeVars, esploraVars, op, step, request, reply, known, scan, due>>

BareError(t) == [kind |-> reply[t], names |-> {}]   \* mutant: `?` without map_err

\* mine_committed_transaction's map_err, and mint's of its second call; every
\* other error is returned as it came.
Wrapped(t) ==
  CASE op[t] \in Mines /\ step[t] > Len(Program[op[t]]) - Len(Mine) ->
         [kind |-> "PostTransactionMiningFailed", names |-> known[t]]
    [] op[t] = "mint" /\ Method(t) = "sendasset" ->
         [kind |-> "AssetTransferFailed", names |-> known[t]]
    [] OTHER -> [kind |-> reply[t], names |-> {}]

Fails(t) ==
  /\ Running(t) /\ reply[t] \notin {"none", "ok"}
  /\ result' = [result EXCEPT ![t] = Wrapped(t)]
  /\ UNCHANGED <<nodeVars, esploraVars, op, step, request, reply, known, scan, due>>

-------------------------------------------------------------------------------
(* Esplora and the waits.                                                  *)

EsploraStarts ==
  /\ ~up
  /\ up' = TRUE
  /\ UNCHANGED <<nodeVars, indexed, clientVars>>

Indexes(t) ==
  /\ tx[t] # "none" /\ indexed[t] # tx[t]
  /\ indexed' = [indexed EXCEPT ![t] = tx[t]]
  /\ UNCHANGED <<nodeVars, up, clientVars>>

\* Esplora answers 404 to the status of a transaction it does not know.
Observed(t) ==
  (IF op[t] = "wait_ready" THEN {"height"}
   ELSE IF indexed[Watched[t]] = "unknown" THEN {"not found"} ELSE {indexed[Watched[t]]})
  \union (IF up THEN {} ELSE {"failure"})

AnyStatus == {"height", "confirmed", "mempool"}    \* mutant: any Ok ends the wait

\* Answers that end a wait well: wait_ready's, and a status with confirmed set.
Satisfying == {"height", "confirmed"}

OnlyMempoolTolerated == {"mempool"}      \* mutant: 404 ends the wait

\* Answers wait_for_confirmation looks again after.
Tolerated == {"mempool", "not found"}

AgainAfter(t) == IF op[t] = "wait_ready" THEN {"failure"} ELSE Tolerated

\* The answer of a round is handled where it is received; then the loop sleeps.
PollAnswered(t) ==
  /\ Running(t) /\ op[t] \in Waits /\ request[t] = "sent"
  /\ \E answer \in Observed(t) :
       IF answer \in AgainAfter(t) \ Satisfying
       THEN request' = [request EXCEPT ![t] = "none"] /\ UNCHANGED result
       ELSE /\ Returns(t, IF answer \in Satisfying THEN "ok" ELSE "HttpStatus", {})
            /\ UNCHANGED request
  /\ UNCHANGED <<nodeVars, esploraVars, op, step, reply, known, scan, due>>

\* within_deadline, around the queries and the pauses.
WaitTimesOut(t) ==
  /\ Running(t) /\ op[t] \in Waits
  /\ Returns(t, "deadline", {})
  /\ UNCHANGED <<nodeVars, esploraVars, op, step, request, reply, known, scan, due>>

-------------------------------------------------------------------------------
Terminated ==
  /\ \A t \in Task : result[t] # NoResult
  /\ UNCHANGED vars

Client(t) == Begin(t) \/ Send(t) \/ AnswerArrives(t) \/ Gone(t)

Continues(t) == NextCall(t) \/ NothingToRelease(t) \/ Succeeds(t) \/ Fails(t)

Node(t) == NodeExecutes(t) \/ NodeRefuses(t)

Next ==
  \/ \E t \in Task :
       Client(t) \/ Continues(t) \/ Node(t) \/ Indexes(t) \/ PollAnswered(t) \/ WaitTimesOut(t)
  \/ EsploraStarts
  \/ Terminated

\* The tasks are polled, reqwest's clock runs, and Esplora comes up and indexes;
\* no node has to answer and no wait's deadline has to come.
Fairness ==
  /\ \A t \in Task : /\ WF_vars(Send(t)) /\ WF_vars(Continues(t)) /\ WF_vars(Gone(t))
                     /\ WF_vars(Indexes(t)) /\ WF_vars(PollAnswered(t))
  /\ WF_vars(EsploraStarts)

Spec == Init /\ [][Next]_vars
FairSpec == Spec /\ Fairness

-------------------------------------------------------------------------------
(* Properties.                                                             *)

\* What the node holds of a task, or may still hold.
Committed(t) ==
  (IF tx[t] # "none" THEN {"txid"} ELSE {})
    \union (IF t \in issued THEN {"asset"} ELSE {})

MayCommit(t) ==
  op[t] # "none" /\ request[t] = "sent" /\ Method(t) \in Commits \union {"issueasset"}

\* An error that the caller may take for "nothing happened" (the node said no,
\* or there is no peg-out) leaves nothing of the operation at the node, now or
\* later, and one that names a transaction or an asset names all there is of it
\* (faucet, broadcast_tx, release_peg_out, mint); an asset's transfer is the
\* exception, whose own outcome is the error it wraps.
ErrorsTellTheTruth ==
  \A t \in Task :
    /\ result[t].kind \in {"RpcFailed", "PegOutputNotFound", "PegOutputMalformed"} =>
         Committed(t) = {} /\ ~MayCommit(t)
    /\ result[t].kind = "PostTransactionMiningFailed" =>
         result[t].names = {"txid"} /\ Committed(t) = {"txid"}
    /\ result[t].kind = "AssetTransferFailed" =>
         result[t].names = {"asset"} /\ "asset" \in Committed(t)

\* An operation that succeeds has done all of it: what faucet, broadcast_tx and
\* release_peg_out sent, and what wait_for_confirmation waited for, is in a
\* block, whoever mined it and however late Esplora sees it.
SuccessIsComplete ==
  \A t \in Task :
    result[t].kind = "ok" =>
      /\ op[t] \in Mines => tx[t] = "confirmed"
      /\ op[t] \in {"mint", "faucet_asset", "send_to_mainchain"} => tx[t] # "none"
      /\ op[t] = "mint" => t \in issued
      /\ op[t] = "wait_for_confirmation" => tx[Watched[t]] = "confirmed"

\* release_peg_out pays exactly when one output asks this chain for a payment
\* and can be paid: that payment and no other, and a success means it was made.
ReleasePaysTheBurn ==
  \A t \in Task :
    /\ paid[t] # NoPayment => due[t] = {paid[t]}
    /\ op[t] = "release_peg_out" /\ result[t].kind = "ok" => paid[t] # NoPayment
    /\ result[t].kind \in {"PegOutputNotFound", "PegOutputMalformed"} => due[t] = {}

\* Once Esplora answers, a wait for a transaction that is in a block, known to
\* Esplora yet or not, and a wait for Esplora itself end with success or at the
\* wait's deadline, and every sequence of RPCs returns although no node answers.
WaitsEnd ==
  \A t \in Task :
    /\ (Running(t) /\ op[t] = "wait_for_confirmation" /\ up /\ tx[Watched[t]] = "confirmed")
         ~> result[t].kind \in {"ok", "deadline"}
    /\ op[t] = "wait_ready" ~> result[t].kind \in {"ok", "deadline"}
    /\ op[t] \in DOMAIN Program \ Waits ~> result[t] # NoResult
===============================================================================
