-------------------------- MODULE LndBootstrapProofs --------------------------
(***************************************************************************)
(* Proofs about LndBootstrap, for every starting height, number of         *)
(* confirmations and number of faults: one InitWallet per node, and what   *)
(* synchronization and an active channel mean. And about BoundedReads, by  *)
(* which the bootstrap gets a node's certificate, for every limit, block   *)
(* size and length of what a peer sends: what is kept of it is a part of   *)
(* it from its beginning, byte by byte, and so is what a read returns.     *)
(***************************************************************************)
EXTENDS LndBootstrap, BoundedReads, SequenceTheorems, WellFoundedInduction, TLAPS

LEMMA AfterIs ==
  /\ After["aliceCert"] = "bobCert" /\ After["bobCert"] = "wallets"
  /\ After["sync"] = "identities" /\ After["identities"] = "address"
  /\ After["address"] = "fund" /\ After["fund"] = "balance"
  /\ After["balance"] = "connect" /\ After["connect"] = "open"
  /\ After["open"] = "reconnect" /\ After["reconnect"] = "probe"
  /\ After["probe"] = "done"
BY DEF After

Early == {"aliceCert", "bobCert", "wallets", "sync", "failed"}

Unopened == {"aliceCert", "bobCert", "wallets", "sync", "identities", "address",
             "fund", "balance", "connect", "open"}

\* InitWallet is behind a node's progress, not behind its retries.
Counted == \A n \in Nodes : inits[n] = IF unlock[n] \in {"seed", "pause"} THEN 0 ELSE 1

\* What is on the chain, and what the nodes saw of it.
Chain ==
  /\ tip >= Start /\ tip >= funded
  /\ stage \in Unopened => opened = 0
  /\ opened > 0 => opened > funded
  /\ stage \notin Early => \A n \in Nodes : seen[n] >= Start
  /\ \A n \in Nodes : active[n] => opened > 0 /\ \A m \in Nodes : seen[m] >= opened

\* Readings are of the past, which the nodes do not leave behind.
Readings ==
  /\ tipRead > 0 => tipRead >= Start
  /\ \A n \in Nodes : info[n] <= seen[n]
  /\ \A n \in Nodes : chan[n] => opened > 0 /\ \A m \in Nodes : seen[m] >= opened
  /\ stage = "done" => opened > 0 /\ \A m \in Nodes : seen[m] >= opened

BInv == TypeOK /\ Counted /\ Chain /\ Readings

-------------------------------------------------------------------------------
LEMMA InitBInv == Init => BInv
<1> SUFFICES ASSUME Init PROVE BInv OBVIOUS
<1>1. TypeOK BY BootstrapAssumption DEF Init, TypeOK, Stages
<1>2. Counted BY DEF Init, Counted
<1>3. Chain BY BootstrapAssumption DEF Init, Chain, Early
<1>4. Readings BY DEF Init, Readings
<1> QED BY <1>1, <1>2, <1>3, <1>4 DEF BInv

LEMMA CallsStep == ASSUME BInv, Calls PROVE BInv'
<1> USE BootstrapAssumption, AfterIs DEF BInv
<1>1. CASE Answered
  <2>1. /\ stage \in {"aliceCert", "bobCert", "identities", "address"}
        /\ stage' = After[stage]
        /\ UNCHANGED <<unlock, inits, listed, pending, info, chan, tipRead, wallet, tip,
                       seen, funded, opened, peers, active, faults>>
    BY <1>1 DEF Answered, Proceed, readings, daemons
  <2>2. TypeOK' BY <2>1 DEF TypeOK, Stages
  <2>3. Counted' BY <2>1 DEF Counted
  <2>4. Chain' BY <2>1 DEF Chain, Early, Unopened
  <2>5. Readings' BY <2>1 DEF Readings
  <2> QED BY <2>2, <2>3, <2>4, <2>5
<1>2. CASE Fund
  <2>1. /\ stage = "fund" /\ stage' = "balance" /\ tip' = tip + 1 /\ funded' = tip + 1
        /\ UNCHANGED <<unlock, inits, listed, pending, info, chan, tipRead, wallet,
                       seen, opened, peers, active, faults>>
    BY <1>2 DEF Fund, Proceed, readings
  <2>2. TypeOK' BY <2>1 DEF TypeOK, Stages
  <2>3. Counted' BY <2>1 DEF Counted
  <2>4. Chain' BY <2>1 DEF TypeOK, Chain, Early, Unopened
  <2>5. Readings' BY <2>1 DEF Readings
  <2> QED BY <2>2, <2>3, <2>4, <2>5
<1>3. CASE BalanceSeen
  <2>1. /\ stage = "balance" /\ stage' = "connect"
        /\ UNCHANGED <<unlock, inits, listed, pending, info, chan, tipRead, wallet, tip,
                       seen, funded, opened, peers, active, faults>>
    BY <1>3 DEF BalanceSeen, Proceed, readings, daemons
  <2>2. TypeOK' BY <2>1 DEF TypeOK, Stages
  <2>3. Counted' BY <2>1 DEF Counted
  <2>4. Chain' BY <2>1 DEF Chain, Early, Unopened
  <2>5. Readings' BY <2>1 DEF Readings
  <2> QED BY <2>2, <2>3, <2>4, <2>5
<1>4. CASE Open
  <2>1. /\ stage = "open" /\ stage' = "reconnect"
        /\ tip' = tip + Confirmations /\ opened' = tip + Confirmations
        /\ UNCHANGED <<unlock, inits, listed, pending, info, chan, tipRead, wallet,
                       seen, funded, peers, active, faults>>
    BY <1>4 DEF Open, Proceed, readings
  <2>2. TypeOK' BY <2>1 DEF TypeOK, Stages
  <2>3. Counted' BY <2>1 DEF Counted
  <2>4. opened = 0 BY <2>1 DEF Chain, Unopened
  <2>5. \A n \in Nodes : ~active[n] /\ ~chan[n] BY <2>4 DEF Chain, Readings
  <2>6. Chain' BY <2>1, <2>5 DEF TypeOK, Chain, Early, Unopened
  <2>7. Readings' BY <2>1, <2>5 DEF Readings
  <2> QED BY <2>2, <2>3, <2>6, <2>7
<1>5. CASE GiveUp
  <2>1. /\ stage' = "failed"
        /\ UNCHANGED <<unlock, inits, listed, pending, info, chan, tipRead, wallet, tip,
                       seen, funded, opened, peers, active, faults>>
    BY <1>5 DEF GiveUp, readings, daemons
  <2> QED BY <2>1
          DEF TypeOK, Stages, Counted, Chain, Readings, Early, Unopened
<1> QED BY <1>1, <1>2, <1>3, <1>4, <1>5 DEF Calls, OpenRefused

LEMMA GiveUpStep == ASSUME BInv, GiveUp PROVE BInv'
BY DEF GiveUp, readings, daemons, BInv, TypeOK, Stages, Counted, Chain, Readings,
       Early, Unopened

LEMMA WalletsStep == ASSUME BInv, Wallets PROVE BInv'
<1> USE DEF BInv
<1>1. PICK n \in Nodes :
        SeedGenerated(n) \/ WalletReady(n) \/ PauseOver(n) \/ CallAgain(n)
  BY DEF Wallets
<1>2. /\ stage = "wallets" /\ stage' = stage
      /\ UNCHANGED <<listed, pending, info, chan, tipRead, wallet, tip,
                     seen, funded, opened, peers, active>>
      /\ faults' = faults \/ faults' = faults + 1
  BY <1>1 DEF SeedGenerated, WalletReady, PauseOver, CallAgain, Fault, readings, daemons
<1>3. \/ /\ unlock[n] = "seed" /\ unlock' = [unlock EXCEPT ![n] = "init"]
         /\ inits' = [inits EXCEPT ![n] = @ + 1]
      \/ /\ unlock[n] = "init" /\ unlock' = [unlock EXCEPT ![n] = "ready"]
         /\ inits' = inits
      \/ /\ unlock[n] = "pause" /\ unlock' = [unlock EXCEPT ![n] = "seed"]
         /\ inits' = inits
      \/ /\ unlock[n] = "seed" /\ unlock' = [unlock EXCEPT ![n] = "pause"]
         /\ inits' = inits
  BY <1>1 DEF SeedGenerated, WalletReady, PauseOver, CallAgain, TransientCalls
<1>4. unlock' \in [Nodes -> {"seed", "pause", "init", "ready"}] /\ inits' \in [Nodes -> Nat]
  BY <1>3 DEF TypeOK
<1>5. TypeOK' BY <1>2, <1>4 DEF TypeOK
<1>6. Counted' BY <1>3 DEF TypeOK, Counted
<1>7. Chain' /\ Readings' BY <1>2 DEF Chain, Readings
<1> QED BY <1>5, <1>6, <1>7

LEMMA BothReadyStep == ASSUME BInv, BothReady PROVE BInv'
<1>1. /\ stage = "wallets" /\ stage' = "sync" /\ pending' = SyncProbes
      /\ UNCHANGED <<unlock, inits, listed, info, chan, tipRead, wallet, tip,
                     seen, funded, opened, peers, active, faults>>
  BY DEF BothReady, daemons
<1>2. TypeOK' BY <1>1 DEF BInv, TypeOK, Stages, ActiveProbes
<1> QED BY <1>1, <1>2 DEF BInv, Counted, Chain, Readings, Early, Unopened

LEMMA PeeringStep == ASSUME BInv, Peering PROVE BInv'
<1> USE AfterIs DEF BInv
<1>1. /\ UNCHANGED <<unlock, inits, info, chan, tipRead, wallet, tip,
                     seen, funded, opened, active>>
      /\ faults' = faults \/ faults' = faults + 1
  BY DEF Peering, PeerListed, PeerMissing, ListingNotReady, ConnectPeer,
         NotYetConnected, Fault, readings, daemons
<1>2. \/ stage' = stage /\ pending' = pending
      \/ stage = "connect" /\ stage' = "open" /\ pending' = pending
      \/ stage = "reconnect" /\ stage' = "probe" /\ pending' = ActiveProbes
  BY DEF Peering, PeerListed, PeerMissing, ListingNotReady, ConnectPeer,
         NotYetConnected, Connecting, Proceed, readings
<1>3. listed' \in BOOLEAN /\ peers' \in BOOLEAN
  BY DEF Peering, PeerListed, PeerMissing, ListingNotReady, ConnectPeer,
         NotYetConnected, TypeOK, daemons
<1>4. stage' \in Stages /\ pending' \subseteq ActiveProbes BY <1>2 DEF TypeOK, Stages
<1>5. TypeOK' BY <1>1, <1>3, <1>4 DEF TypeOK
<1>6. Counted' BY <1>1 DEF Counted
<1>7. Chain' BY <1>1, <1>2 DEF Chain, Early, Unopened
<1>8. Readings' BY <1>1, <1>2 DEF Readings
<1> QED BY <1>5, <1>6, <1>7, <1>8

LEMMA ProbingStep == ASSUME BInv, Probing PROVE BInv'
<1> USE BootstrapAssumption, AfterIs DEF BInv
<1>0. UNCHANGED <<unlock, inits, listed, wallet, tip, seen, funded, opened, peers, active>>
  BY DEF Probing, TipAnswered, RoundSucceeds, RoundFails, InfoAnswered, ChanAnswered,
         NotReady, daemons
<1>1. Counted' BY <1>0 DEF Counted
<1>2. CASE TipAnswered
  <2>1. /\ pending' = pending \ {Tip} /\ tipRead' = tip
        /\ UNCHANGED <<stage, info, chan, faults>>
    BY <1>2 DEF TipAnswered
  <2>2. TypeOK' BY <1>0, <2>1 DEF TypeOK
  <2>3. Chain' /\ Readings' BY <1>0, <2>1 DEF Chain, Readings
  <2> QED BY <1>1, <2>2, <2>3
<1>3. ASSUME NEW n \in Nodes, InfoAnswered(n) PROVE BInv'
  <2>1. /\ pending' \subseteq pending /\ info' = [info EXCEPT ![n] = seen[n]]
        /\ UNCHANGED <<stage, chan, tipRead, faults>>
    BY <1>3 DEF InfoAnswered
  <2>2. TypeOK' BY <1>0, <2>1 DEF TypeOK
  <2>3. \A m \in Nodes : info'[m] <= seen[m] BY <2>1 DEF TypeOK, Readings
  <2>4. Chain' /\ Readings' BY <1>0, <2>1, <2>3 DEF Chain, Readings
  <2> QED BY <1>1, <2>2, <2>4
<1>4. ASSUME NEW n \in Nodes, ChanAnswered(n) PROVE BInv'
  <2>1. /\ pending' \subseteq pending /\ chan' = [chan EXCEPT ![n] = active[n]]
        /\ UNCHANGED <<stage, info, tipRead, faults>>
    BY <1>4 DEF ChanAnswered
  <2>2. chan' \in [Nodes -> BOOLEAN] BY <2>1 DEF TypeOK
  <2>3. TypeOK' BY <1>0, <2>1, <2>2 DEF TypeOK
  <2>4. \A m \in Nodes : chan'[m] => chan[m] \/ active[n] BY <2>1 DEF TypeOK
  <2>5. Chain' /\ Readings' BY <1>0, <2>1, <2>4 DEF Chain, Readings
  <2> QED BY <1>1, <2>3, <2>5
<1>5. ASSUME NEW p \in ActiveProbes, NotReady(p) PROVE BInv'
  <2>1. /\ pending' \subseteq pending /\ stage' = stage /\ faults' = faults + 1
        /\ info' = [m \in Nodes |-> IF p = <<"info", m>> THEN 0 ELSE info[m]]
        /\ chan' = [m \in Nodes |-> chan[m] /\ p # <<"chan", m>>]
        /\ tipRead' = IF p = Tip THEN 0 ELSE tipRead
    BY <1>5 DEF NotReady, Fault
  <2>2. chan' \in [Nodes -> BOOLEAN] /\ \A m \in Nodes : chan'[m] => chan[m]
    BY <2>1, Zenon DEF TypeOK
  <2>3. info' \in [Nodes -> Nat] /\ \A m \in Nodes : info'[m] = 0 \/ info'[m] = info[m]
    BY <2>1 DEF TypeOK
  <2>4. tipRead' = 0 \/ tipRead' = tipRead BY <2>1
  <2>5. TypeOK' BY <1>0, <2>1, <2>2, <2>3, <2>4 DEF TypeOK
  <2>6. Chain' BY <1>0, <2>1 DEF Chain
  <2>7. Readings' BY <1>0, <2>1, <2>2, <2>3, <2>4 DEF TypeOK, Readings
  <2> QED BY <1>1, <2>5, <2>6, <2>7
<1>6. CASE RoundSucceeds
  <2>1. /\ stage' = After[stage] /\ stage \in {"sync", "probe"} /\ Agree
        /\ UNCHANGED <<pending, info, chan, tipRead, faults>>
    BY <1>6 DEF RoundSucceeds, Proceed, readings
  <2>2. TypeOK' BY <1>0, <2>1 DEF TypeOK, Stages
  <2>3. \A n \in Nodes : seen[n] >= Start BY <2>1 DEF Agree, TypeOK, Readings
  <2>4. Chain' BY <1>0, <2>1, <2>3 DEF Chain, Early, Unopened
  <2>5. stage = "probe" => chan["alice"] BY <2>1 DEF Agree, Nodes
  <2>6. Readings' BY <1>0, <2>1, <2>5 DEF Readings, Nodes
  <2> QED BY <1>1, <2>2, <2>4, <2>6
<1>7. CASE RoundFails
  <2>1. /\ stage \in {"sync", "probe"} /\ stage' = NextRound
        /\ pending' \subseteq ActiveProbes
        /\ UNCHANGED <<info, chan, tipRead, faults>>
    BY <1>7 DEF RoundFails, ActiveProbes
  <2>2. stage' = stage \/ (stage = "probe" /\ stage' = "reconnect")
    BY <2>1 DEF NextRound
  <2>3. TypeOK' BY <1>0, <2>1, <2>2 DEF TypeOK, Stages
  <2>4. Chain' BY <1>0, <2>2 DEF Chain, Early, Unopened
  <2>5. Readings' BY <1>0, <2>1, <2>2 DEF Readings
  <2> QED BY <1>1, <2>3, <2>4, <2>5
<1> QED BY <1>2, <1>3, <1>4, <1>5, <1>6, <1>7 DEF Probing

LEMMA DaemonsStep == ASSUME BInv, Daemons PROVE BInv'
<1> USE DEF BInv
<1>1. /\ UNCHANGED <<stage, unlock, inits, listed, pending, info, chan, tipRead,
                     tip, funded, opened>>
      /\ faults' = faults \/ faults' = faults + 1
  BY DEF Daemons, CatchUp, BecomesActive, Initialize, LoseEachOther, MeetAgain, Fault,
         client, readings
<1>2. /\ wallet' \in [Nodes -> BOOLEAN] /\ peers' \in BOOLEAN
  BY DEF Daemons, CatchUp, BecomesActive, Initialize, LoseEachOther, MeetAgain, TypeOK
<1>3. seen' \in [Nodes -> Nat] /\ \A n \in Nodes : seen'[n] >= seen[n]
  BY DEF Daemons, CatchUp, BecomesActive, Initialize, LoseEachOther, MeetAgain, TypeOK
<1>4. /\ active' \in [Nodes -> BOOLEAN]
      /\ \A n \in Nodes :
           active'[n] => \/ active[n]
                         \/ opened > 0 /\ \A m \in Nodes : seen[m] >= opened
  BY DEF Daemons, CatchUp, BecomesActive, Initialize, LoseEachOther, MeetAgain, TypeOK
<1>5. TypeOK' BY <1>1, <1>2, <1>3, <1>4 DEF TypeOK
<1>6. Counted' BY <1>1 DEF Counted
<1>7. Chain' BY <1>1, <1>3, <1>4, BootstrapAssumption DEF TypeOK, Chain
<1>8. Readings' BY <1>1, <1>3 DEF TypeOK, Readings
<1> QED BY <1>5, <1>6, <1>7, <1>8

LEMMA NextBInv == BInv /\ [Next]_vars => BInv'
<1> SUFFICES ASSUME BInv, [Next]_vars PROVE BInv' OBVIOUS
<1>1. CASE UNCHANGED vars
  BY <1>1 DEF vars, client, readings, daemons, BInv, TypeOK, Counted, Chain, Readings
<1> QED BY <1>1, CallsStep, GiveUpStep, WalletsStep, BothReadyStep, PeeringStep,
           ProbingStep, DaemonsStep DEF Next

LEMMA BInvAlways == Spec => []BInv
BY InitBInv, NextBInv, PTL DEF Spec

\* Every variable keeps its type (bootstrap_nodes).
THEOREM BootstrapTypeCorrect == Spec => []TypeOK
<1>1. BInv => TypeOK BY DEF BInv
<1> QED BY <1>1, BInvAlways, PTL

\* No node is sent a second InitWallet (is_transient_seed_generation).
THEOREM InitializedOnceAlways == Spec => []InitializedOnce
<1>1. BInv => InitializedOnce BY DEF BInv, Counted, InitializedOnce
<1> QED BY <1>1, BInvAlways, PTL

\* Synchronized nodes have the chain they started with, and the nodes of a ready
\* channel the blocks that confirm it (wait_for_lnd_sync, wait_for_active_channel).
THEOREM CaughtUpAlways == Spec => []CaughtUp
<1>1. BInv => CaughtUp BY DEF BInv, Chain, Readings, Early, CaughtUp
<1> QED BY <1>1, BInvAlways, PTL

-------------------------------------------------------------------------------
(* The bounded reads.                                                      *)

Data == Byte \union {Zero, Header}

ReadTypes ==
  /\ reader \in {"response", "log", "certificate"}
  /\ at \in {"stat", "pause", "download", "reading", "done"}
  /\ source \in Seq(Data) /\ stream \in Seq(Data) /\ buffer \in Seq(Data)
  /\ stat \in Nat /\ declared \in Nat /\ chunks \in Nat
  /\ result \in [how : {"none", "ok", "exceeded", "truncated", "too large", "invalid", "failed"},
                 bytes : Seq(Data)]

\* The i-th byte that the peer sends, arrived or not.
Sent(i) == IF i <= Len(buffer) THEN buffer[i] ELSE stream[i - Len(buffer)]

\* A response or a log: what is kept and what comes are the source.
Streaming ==
  /\ Len(buffer) <= Limit
  /\ Len(buffer) + Len(stream) = Len(source)
  /\ \A i \in 1..Len(source) : Sent(i) = source[i]

\* A certificate: they are the archive of the first declared bytes of the file.
ArchiveLength(size) == Block + Padded(size) + EndBlocks * Block

Unpacking ==
  /\ stat <= declared /\ declared <= Len(source)
  /\ Len(buffer) + Len(stream) = ArchiveLength(declared)
  /\ \A i \in (Block + 1)..ArchiveLength(declared) :
       Sent(i) = IF i <= Block + declared THEN source[i - Block] ELSE Zero

\* LND's file only grows, and the read follows it.
Certificate ==
  /\ source = Absent \/ source \in Seq({"text"})
  /\ at \in {"download", "reading"} =>
       source \in Seq({"text"}) /\ stat <= Limit /\ stat <= Len(source)
  /\ at \in {"stat", "download"} => buffer = <<>>
  /\ at = "reading" => Unpacking

ReadInv ==
  /\ ReadTypes
  /\ at # "done" => result = NoResult
  /\ at \in {"stat", "pause", "download"} => reader = "certificate"
  /\ reader # "certificate" /\ at = "reading" => Streaming
  /\ reader = "certificate" => Certificate
  /\ at = "done" => BoundsAreExact /\ FileIsAVersion

-------------------------------------------------------------------------------
LEMMA PrefixByIndex ==
  ASSUME NEW s \in Seq(Data), NEW t \in Seq(Data), Len(s) <= Len(t),
         \A i \in 1..Len(s) : s[i] = t[i]
  PROVE  IsPrefix(s, t)
<1>1. Len(s) \in Nat /\ Len(t) \in Nat
  BY LenProperties
<1>2. \A i \in 1..Len(s) : t[i] \in Data
  BY <1>1, ElementOfSeq
<1>3. /\ SubSeq(t, 1, Len(s)) \in Seq(Data)
      /\ Len(SubSeq(t, 1, Len(s))) = Len(s)
      /\ \A i \in 1..Len(s) : SubSeq(t, 1, Len(s))[i] = t[i]
  BY <1>1, <1>2, SubSeqProperties
<1>4. SubSeq(s, 1, Len(s)) = s
  BY SubSeqFull
<1>5. SubSeq(t, 1, Len(s)) = s
  BY <1>3, SeqEqual
<1> QED BY <1>4, <1>5 DEF IsPrefix

\* n bytes move from the stream to the buffer, of which the first k are kept.
LEMMA Moved ==
  ASSUME ReadTypes, NEW n \in 0..Len(stream), NEW k \in 0..n
  PROVE  /\ buffer \o Take(k) \in Seq(Data) /\ Len(buffer \o Take(k)) = Len(buffer) + k
         /\ \A i \in 1..(Len(buffer) + k) : (buffer \o Take(k))[i] = Sent(i)
         /\ Rest(n) \in Seq(Data) /\ Len(Rest(n)) = Len(stream) - n
         /\ \A i \in 1..(Len(stream) - n) : Rest(n)[i] = Sent(Len(buffer) + n + i)
<1>1. /\ buffer \in Seq(Data) /\ stream \in Seq(Data) /\ Len(buffer) \in Nat /\ Len(stream) \in Nat
      /\ n \in Nat /\ k \in Nat /\ k <= n /\ n <= Len(stream)
  <2>1. buffer \in Seq(Data) /\ stream \in Seq(Data)
    BY DEF ReadTypes
  <2>2. Len(buffer) \in Nat /\ Len(stream) \in Nat
    BY <2>1, LenProperties
  <2> QED BY <2>1, <2>2
<1>2. \A i \in 1..Len(stream) : stream[i] \in Data
  BY <1>1, ElementOfSeq
<1>3. /\ Take(k) \in Seq(Data) /\ Len(Take(k)) = k
      /\ \A i \in 1..k : Take(k)[i] = stream[i]
  <2>1. 1 \in Int /\ k \in Int /\ \A i \in 1..k : stream[i] \in Data
    BY <1>1, <1>2
  <2>2. /\ SubSeq(stream, 1, k) \in Seq(Data)
        /\ Len(SubSeq(stream, 1, k)) = IF 1 <= k THEN k - 1 + 1 ELSE 0
        /\ \A i \in 1..(k - 1 + 1) : SubSeq(stream, 1, k)[i] = stream[1 + i - 1]
    BY <2>1, SubSeqProperties
  <2> QED BY <1>1, <2>2 DEF Take
<1>4. /\ Rest(n) \in Seq(Data) /\ Len(Rest(n)) = Len(stream) - n
      /\ \A i \in 1..(Len(stream) - n) : Rest(n)[i] = stream[n + i]
  <2>1. n + 1 \in Int /\ Len(stream) \in Int /\ \A i \in (n + 1)..Len(stream) : stream[i] \in Data
    BY <1>1, <1>2
  <2>2. /\ SubSeq(stream, n + 1, Len(stream)) \in Seq(Data)
        /\ Len(SubSeq(stream, n + 1, Len(stream))) =
             IF n + 1 <= Len(stream) THEN Len(stream) - (n + 1) + 1 ELSE 0
        /\ \A i \in 1..(Len(stream) - (n + 1) + 1) :
             SubSeq(stream, n + 1, Len(stream))[i] = stream[(n + 1) + i - 1]
    BY <2>1, SubSeqProperties
  <2> QED BY <1>1, <2>2 DEF Rest
<1>5. /\ buffer \o Take(k) \in Seq(Data) /\ Len(buffer \o Take(k)) = Len(buffer) + k
      /\ \A i \in 1..(Len(buffer) + k) :
           (buffer \o Take(k))[i] = IF i <= Len(buffer) THEN buffer[i] ELSE Take(k)[i - Len(buffer)]
  <2> DEFINE taken == Take(k)
  <2> HIDE DEF taken
  <2>1. taken \in Seq(Data) /\ Len(taken) = k
    BY <1>3 DEF taken
  <2>2. /\ buffer \o taken \in Seq(Data) /\ Len(buffer \o taken) = Len(buffer) + Len(taken)
        /\ \A i \in 1..(Len(buffer) + Len(taken)) :
             (buffer \o taken)[i] = IF i <= Len(buffer) THEN buffer[i] ELSE taken[i - Len(buffer)]
    BY <1>1, <2>1, ConcatProperties
  <2> QED BY <2>1, <2>2 DEF taken
<1>6. \A i \in 1..(Len(buffer) + k) : (buffer \o Take(k))[i] = Sent(i)
  <2> SUFFICES ASSUME NEW i \in 1..(Len(buffer) + k) PROVE (buffer \o Take(k))[i] = Sent(i)
    OBVIOUS
  <2>1. CASE i <= Len(buffer)
    BY <1>5, <2>1 DEF Sent
  <2>2. CASE ~(i <= Len(buffer))
    <3>1. i - Len(buffer) \in 1..k
      BY <1>1, <2>2
    <3> QED BY <1>3, <1>5, <2>2, <3>1 DEF Sent
  <2> QED BY <2>1, <2>2
<1>7. \A i \in 1..(Len(stream) - n) : Rest(n)[i] = Sent(Len(buffer) + n + i)
  <2> SUFFICES ASSUME NEW i \in 1..(Len(stream) - n) PROVE Rest(n)[i] = Sent(Len(buffer) + n + i)
    OBVIOUS
  <2>1. ~(Len(buffer) + n + i <= Len(buffer)) /\ (Len(buffer) + n + i) - Len(buffer) = n + i
    BY <1>1
  <2> QED BY <1>4, <2>1 DEF Sent
<1> QED BY <1>4, <1>5, <1>6, <1>7

\* With all of them kept, the peer's bytes stay where they are.
LEMMA SentKept ==
  ASSUME ReadTypes, NEW n \in 0..Len(stream), buffer' = buffer \o Take(n), stream' = Rest(n)
  PROVE  /\ buffer' \in Seq(Data) /\ stream' \in Seq(Data)
         /\ Len(buffer') = Len(buffer) + n /\ Len(stream') = Len(stream) - n
         /\ \A i \in 1..(Len(buffer) + Len(stream)) : Sent(i)' = Sent(i)
<1>1. Len(buffer) \in Nat /\ Len(stream) \in Nat /\ n \in Nat /\ n \in 0..n
  <2>1. buffer \in Seq(Data) /\ stream \in Seq(Data)
    BY DEF ReadTypes
  <2>2. Len(buffer) \in Nat /\ Len(stream) \in Nat
    BY <2>1, LenProperties
  <2> QED BY <2>1, <2>2
<1>2. /\ buffer' \in Seq(Data) /\ Len(buffer') = Len(buffer) + n
      /\ \A i \in 1..(Len(buffer) + n) : buffer'[i] = Sent(i)
      /\ stream' \in Seq(Data) /\ Len(stream') = Len(stream) - n
      /\ \A i \in 1..(Len(stream) - n) : stream'[i] = Sent(Len(buffer) + n + i)
  BY <1>1, Moved
<1>3. ASSUME NEW i \in 1..(Len(buffer) + Len(stream)) PROVE Sent(i)' = Sent(i)
  <2>1. CASE i <= Len(buffer')
    BY <1>1, <1>2, <2>1 DEF Sent
  <2>2. CASE ~(i <= Len(buffer'))
    <3>1. /\ i - Len(buffer') \in 1..(Len(stream) - n)
          /\ Len(buffer) + n + (i - Len(buffer')) = i
      BY <1>1, <1>2, <2>2
    <3>2. Sent(i)' = stream'[i - Len(buffer')]
      BY <2>2 DEF Sent
    <3> QED BY <1>2, <3>1, <3>2
  <2> QED BY <2>1, <2>2
<1> QED BY <1>2, <1>3

\* The file in whole blocks.
LEMMA PaddedFacts ==
  ASSUME NEW size \in Nat
  PROVE  /\ Padded(size) \in Nat /\ size <= Padded(size) /\ Padded(size) < size + Block
         /\ ArchiveLength(size) \in Nat /\ ArchiveLength(size) = Padded(size) + 3 * Block
         /\ ArchiveLength(size) % Block = 0
<1> DEFINE q == (size + Block - 1) \div Block
<1>1. Block \in Nat /\ Block >= 1 /\ size + Block - 1 \in Nat
  BY ReadAssumption
<1>2. /\ q \in Nat
      /\ q * Block <= size + Block - 1 /\ size + Block - 1 < q * Block + Block
  BY <1>1
<1> HIDE DEF q
<1>3. q * Block \in Nat
  BY <1>1, <1>2
<1>4. Padded(size) = q * Block
  BY DEF Padded, q
<1>5. ArchiveLength(size) = Padded(size) + 3 * Block
  BY <1>1, <1>3, <1>4 DEF ArchiveLength, EndBlocks
<1>6. ArchiveLength(size) = (q + 3) * Block
  BY <1>1, <1>2, <1>4, <1>5
<1>7. \A m \in Nat : (m * Block) % Block = 0
  BY <1>1
<1>8. ArchiveLength(size) % Block = 0
  BY <1>2, <1>6, <1>7
<1> QED BY <1>1, <1>2, <1>3, <1>4, <1>5, <1>8

\* What Docker sends for a file.
LEMMA ArchiveFacts ==
  ASSUME NEW file \in Seq({"text"})
  PROVE  /\ Archive(file) \in Seq(Data) /\ Len(Archive(file)) = ArchiveLength(Len(file))
         /\ \A i \in (Block + 1)..ArchiveLength(Len(file)) :
              Archive(file)[i] = IF i <= Block + Len(file) THEN file[i - Block] ELSE Zero
<1> DEFINE head == [i \in 1..Block |-> Header]
           pad == Padded(Len(file)) - Len(file)
           upToFile == head \o file
           upToPadding == upToFile \o Zeros(pad)
<1>1. Len(file) \in Nat /\ file \in Seq(Data)
  <2>1. {"text"} \subseteq Data
    BY DEF Data, Byte
  <2> QED BY <2>1, LenProperties, SeqMonotonic
<1>2. Block \in Nat /\ 2 * Block \in Nat /\ pad \in Nat
  <2>1. Block \in Nat /\ 2 * Block \in Nat
    BY ReadAssumption
  <2>2. Padded(Len(file)) \in Nat /\ Len(file) <= Padded(Len(file))
    BY <1>1, PaddedFacts
  <2> QED BY <1>1, <2>1, <2>2
<1>3. head \in Seq(Data) /\ Len(head) = Block
  BY <1>2 DEF Data
<1>4. \A n \in Nat : /\ Zeros(n) \in Seq(Data) /\ Len(Zeros(n)) = n
                     /\ \A i \in 1..n : Zeros(n)[i] = Zero
  BY DEF Zeros, Data
<1> HIDE DEF head, pad
<1>5. /\ upToFile \in Seq(Data) /\ Len(upToFile) = Block + Len(file)
      /\ \A i \in 1..(Block + Len(file)) :
           upToFile[i] = IF i <= Block THEN head[i] ELSE file[i - Block]
  BY <1>1, <1>2, <1>3, ConcatProperties
<1> HIDE DEF upToFile
<1>6. /\ upToPadding \in Seq(Data) /\ Len(upToPadding) = Block + Len(file) + pad
      /\ \A i \in (Block + 1)..(Block + Len(file) + pad) :
           upToPadding[i] = IF i <= Block + Len(file) THEN file[i - Block] ELSE Zero
  <2> DEFINE zeros == Zeros(pad)
  <2>1. zeros \in Seq(Data) /\ Len(zeros) = pad /\ \A i \in 1..pad : zeros[i] = Zero
    BY <1>2, <1>4
  <2> HIDE DEF zeros
  <2>2. /\ upToFile \o zeros \in Seq(Data) /\ Len(upToFile \o zeros) = Len(upToFile) + Len(zeros)
        /\ \A i \in 1..(Len(upToFile) + Len(zeros)) :
             (upToFile \o zeros)[i] =
               IF i <= Len(upToFile) THEN upToFile[i] ELSE zeros[i - Len(upToFile)]
    BY <1>5, <2>1, ConcatProperties
  <2>3. \A i \in (Block + 1)..(Block + Len(file) + pad) :
          (upToFile \o zeros)[i] = IF i <= Block + Len(file) THEN file[i - Block] ELSE Zero
    BY <1>1, <1>2, <1>5, <2>1, <2>2
  <2> QED BY <1>5, <2>1, <2>2, <2>3 DEF zeros
<1> HIDE DEF upToPadding
<1>7. Archive(file) = upToPadding \o Zeros(2 * Block)
  BY DEF Archive, upToPadding, upToFile, head, pad, EndBlocks
<1>8. ArchiveLength(Len(file)) = Block + Len(file) + pad + 2 * Block
  BY <1>1, <1>2, PaddedFacts DEF ArchiveLength, pad, EndBlocks
<1> DEFINE zeros == Zeros(2 * Block)
<1>9. zeros \in Seq(Data) /\ Len(zeros) = 2 * Block /\ \A i \in 1..(2 * Block) : zeros[i] = Zero
  BY <1>2, <1>4
<1> HIDE DEF zeros
<1>10. /\ upToPadding \o zeros \in Seq(Data)
       /\ Len(upToPadding \o zeros) = Len(upToPadding) + Len(zeros)
       /\ \A i \in 1..(Len(upToPadding) + Len(zeros)) :
            (upToPadding \o zeros)[i] =
              IF i <= Len(upToPadding) THEN upToPadding[i] ELSE zeros[i - Len(upToPadding)]
  BY <1>6, <1>9, ConcatProperties
<1>11. \A i \in (Block + 1)..ArchiveLength(Len(file)) :
         (upToPadding \o zeros)[i] = IF i <= Block + Len(file) THEN file[i - Block] ELSE Zero
  BY <1>1, <1>2, <1>6, <1>8, <1>9, <1>10
<1> QED BY <1>6, <1>7, <1>8, <1>9, <1>10, <1>11 DEF zeros

\* A set of positions has a last one.
LEMMA LastPosition ==
  ASSUME NEW n \in Nat, NEW ends \in SUBSET (1..n), ends # {}
  PROVE  \E i \in ends : \A j \in ends : j <= i
<1> DEFINE R == {ss \in Nat \X Nat : ss[1] < ss[2]}
           Above == {m \in Nat : \A j \in ends : j <= m}
<1>1. IsWellFoundedOn(R, Nat)
  BY NatLessThanWellFounded DEF OpToRel
<1>2. \A m, k \in Nat : m < k => <<m, k>> \in R
  OBVIOUS
<1> HIDE DEF R
<1>3. Above \subseteq Nat /\ n \in Above
  OBVIOUS
<1> HIDE DEF Above
<1>4. PICK m \in Above : \A k \in Above : ~(<<k, m>> \in R)
  BY <1>1, <1>3, WFMin
<1>5. m \in Nat /\ \A j \in ends : j <= m
  BY DEF Above
<1>6. m \in ends
  <2> SUFFICES ASSUME m \notin ends PROVE FALSE
    OBVIOUS
  <2>1. m - 1 \in Nat /\ m - 1 < m /\ \A j \in ends : j <= m - 1
    <3>1. PICK j \in ends : TRUE
      OBVIOUS
    <3>2. j >= 1 /\ m >= 1
      BY <1>5, <3>1
    <3>3. \A l \in ends : l \in Nat /\ l # m
      OBVIOUS
    <3> QED BY <1>5, <3>2, <3>3
  <2>2. m - 1 \in Above
    BY <2>1 DEF Above
  <2>3. <<m - 1, m>> \in R
    BY <1>2, <1>5, <2>1
  <2> QED BY <1>4, <2>2, <2>3
<1> QED BY <1>5, <1>6

\* The cut of a log at its last newline.
LEMMA WholeLinesFacts ==
  ASSUME NEW bytes \in Seq(Data)
  PROVE  /\ WholeLines(bytes) \in Seq(Data) /\ Len(WholeLines(bytes)) <= Len(bytes)
         /\ \A i \in 1..Len(WholeLines(bytes)) : WholeLines(bytes)[i] = bytes[i]
         /\ WholeLines(bytes) = <<>> \/ Last(WholeLines(bytes)) = "newline"
<1> DEFINE ends == {i \in DOMAIN bytes : bytes[i] = "newline"}
           cut == IF ends = {} THEN 0 ELSE CHOOSE i \in ends : \A j \in ends : j <= i
<1>1. Len(bytes) \in Nat /\ DOMAIN bytes = 1..Len(bytes)
  BY LenProperties
<1>2. cut = 0 \/ (cut \in 1..Len(bytes) /\ bytes[cut] = "newline")
  <2>1. ends \in SUBSET (1..Len(bytes))
    BY <1>1
  <2>2. ends # {} => \E i \in ends : \A j \in ends : j <= i
    BY <1>1, <2>1, LastPosition
  <2>3. ends # {} => cut \in ends
    BY <2>2
  <2> QED BY <2>1, <2>3
<1>3. WholeLines(bytes) = SubSeq(bytes, 1, cut)
  BY DEF WholeLines
<1> HIDE DEF ends, cut
<1>4. cut \in Nat /\ cut <= Len(bytes) /\ 1 \in Int /\ \A i \in 1..cut : bytes[i] \in Data
  BY <1>1, <1>2, ElementOfSeq
<1> DEFINE kept == SubSeq(bytes, 1, cut)
<1>5. /\ kept \in Seq(Data) /\ Len(kept) = IF 1 <= cut THEN cut - 1 + 1 ELSE 0
      /\ \A i \in 1..(cut - 1 + 1) : kept[i] = bytes[1 + i - 1]
  BY <1>4, SubSeqProperties
<1> HIDE DEF kept
<1>6. Len(kept) = cut /\ \A i \in 1..cut : kept[i] = bytes[i]
  BY <1>4, <1>5
<1>7. kept = <<>> \/ Last(kept) = "newline"
  BY <1>2, <1>5, <1>6, EmptySeq DEF Last
<1> QED BY <1>3, <1>4, <1>5, <1>6, <1>7 DEF kept

-------------------------------------------------------------------------------
(* The steps. A read that ends does so once, with the verdict.             *)

\* No read has ended before the step.
LEMMA NotEnded ==
  ASSUME ReadInv, at # "done"
  PROVE  ReadTypes /\ result = NoResult /\ <<>> \in Seq(Data) /\ Len(<<>>) = 0
BY EmptySeq DEF ReadInv

LEMMA StreamingKept ==
  ASSUME ReadTypes, Streaming, NEW n \in 0..Len(stream), source' = source,
         buffer' = buffer \o Take(n), stream' = Rest(n), Len(buffer) + n <= Limit
  PROVE  Streaming' /\ buffer' \in Seq(Data) /\ stream' \in Seq(Data)
<1>1. Len(buffer) \in Nat /\ Len(stream) \in Nat /\ n \in Nat
  <2>1. buffer \in Seq(Data) /\ stream \in Seq(Data)
    BY DEF ReadTypes
  <2> QED BY <2>1, LenProperties
<1>2. /\ buffer' \in Seq(Data) /\ stream' \in Seq(Data)
      /\ Len(buffer') = Len(buffer) + n /\ Len(stream') = Len(stream) - n
      /\ \A i \in 1..(Len(buffer) + Len(stream)) : Sent(i)' = Sent(i)
  BY SentKept
<1>3. \A i \in 1..Len(source) : Sent(i)' = source[i]
  BY <1>2 DEF Streaming
<1>4. Len(buffer') <= Limit /\ Len(buffer') + Len(stream') = Len(source')
  <2>1. Len(buffer) + Len(stream) = Len(source)
    BY DEF Streaming
  <2>2. Len(buffer') <= Limit
    BY <1>2
  <2>3. Len(buffer') + Len(stream') = Len(buffer) + Len(stream)
    BY <1>1, <1>2
  <2> QED BY <2>1, <2>2, <2>3
<1> QED BY <1>2, <1>3, <1>4 DEF Streaming, Sent

LEMMA ResponseStep ==
  ASSUME ReadInv, ResponseChunk \/ ResponseEnds
  PROVE  ReadInv'
<1>1. /\ ReadTypes /\ Streaming /\ reader = "response" /\ at = "reading" /\ result = NoResult
      /\ reader' = reader /\ source' = source /\ stat' = stat /\ declared' = declared
      /\ chunks' = chunks
  BY DEF ReadInv, ResponseChunk, ResponseEnds
<1>2. /\ Len(buffer) \in Nat /\ Len(stream) \in Nat /\ Len(source) \in Nat /\ Limit \in Nat
      /\ buffer \in Seq(Data) /\ stream \in Seq(Data) /\ source \in Seq(Data)
  BY <1>1, LenProperties, ReadAssumption DEF ReadTypes
<1>3. CASE ResponseChunk
  <2>1. PICK n \in 1..Len(stream) :
          LET remaining == Limit - Len(buffer)
              kept == IF n <= remaining THEN n ELSE remaining
          IN /\ buffer' = buffer \o Take(kept)
             /\ stream' = Rest(n)
             /\ IF Exceeds(n, remaining)
                THEN Ends("exceeded", buffer')
                ELSE UNCHANGED <<at, result>>
    BY <1>3 DEF ResponseChunk
  <2> DEFINE kept == IF n <= Limit - Len(buffer) THEN n ELSE Limit - Len(buffer)
  <2>2. n \in 0..Len(stream) /\ kept \in 0..n /\ Len(buffer) <= Limit
    BY <1>1, <1>2 DEF Streaming
  <2>3. buffer' = buffer \o Take(kept) /\ stream' = Rest(n)
    BY <2>1
  <2>4. CASE n <= Limit - Len(buffer)
    <3>1. kept = n /\ at' = at /\ result' = result
      BY <1>2, <2>1, <2>2, <2>4 DEF Exceeds
    <3>2. Len(buffer) + n <= Limit
      BY <1>2, <2>2, <2>4
    <3>3. Streaming' /\ buffer' \in Seq(Data) /\ stream' \in Seq(Data)
      BY <1>1, <2>2, <2>3, <3>1, <3>2, StreamingKept
    <3> QED BY <1>1, <3>1, <3>3 DEF ReadInv, ReadTypes
  <2>5. CASE ~(n <= Limit - Len(buffer))
    <3>1. /\ kept = Limit - Len(buffer)
          /\ at' = "done" /\ result' = [how |-> "exceeded", bytes |-> buffer']
      BY <1>2, <2>1, <2>2, <2>5 DEF Exceeds, Ends
    <3>2. /\ buffer' \in Seq(Data) /\ Len(buffer') = Len(buffer) + kept /\ stream' \in Seq(Data)
      BY <1>1, <2>2, <2>3, Moved
    <3>3. Len(buffer') = Limit /\ Len(source) > Limit
      BY <1>1, <1>2, <2>2, <2>5, <3>1, <3>2 DEF Streaming
    <3>4. BoundsAreExact' /\ FileIsAVersion'
      BY <1>1, <3>1, <3>3 DEF BoundsAreExact, FileIsAVersion
    <3> QED BY <1>1, <3>1, <3>2, <3>4 DEF ReadInv, ReadTypes
  <2> QED BY <2>4, <2>5
<1>4. CASE ResponseEnds
  <2>1. /\ stream = <<>> /\ stream' = stream /\ buffer' = buffer
        /\ at' = "done" /\ result' = [how |-> "ok", bytes |-> buffer]
    BY <1>4 DEF ResponseEnds, Ends
  <2>2. Len(buffer) = Len(source) /\ \A i \in 1..Len(buffer) : buffer[i] = source[i]
    BY <1>1, <1>2, <2>1, EmptySeq DEF Streaming, Sent
  <2>3. buffer = source /\ Len(source) <= Limit
    BY <1>1, <1>2, <2>2, SeqEqual DEF Streaming
  <2>4. BoundsAreExact' /\ FileIsAVersion'
    BY <1>1, <2>1, <2>3 DEF BoundsAreExact, FileIsAVersion
  <2> QED BY <1>1, <1>2, <2>1, <2>4 DEF ReadInv, ReadTypes
<1> QED BY <1>3, <1>4

LEMMA LogStep ==
  ASSUME ReadInv, LogChunk \/ LogEnds
  PROVE  ReadInv'
<1>1. /\ ReadTypes /\ Streaming /\ reader = "log" /\ at = "reading" /\ result = NoResult
      /\ reader' = reader /\ source' = source /\ stat' = stat /\ declared' = declared
  BY DEF ReadInv, LogChunk, LogEnds
<1>2. /\ Len(buffer) \in Nat /\ Len(stream) \in Nat /\ Len(source) \in Nat /\ Limit \in Nat
      /\ buffer \in Seq(Data) /\ stream \in Seq(Data) /\ source \in Seq(Data) /\ chunks \in Nat
  BY <1>1, LenProperties, ReadAssumption DEF ReadTypes
<1>3. CASE LogChunk
  <2>1. PICK n \in 0..Len(stream) :
          LET remaining == Limit - Len(buffer)
              kept == IF n <= remaining THEN n ELSE remaining
          IN /\ buffer' = buffer \o Take(kept)
             /\ stream' = Rest(n)
             /\ chunks' = chunks + 1
             /\ IF Len(buffer') = Limit \/ chunks' = MaxChunks
                THEN Ends("truncated", WholeLines(buffer'))
                ELSE UNCHANGED <<at, result>>
    BY <1>3 DEF LogChunk
  <2> DEFINE kept == IF n <= Limit - Len(buffer) THEN n ELSE Limit - Len(buffer)
  <2>2. n \in Nat /\ n <= Len(stream) /\ kept \in 0..n /\ kept <= Limit - Len(buffer)
    BY <1>1, <1>2 DEF Streaming
  <2>3. buffer' = buffer \o Take(kept) /\ stream' = Rest(n) /\ chunks' \in Nat
    BY <1>2, <2>1
  <2>4. /\ buffer' \in Seq(Data) /\ Len(buffer') = Len(buffer) + kept /\ stream' \in Seq(Data)
        /\ \A i \in 1..(Len(buffer) + kept) : buffer'[i] = Sent(i)
    BY <1>1, <2>2, <2>3, Moved
  <2>5. /\ Len(buffer') \in Nat /\ Len(buffer') <= Limit /\ Len(buffer') <= Len(source)
        /\ \A i \in 1..Len(buffer') : buffer'[i] = source[i]
    BY <1>1, <1>2, <2>2, <2>4 DEF Streaming
  <2>6. CASE Len(buffer') = Limit \/ chunks' = MaxChunks
    <3>1. at' = "done" /\ result' = [how |-> "truncated", bytes |-> WholeLines(buffer')]
      BY <2>1, <2>6 DEF Ends
    <3> DEFINE lines == WholeLines(buffer')
    <3>2. /\ lines \in Seq(Data) /\ Len(lines) <= Len(buffer')
          /\ \A i \in 1..Len(lines) : lines[i] = buffer'[i]
          /\ lines = <<>> \/ Last(lines) = "newline"
      BY <2>4, WholeLinesFacts
    <3> HIDE DEF lines
    <3>3. Len(lines) \in Nat
      BY <3>2, LenProperties
    <3>4. Len(lines) <= Limit /\ IsPrefix(lines, source)
      BY <1>2, <2>5, <3>2, <3>3, PrefixByIndex
    <3>5. Len(source) >= Limit \/ chunks' = MaxChunks
      BY <1>2, <2>5, <2>6
    <3>6. result' = [how |-> "truncated", bytes |-> lines]
      BY <3>1 DEF lines
    <3>7. BoundsAreExact' /\ FileIsAVersion'
      BY <1>1, <3>2, <3>4, <3>5, <3>6 DEF BoundsAreExact, FileIsAVersion
    <3>8. ReadTypes'
      <4>1. at' = "done" /\ lines \in Seq(Data)
        BY <3>1, <3>2
      <4> QED BY <1>1, <2>3, <2>4, <3>6, <4>1 DEF ReadTypes
    <3> QED BY <1>1, <3>1, <3>7, <3>8 DEF ReadInv
  <2>7. CASE ~(Len(buffer') = Limit \/ chunks' = MaxChunks)
    <3>1. at' = at /\ result' = result /\ n \in 0..Len(stream)
      BY <2>1, <2>7
    <3>2. kept = n
      BY <1>2, <2>2, <2>4, <2>7
    <3>3. Len(buffer) + n <= Limit
      BY <1>2, <2>2, <3>2
    <3>4. Streaming' /\ buffer' \in Seq(Data) /\ stream' \in Seq(Data)
      BY <1>1, <2>3, <3>1, <3>2, <3>3, StreamingKept
    <3> QED BY <1>1, <2>3, <3>1, <3>4 DEF ReadInv, ReadTypes
  <2> QED BY <2>6, <2>7
<1>4. CASE LogEnds
  <2>1. /\ stream = <<>> /\ stream' = stream /\ buffer' = buffer /\ chunks' = chunks
        /\ at' = "done" /\ result' = [how |-> "ok", bytes |-> buffer]
    BY <1>4 DEF LogEnds, Ends
  <2>2. Len(buffer) = Len(source) /\ \A i \in 1..Len(buffer) : buffer[i] = source[i]
    BY <1>1, <1>2, <2>1, EmptySeq DEF Streaming, Sent
  <2>3. buffer = source /\ Len(source) <= Limit
    BY <1>1, <1>2, <2>2, SeqEqual DEF Streaming
  <2>4. BoundsAreExact' /\ FileIsAVersion'
    BY <1>1, <2>1, <2>3 DEF BoundsAreExact, FileIsAVersion
  <2> QED BY <1>1, <1>2, <2>1, <2>4 DEF ReadInv, ReadTypes
<1> QED BY <1>3, <1>4

LEMMA FileFacts ==
  /\ Absent \notin Seq({"text"}) /\ Absent \in Seq(Data) /\ <<>> \in Seq({"text"})
  /\ \A file \in Seq({"text"}) :
       /\ file \in Seq(Data) /\ Len(file) \in Nat
       /\ Append(file, "text") \in Seq({"text"}) /\ Len(Append(file, "text")) = Len(file) + 1
       /\ \A i \in 1..Len(file) : Append(file, "text")[i] = file[i]
<1>1. Absent \notin Seq({"text"})
  <2> SUFFICES ASSUME Absent \in Seq({"text"}) PROVE FALSE
    OBVIOUS
  <2>1. Len(Absent) = 1 /\ Absent[1] = "zero"
    BY DEF Absent, Zero
  <2>2. Absent[1] \in {"text"}
    BY <2>1, ElementOfSeq
  <2> QED BY <2>1, <2>2
<1>2. Absent \in Seq(Data) /\ <<>> \in Seq({"text"})
  BY DEF Absent, Data
<1>3. ASSUME NEW file \in Seq({"text"})
      PROVE  /\ file \in Seq(Data) /\ Len(file) \in Nat
             /\ Append(file, "text") \in Seq({"text"}) /\ Len(Append(file, "text")) = Len(file) + 1
             /\ \A i \in 1..Len(file) : Append(file, "text")[i] = file[i]
  <2>1. {"text"} \subseteq Data
    BY DEF Data, Byte
  <2> QED BY <2>1, SeqMonotonic, LenProperties, AppendProperties
<1> QED BY <1>1, <1>2, <1>3

LEMMA LndWritesStep ==
  ASSUME ReadInv, LndWrites
  PROVE  ReadInv'
<1>1. /\ ReadTypes /\ reader = "certificate" /\ at # "done" /\ result = NoResult /\ Certificate
      /\ reader' = reader /\ at' = at /\ stat' = stat /\ declared' = declared
      /\ stream' = stream /\ buffer' = buffer /\ chunks' = chunks /\ result' = result
  BY DEF ReadInv, LndWrites
<1>2. CASE source = Absent
  <2>1. source' = <<>>
    BY <1>2, <1>1 DEF LndWrites
  <2>2. at \notin {"download", "reading"}
    BY <1>1, <1>2, FileFacts DEF Certificate
  <2>3. Certificate'
    BY <1>1, <2>1, <2>2, FileFacts DEF Certificate
  <2>4. source' \in Seq(Data)
    BY <2>1, FileFacts
  <2> QED BY <1>1, <2>3, <2>4 DEF ReadInv, ReadTypes
<1>3. CASE source # Absent
  <2>1. source' = Append(source, "text") /\ source \in Seq({"text"})
    BY <1>1, <1>3 DEF LndWrites, Certificate
  <2>2. /\ source' \in Seq({"text"}) /\ source' \in Seq(Data) /\ Len(source) \in Nat
        /\ Len(source') = Len(source) + 1
        /\ \A i \in 1..Len(source) : source'[i] = source[i]
    BY <2>1, FileFacts
  <2>3. stat \in Nat /\ declared \in Nat
    BY <1>1 DEF ReadTypes
  <2>4. Unpacking => Unpacking'
    <3> SUFFICES ASSUME Unpacking PROVE Unpacking'
      OBVIOUS
    <3>1. stat' <= declared' /\ declared' <= Len(source')
      BY <1>1, <2>2, <2>3 DEF Unpacking
    <3>2. \A i \in 1..declared : source'[i] = source[i]
      BY <2>2, <2>3 DEF Unpacking
    <3>3. Block \in Nat
      BY ReadAssumption
    <3>4. \A i \in (Block + 1)..ArchiveLength(declared) :
            i <= Block + declared => source'[i - Block] = source[i - Block]
      BY <2>3, <3>2, <3>3
    <3> QED BY <1>1, <3>1, <3>4 DEF Unpacking, Sent, ArchiveLength, Padded
  <2>5. at \in {"download", "reading"} => stat <= Limit /\ stat <= Len(source')
    BY <1>1, <2>2, <2>3 DEF Certificate
  <2>6. Certificate'
    BY <1>1, <2>2, <2>4, <2>5 DEF Certificate
  <2> QED BY <1>1, <2>2, <2>6 DEF ReadInv, ReadTypes
<1> QED BY <1>2, <1>3

LEMMA StatStep ==
  ASSUME ReadInv, Stat \/ Again
  PROVE  ReadInv'
<1>1. /\ ReadTypes /\ reader = "certificate" /\ at \in {"stat", "pause"} /\ result = NoResult
      /\ Certificate /\ reader' = reader /\ source' = source /\ chunks' = chunks
  BY DEF ReadInv, Stat, Again
<1>2. /\ Len(source) \in Nat /\ <<>> \in Seq(Data) /\ Limit \in Nat
  <2>1. source \in Seq(Data)
    BY <1>1 DEF ReadTypes
  <2> QED BY <2>1, LenProperties, EmptySeq, ReadAssumption
<1>3. CASE Stat /\ at' = "pause" /\ UNCHANGED <<stat, result>>
  BY <1>1, <1>3 DEF Stat, ReadInv, ReadTypes, Certificate
<1>4. CASE Stat /\ source # Absent /\ Fits(Len(source)) /\ stat' = Len(source)
           /\ at' = "download" /\ UNCHANGED result
  <2>1. source \in Seq({"text"}) /\ Len(source) <= Limit /\ buffer = <<>> /\ buffer' = buffer
        /\ stream' = stream /\ declared' = declared
    BY <1>1, <1>4 DEF Stat, Certificate, Fits
  <2>2. Certificate'
    BY <1>1, <1>2, <1>4, <2>1 DEF Certificate
  <2>3. ReadTypes'
    BY <1>1, <1>2, <1>4, <2>1 DEF ReadTypes
  <2> QED BY <1>1, <1>4, <2>2, <2>3 DEF ReadInv
<1>5. CASE Stat /\ Ends("too large", <<>>) /\ UNCHANGED stat
  <2>1. at' = "done" /\ result' = [how |-> "too large", bytes |-> <<>>]
        /\ stat' = stat /\ stream' = stream /\ declared' = declared /\ buffer' = buffer
    BY <1>5 DEF Stat, Ends
  <2>2. BoundsAreExact' /\ FileIsAVersion'
    BY <1>1, <2>1 DEF BoundsAreExact, FileIsAVersion
  <2>3. Certificate'
    BY <1>1, <2>1 DEF Certificate
  <2> QED BY <1>1, <1>2, <2>1, <2>2, <2>3 DEF ReadInv, ReadTypes
<1>6. CASE Again
  <2>1. at' = "stat" /\ stat' = 0 /\ declared' = 0 /\ stream' = <<>> /\ buffer' = <<>>
        /\ result' = result
    BY <1>6 DEF Again
  <2> QED BY <1>1, <1>2, <2>1 DEF ReadInv, ReadTypes, Certificate
<1> QED BY <1>3, <1>4, <1>5, <1>6 DEF Stat

LEMMA DownloadStep ==
  ASSUME ReadInv, Download
  PROVE  ReadInv'
<1>0. CASE at' = "pause" /\ UNCHANGED <<stream, declared>>
  <2>1. /\ ReadTypes /\ reader = "certificate" /\ result = NoResult /\ Certificate
        /\ at = "download"
        /\ UNCHANGED <<reader, source, stat, declared, stream, buffer, chunks, result>>
    BY <1>0 DEF ReadInv, Download
  <2> QED BY <1>0, <2>1 DEF ReadInv, ReadTypes, Certificate
<1> SUFFICES ASSUME stream' = Archive(source), declared' = Len(source), at' = "reading"
             PROVE  ReadInv'
  BY <1>0 DEF Download
<1>1. /\ ReadTypes /\ reader = "certificate" /\ at = "download" /\ result = NoResult
      /\ source \in Seq({"text"}) /\ stat <= Limit /\ stat <= Len(source) /\ buffer = <<>>
      /\ stream' = Archive(source) /\ declared' = Len(source) /\ at' = "reading"
      /\ reader' = reader /\ source' = source /\ stat' = stat /\ buffer' = buffer
      /\ chunks' = chunks /\ result' = result
  BY DEF ReadInv, Download, Certificate
<1>2. Len(source) \in Nat /\ Len(buffer) = 0 /\ Block \in Nat /\ Block >= 1
  BY <1>1, FileFacts, EmptySeq, ReadAssumption
<1>3. /\ stream' \in Seq(Data) /\ Len(stream') = ArchiveLength(Len(source))
      /\ \A i \in (Block + 1)..ArchiveLength(Len(source)) :
           stream'[i] = IF i <= Block + Len(source) THEN source[i - Block] ELSE Zero
  BY <1>1, ArchiveFacts
<1>4. ArchiveLength(Len(source)) \in Nat
  BY <1>2, PaddedFacts
<1>5. Unpacking'
  <2>1. ArchiveLength(declared)' = ArchiveLength(Len(source))
    BY <1>1 DEF ArchiveLength, Padded
  <2>2. stat' <= declared' /\ declared' <= Len(source')
    BY <1>1, <1>2
  <2>3. Len(buffer') + Len(stream') = ArchiveLength(declared)'
    BY <1>1, <1>2, <1>3, <1>4, <2>1
  <2>4. ASSUME NEW i \in (Block + 1)..ArchiveLength(Len(source))
        PROVE  Sent(i)' = IF i <= Block + declared' THEN source'[i - Block] ELSE Zero
    <3>1. Sent(i)' = stream'[i]
      BY <1>1, <1>2, <1>4 DEF Sent
    <3> QED BY <1>1, <1>3, <3>1
  <2> QED BY <2>1, <2>2, <2>3, <2>4 DEF Unpacking
<1>6. Certificate'
  BY <1>1, <1>5 DEF Certificate
<1>7. ReadTypes'
  BY <1>1, <1>2, <1>3 DEF ReadTypes
<1> QED BY <1>1, <1>6, <1>7 DEF ReadInv

\* An archive of the size Docker told fits: the overhead holds its frame.
LEMMA ArchiveFits ==
  ASSUME NEW size \in Nat, size <= Limit
  PROVE  ArchiveLength(size) < Limit + Overhead
<1>1. /\ Padded(size) \in Nat /\ Padded(size) < size + Block
      /\ ArchiveLength(size) = Padded(size) + 3 * Block
  BY PaddedFacts
<1>2. Limit \in Nat /\ Block \in Nat /\ Overhead \in Nat /\ Overhead >= 4 * Block
  BY ReadAssumption
<1> QED BY <1>1, <1>2

LEMMA ArchiveChunkStep ==
  ASSUME ReadInv, ArchiveChunk
  PROVE  ReadInv'
<1>1. /\ ReadTypes /\ reader = "certificate" /\ at = "reading" /\ result = NoResult
      /\ Certificate /\ source \in Seq({"text"}) /\ stat <= Limit /\ stat <= Len(source)
      /\ Unpacking
      /\ reader' = reader /\ source' = source /\ stat' = stat /\ declared' = declared
      /\ chunks' = chunks
  BY DEF ReadInv, ArchiveChunk, Certificate
<1>2. /\ Len(buffer) \in Nat /\ Len(stream) \in Nat /\ Len(source) \in Nat
      /\ stat \in Nat /\ declared \in Nat /\ <<>> \in Seq(Data) /\ stream \in Seq(Data)
      /\ buffer \in Seq(Data)
  <2>1. buffer \in Seq(Data) /\ stream \in Seq(Data) /\ stat \in Nat /\ declared \in Nat
    BY <1>1 DEF ReadTypes
  <2> QED BY <1>1, <2>1, FileFacts, LenProperties, EmptySeq
<1>3. PICK n \in 1..Len(stream) :
        /\ stream' = Rest(n)
        /\ IF n > (Limit + Overhead) - Len(buffer)
           THEN Ends("invalid", <<>>) /\ UNCHANGED buffer
           ELSE buffer' = buffer \o Take(n) /\ UNCHANGED <<at, result>>
  BY DEF ArchiveChunk
<1>4. n \in Nat /\ n <= Len(stream) /\ n \in 0..Len(stream) /\ 0 \in 0..n
  BY <1>2
<1>5. stream' \in Seq(Data)
  BY <1>1, <1>3, <1>4, Moved
<1>6. ArchiveLength(declared) \in Nat /\ Len(buffer) + Len(stream) = ArchiveLength(declared)
  BY <1>1, <1>2, PaddedFacts DEF Unpacking
<1>7. CASE n > (Limit + Overhead) - Len(buffer)
  <2>1. at' = "done" /\ result' = [how |-> "invalid", bytes |-> <<>>] /\ buffer' = buffer
    BY <1>3, <1>7 DEF Ends
  <2>2. declared > stat
    <3>1. stat <= declared
      BY <1>1 DEF Unpacking
    <3>2. Limit \in Nat /\ Overhead \in Nat
      BY ReadAssumption
    <3>3. n + Len(buffer) <= ArchiveLength(declared)
      BY <1>2, <1>4, <1>6
    <3>4. Limit + Overhead < ArchiveLength(declared)
      BY <1>2, <1>4, <1>6, <1>7, <3>2, <3>3
    <3>5. declared # stat
      BY <1>1, <1>2, <1>6, <3>2, <3>4, ArchiveFits
    <3> QED BY <1>2, <3>1, <3>5
  <2>3. BoundsAreExact' /\ FileIsAVersion'
    BY <1>1, <2>1, <2>2 DEF BoundsAreExact, FileIsAVersion
  <2>4. Certificate'
    BY <1>1, <2>1 DEF Certificate
  <2>5. ReadTypes'
    BY <1>1, <1>2, <1>5, <2>1 DEF ReadTypes
  <2> QED BY <1>1, <2>1, <2>3, <2>4, <2>5 DEF ReadInv
<1>8. CASE ~(n > (Limit + Overhead) - Len(buffer))
  <2>1. buffer' = buffer \o Take(n) /\ at' = at /\ result' = result
    BY <1>3, <1>8
  <2>2. /\ buffer' \in Seq(Data)
        /\ Len(buffer') = Len(buffer) + n /\ Len(stream') = Len(stream) - n
        /\ \A i \in 1..(Len(buffer) + Len(stream)) : Sent(i)' = Sent(i)
    BY <1>1, <1>3, <1>4, <2>1, SentKept
  <2>3. Unpacking'
    <3>1. Block \in Nat
      BY ReadAssumption
    <3>2. \A i \in (Block + 1)..ArchiveLength(declared) :
            Sent(i)' = IF i <= Block + declared THEN source[i - Block] ELSE Zero
      BY <1>1, <1>6, <2>2, <3>1 DEF Unpacking
    <3>3. Len(buffer') + Len(stream') = ArchiveLength(declared)
      BY <1>2, <1>4, <1>6, <2>2
    <3>4. stat <= declared /\ declared <= Len(source)
      BY <1>1 DEF Unpacking
    <3> QED BY <1>1, <3>2, <3>3, <3>4 DEF Unpacking, Sent, ArchiveLength, Padded
  <2>4. Certificate'
    BY <1>1, <2>1, <2>3 DEF Certificate
  <2>5. ReadTypes'
    BY <1>1, <1>5, <2>1, <2>2 DEF ReadTypes
  <2> QED BY <1>1, <2>1, <2>4, <2>5 DEF ReadInv
<1> QED BY <1>7, <1>8

LEMMA ArchiveEndsStep ==
  ASSUME ReadInv, ArchiveEnds
  PROVE  ReadInv'
<1>1. /\ ReadTypes /\ reader = "certificate" /\ at = "reading" /\ result = NoResult
      /\ Certificate /\ source \in Seq({"text"}) /\ stat <= Limit /\ stat <= Len(source)
      /\ Unpacking
      /\ reader' = reader /\ source' = source /\ stat' = stat /\ declared' = declared
      /\ stream' = stream /\ buffer' = buffer /\ chunks' = chunks
  BY DEF ReadInv, ArchiveEnds, Certificate
<1>2. /\ Len(buffer) \in Nat /\ Len(stream) \in Nat /\ Len(source) \in Nat
      /\ stat \in Nat /\ declared \in Nat /\ <<>> \in Seq(Data) /\ stream \in Seq(Data)
      /\ buffer \in Seq(Data) /\ source \in Seq(Data) /\ Block \in Nat /\ Block >= 1
  <2>1. /\ buffer \in Seq(Data) /\ stream \in Seq(Data) /\ stat \in Nat /\ declared \in Nat
    BY <1>1 DEF ReadTypes
  <2> QED BY <1>1, <2>1, FileFacts, LenProperties, EmptySeq, ReadAssumption
<1>3. /\ ArchiveLength(declared) \in Nat /\ Len(buffer) + Len(stream) = ArchiveLength(declared)
      /\ \A i \in (Block + 1)..ArchiveLength(declared) :
           Sent(i) = IF i <= Block + declared THEN source[i - Block] ELSE Zero
  BY <1>1, <1>2, PaddedFacts DEF Unpacking
<1>4. \A i \in (Block + 1)..Len(buffer) :
        buffer[i] = IF i <= Block + declared THEN source[i - Block] ELSE Zero
  BY <1>2, <1>3 DEF Sent
<1>5. CASE ~Decodes
  <2>1. at' = "done" /\ result' = [how |-> "invalid", bytes |-> <<>>]
    BY <1>5 DEF ArchiveEnds, Ends
  <2>2. declared > stat \/ stream # <<>>
    <3> SUFFICES ASSUME declared = stat, stream = <<>> PROVE FALSE
      BY <1>1, <1>2 DEF Unpacking
    <3>1. Len(buffer) = ArchiveLength(stat)
      BY <1>2, <1>3, EmptySeq
    <3>2. /\ Padded(stat) \in Nat /\ ArchiveLength(stat) = Padded(stat) + 3 * Block
          /\ ArchiveLength(stat) % Block = 0
      BY <1>2, PaddedFacts
    <3>3. \A i \in (Block + stat + 1)..Len(buffer) : buffer[i] = Zero
      BY <1>2, <1>4
    <3>4. Len(buffer) >= (Block + Padded(stat)) + EndBlocks * Block
      BY <1>2, <3>1, <3>2 DEF EndBlocks
    <3>5. Framed
      BY <3>1, <3>2, <3>3, <3>4 DEF Framed
    <3> QED BY <1>1, <1>5, <3>5 DEF Decodes, Fits
  <2>3. BoundsAreExact' /\ FileIsAVersion'
    BY <1>1, <2>1, <2>2 DEF BoundsAreExact, FileIsAVersion
  <2>4. Certificate'
    BY <1>1, <2>1 DEF Certificate
  <2>5. ReadTypes'
    BY <1>1, <1>2, <2>1 DEF ReadTypes
  <2> QED BY <1>1, <2>1, <2>3, <2>4, <2>5 DEF ReadInv
<1>6. CASE Decodes /\ Contents = <<>>
  <2>1. at' = "pause" /\ result' = result
    BY <1>6 DEF ArchiveEnds
  <2>2. Certificate'
    BY <1>1, <2>1 DEF Certificate
  <2>3. ReadTypes'
    BY <1>1, <2>1 DEF ReadTypes
  <2> QED BY <1>1, <2>1, <2>2, <2>3 DEF ReadInv
<1>7. CASE Decodes /\ Contents # <<>>
  <2>1. at' = "done" /\ result' = [how |-> "ok", bytes |-> Contents]
    BY <1>7 DEF ArchiveEnds, Ends
  <2>2. declared = stat /\ Len(buffer) >= Block + stat
    <3>1. Len(buffer) >= (Block + Padded(stat)) + EndBlocks * Block /\ declared = stat
      BY <1>7 DEF Decodes, Framed
    <3>2. Padded(stat) \in Nat /\ stat <= Padded(stat)
      BY <1>2, PaddedFacts
    <3> QED BY <1>2, <3>1, <3>2 DEF EndBlocks
  <2>3. /\ Contents \in Seq(Data) /\ Len(Contents) = stat
        /\ \A i \in 1..stat : Contents[i] = buffer[Block + i]
    <3>1. \A i \in (Block + 1)..(Block + stat) : buffer[i] \in Data
      BY <1>2, <2>2, ElementOfSeq
    <3> DEFINE first == Block + 1
               last == Block + stat
               bytes == SubSeq(buffer, first, last)
    <3>2. first \in Int /\ last \in Int /\ \A i \in first..last : buffer[i] \in Data
      BY <1>2, <3>1
    <3>3. last - first + 1 = stat /\ (IF first <= last THEN last - first + 1 ELSE 0) = stat
          /\ \A i \in 1..stat : first + i - 1 = Block + i
      BY <1>2
    <3>4. Contents = bytes
      BY DEF Contents
    <3> HIDE DEF first, last
    <3>5. /\ bytes \in Seq(Data) /\ Len(bytes) = IF first <= last THEN last - first + 1 ELSE 0
          /\ \A i \in 1..(last - first + 1) : bytes[i] = buffer[first + i - 1]
      BY <3>2, SubSeqProperties
    <3> HIDE DEF bytes
    <3>6. bytes \in Seq(Data) /\ Len(bytes) = stat
      BY <3>3, <3>5
    <3>7. \A i \in 1..stat : bytes[i] = buffer[Block + i]
      BY <3>3, <3>5
    <3> QED BY <3>4, <3>6, <3>7
  <2>4. \A i \in 1..Len(Contents) : Contents[i] = source[i]
    <3> SUFFICES ASSUME NEW i \in 1..stat PROVE Contents[i] = source[i]
      BY <2>3
    <3>1. /\ Block + i \in (Block + 1)..Len(buffer)
          /\ Block + i <= Block + declared /\ (Block + i) - Block = i
      BY <1>2, <2>2
    <3> QED BY <1>4, <2>3, <3>1
  <2>5. IsPrefix(Contents, source)
    BY <1>1, <1>2, <2>3, <2>4, PrefixByIndex
  <2>6. Contents # <<>> /\ Len(Contents) <= Limit /\ Len(Contents) = declared
    BY <1>1, <1>7, <2>2, <2>3
  <2> DEFINE bytes == Contents
  <2>7. /\ result' = [how |-> "ok", bytes |-> bytes] /\ bytes \in Seq(Data)
        /\ bytes # <<>> /\ Len(bytes) <= Limit /\ IsPrefix(bytes, source) /\ Len(bytes) = declared
    BY <2>1, <2>3, <2>5, <2>6
  <2> HIDE DEF bytes
  <2>8. BoundsAreExact' /\ FileIsAVersion'
    BY <1>1, <2>7 DEF BoundsAreExact, FileIsAVersion
  <2>9. Certificate'
    BY <1>1, <2>1 DEF Certificate
  <2>10. ReadTypes'
    <3>1. at' = "done"
      BY <2>1
    <3> QED BY <1>1, <2>7, <3>1 DEF ReadTypes
  <2> QED BY <1>1, <2>1, <2>8, <2>9, <2>10 DEF ReadInv
<1> QED BY <1>5, <1>6, <1>7

LEMMA ReadFailsStep ==
  ASSUME ReadInv, Fails
  PROVE  ReadInv'
<1>1. /\ ReadTypes /\ at' = "done" /\ result' = [how |-> "failed", bytes |-> <<>>]
      /\ reader' = reader /\ source' = source /\ stat' = stat /\ declared' = declared
      /\ stream' = stream /\ buffer' = buffer /\ chunks' = chunks
      /\ reader = "certificate" => Certificate
  BY DEF ReadInv, Fails, Ends
<1>2. <<>> \in Seq(Data) /\ Len(<<>>) = 0 /\ Limit \in Nat
  BY EmptySeq, ReadAssumption
<1>3. BoundsAreExact' /\ FileIsAVersion'
  <2>1. result'.how = "failed" /\ Len(result'.bytes) <= Limit
    BY <1>1, <1>2
  <2> QED BY <1>1, <2>1 DEF BoundsAreExact, FileIsAVersion
<1>4. (reader = "certificate" => Certificate)'
  BY <1>1 DEF Certificate
<1>5. ReadTypes'
  BY <1>1, <1>2 DEF ReadTypes
<1> QED BY <1>1, <1>3, <1>4, <1>5 DEF ReadInv

LEMMA ReadStart == ReadInit => ReadInv
<1> SUFFICES ASSUME ReadInit PROVE ReadInv
  OBVIOUS
<1>1. source \in Seq(Data) /\ <<>> \in Seq(Data) /\ Len(<<>>) = 0
  BY FileFacts, EmptySeq DEF ReadInit, Texts, Logs, Data, Byte
<1>2. ReadTypes /\ buffer = <<>> /\ result = NoResult /\ at # "done"
  BY <1>1 DEF ReadInit, ReadTypes, NoResult
<1>3. CASE reader = "certificate"
  BY <1>2, <1>3 DEF ReadInit, ReadInv, Certificate
<1>4. CASE reader # "certificate"
  <2>1. stream = source /\ Len(source) \in Nat /\ Limit \in Nat /\ at = "reading"
    BY <1>1, <1>4, LenProperties, ReadAssumption DEF ReadInit
  <2>2. Streaming
    BY <1>1, <1>2, <2>1 DEF Streaming, Sent
  <2> QED BY <1>2, <1>4, <2>1, <2>2 DEF ReadInv
<1> QED BY <1>3, <1>4

LEMMA ReadStep == ReadInv /\ [ReadNext]_readVars => ReadInv'
<1> SUFFICES ASSUME ReadInv, [ReadNext]_readVars PROVE ReadInv'
  OBVIOUS
<1>1. CASE Terminated \/ UNCHANGED readVars
  BY <1>1 DEF Terminated, readVars, ReadInv, ReadTypes, Certificate, Streaming, Unpacking, Sent,
     ArchiveLength, Padded, BoundsAreExact, FileIsAVersion
<1> QED BY <1>1, ResponseStep, LogStep, LndWritesStep, StatStep, DownloadStep, ArchiveChunkStep,
        ArchiveEndsStep, ReadFailsStep DEF ReadNext

LEMMA ReadAlways == ReadSpec => []ReadInv
BY ReadStart, ReadStep, PTL DEF ReadSpec

LEMMA ReadInvImplies == ReadInv => BoundsAreExact /\ FileIsAVersion
<1> SUFFICES ASSUME ReadInv, at # "done" PROVE BoundsAreExact /\ FileIsAVersion
  BY DEF ReadInv
<1>1. result.how = "none" /\ result.bytes = <<>> /\ Len(<<>>) = 0 /\ Limit \in Nat
  BY EmptySeq, ReadAssumption DEF ReadInv, NoResult
<1>2. Len(result.bytes) <= Limit
  BY <1>1
<1> QED BY <1>1, <1>2 DEF BoundsAreExact, FileIsAVersion

\* A response is refused exactly when it is longer than the limit and is whole
\* otherwise, and a log's sample is the whole log or whole first lines of one
\* that reached a bound: however the peer cuts what it sends into chunks.
THEOREM BoundsAreExactAlways == ReadSpec => []BoundsAreExact
BY ReadAlways, ReadInvImplies, PTL

\* The certificate that is taken is what the file held at one moment, whatever
\* LND wrote between Docker's answers; an archive is given up only when the file
\* had grown since, or the archive broke off.
THEOREM FileIsAVersionAlways == ReadSpec => []FileIsAVersion
BY ReadAlways, ReadInvImplies, PTL
===============================================================================
