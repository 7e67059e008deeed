--------------------------- MODULE TestHarnessProofs ---------------------------
(***************************************************************************)
(* Proofs about TestHarness, for any number of parameters and any height   *)
(* of the initial mining: who mines at the same time, what the body of a   *)
(* test finds, and which verdict a test can get without its body.          *)
(*                                                                         *)
(* The invariant has a part for each slot (StartInv) and one for the       *)
(* wrapper (WrapInv). A step of a start changes one slot; the wrapper      *)
(* sees of it only how phase and stack move (Moves).                       *)
(***************************************************************************)
EXTENDS TestHarness, WellFoundedInduction, TLAPS

Services == {"node", "esplora", "electrum"}

Phase == SingleCalls \union {"idle", "connecting", "rootRpc", "permit", "mining",
                             "sync", "unwinding", "ok", "error"}

Working == SingleCalls \union {"rootRpc", "permit", "mining", "sync", "ok"}

BeforeMining == {"idle", "connecting", "containers", "rootRpc", "wallet", "rescan",
                 "address", "permit"}

Types ==
  /\ kind \in [Slot -> Kind \union {"none"}]
  /\ phase \in [Slot -> Phase]
  /\ call \in [Slot -> {"none", "sent", "executing", "mined"}]
  /\ height \in [Slot -> Int]
  /\ esplora \in [Slot -> Int]
  /\ electrum \in [Slot -> Int]
  /\ reading \in [Slot -> [Services -> Int]]
  /\ stack \in [Slot -> {"none", "present", "removing", "over"}]

\* A node's height, its indexer's, and the call that makes it.
Chain(f) ==
  /\ height[f] > Target(f) =>
       kind[f] = "Pair" /\ phase[f] \in {"dependent", "ok", "unwinding", "error"}
  /\ call[f] = "mined" <=> height[f] >= Target(f)
  /\ electrum[f] <= esplora[f] /\ esplora[f] <= height[f]
  /\ phase[f] \in BeforeMining => call[f] = "none"
  /\ phase[f] = "dependent" => kind[f] = "Pair"
  /\ phase[f] \in {"electrs", "sync", "dependent", "ok"} => call[f] = "mined"

\* What the readings of a round say about the tips of this moment.
Readings(f) ==
  /\ phase[f] \notin {"sync", "unwinding", "error"} => reading[f] = AllOpen
  /\ phase[f] = "sync" => /\ reading[f]["node"] \in {Open, Unavailable, Target(f)}
                          /\ reading[f]["esplora"] <= esplora[f] \/ reading[f]["esplora"] \in {Open, Unavailable}
                          /\ reading[f]["electrum"] <= electrum[f] \/ reading[f]["electrum"] \in {Open, Unavailable}
  /\ phase[f] \in {"dependent", "ok"} => esplora[f] >= Target(f) /\ electrum[f] >= Target(f)

\* A Bitcoin mining call that is waited for has the permit.
Gate(f) == kind[f] # "Liquid" /\ phase[f] = "mining" => permit = f

Up(f) == phase[f] \in Working \ {"ok"} => stack[f] = "present"

SlotInv(f) == Chain(f) /\ Readings(f) /\ Gate(f) /\ Up(f)

StartInv == Types /\ \A f \in Slot : SlotInv(f)

-------------------------------------------------------------------------------
(* A step of the start in slot f.                                          *)

LEMMA SlotFacts ==
  /\ Nobody \notin Slot
  /\ \A f \in Slot : Target(f) \in Nat \ {0}
BY StartupAssumption DEF Nobody, Slot, Target

\* What the step leaves of another slot.
OthersKept(f) ==
  \A g \in Slot \ {f} :
    /\ kind'[g] = kind[g] /\ phase'[g] = phase[g] /\ call'[g] = call[g]
    /\ height'[g] = height[g] /\ esplora'[g] = esplora[g] /\ electrum'[g] = electrum[g]
    /\ reading'[g] = reading[g] /\ stack'[g] = stack[g]
    /\ permit = g => permit' = g

LEMMA OthersInv ==
  ASSUME NEW f \in Slot, NEW g \in Slot \ {f}, SlotInv(g), OthersKept(f)
  PROVE  SlotInv(g)'
BY DEF OthersKept, SlotInv, Chain, Readings, Gate, Up, Target

LEMMA GateKept ==
  ASSUME NEW f \in Slot, LeaveGate(f) \/ JoinGate(f) \/ UNCHANGED gateVars
  PROVE  \A g \in Slot \ {f} : permit = g => permit' = g
BY SlotFacts DEF LeaveGate, JoinGate, HandOn, gateVars

LEMMA FailStep ==
  ASSUME NEW f \in Slot, StartInv, Fail(f)
  PROVE  StartInv'
<1> USE DEF StartInv, Types
<1>1. Types'
  BY DEF Fail, Becomes, chainVars, Phase, SingleCalls
<1>2. OthersKept(f)
  BY GateKept DEF Fail, Becomes, chainVars, OthersKept
<1>3. SlotInv(f)'
  BY DEF Fail, Becomes, chainVars, SlotInv, Chain, Readings, Gate, Up, Working, BeforeMining,
     SingleCalls, Target
<1> QED BY <1>1, <1>2, <1>3, OthersInv

LEMMA ConnectStep ==
  ASSUME NEW f \in Slot, StartInv, Connect(f)
  PROVE  StartInv'
<1> USE DEF StartInv, Types
<1>1. Types'
  BY DEF Connect, Becomes, chainVars, Phase, SingleCalls
<1>2. OthersKept(f)
  BY GateKept DEF Connect, Becomes, chainVars, gateVars, OthersKept
<1>3. SlotInv(f)'
  BY DEF Connect, Becomes, chainVars, SlotInv, Chain, Readings, Gate, Up, Working, BeforeMining,
     SingleCalls, Target
<1> QED BY <1>1, <1>2, <1>3, OthersInv

LEMMA AdvanceStep ==
  ASSUME NEW f \in Slot, StartInv, Advance(f)
  PROVE  StartInv'
<1> USE DEF StartInv, Types
<1>1. Following(f) \in Phase
  BY DEF Following, Phase, SingleCalls
<1>2. Types'
  BY <1>1 DEF Advance, Becomes
<1>3. OthersKept(f)
  BY GateKept DEF Advance, Becomes, OthersKept
<1>4. \/ phase[f] \in BeforeMining \ {"idle", "connecting"} /\ Following(f) \in BeforeMining
      \/ phase[f] = "address" /\ kind[f] = "Liquid" /\ Following(f) = "mining"
      \/ phase[f] = "electrs" /\ Following(f) = "sync"
      \/ phase[f] = "dependent" /\ Following(f) = "ok"
  BY DEF Advance, Following, SingleCalls, BeforeMining
<1>5. /\ phase'[f] = Following(f) /\ stack'[f] = stack[f]
      /\ call'[f] = (IF Following(f) = "mining" THEN "sent" ELSE call[f])
      /\ UNCHANGED <<kind, height, esplora, electrum, reading>>
  BY DEF Advance, Becomes
<1>6. SlotInv(f)
  OBVIOUS
<1>7. Chain(f)' /\ Readings(f)'
  <2> HIDE DEF StartInv, Types
  <2>1. Chain(f)'
    BY <1>4, <1>5, <1>6 DEF SlotInv, Chain, BeforeMining, Target
  <2>2. AllOpen["node"] = Open /\ AllOpen["esplora"] = Open /\ AllOpen["electrum"] = Open
    BY DEF AllOpen
  <2>3. phase[f] \in BeforeMining \union {"electrs"} => reading[f] = AllOpen
    BY <1>6 DEF SlotInv, Readings, BeforeMining
  <2>4. CASE phase[f] # "dependent"
    BY <1>4, <1>5, <2>1, <2>2, <2>3, <2>4 DEF Readings, BeforeMining
  <2>5. CASE phase[f] = "dependent"
    BY <1>4, <1>5, <1>6, <2>1, <2>5 DEF SlotInv, Readings, Target, BeforeMining
  <2> QED BY <2>4, <2>5
<1>8. Gate(f)' /\ Up(f)'
  <2> HIDE DEF StartInv, Types
  <2> QED BY <1>4, <1>5, <1>6 DEF SlotInv, Gate, Up, Working, SingleCalls, BeforeMining
<1> QED BY <1>2, <1>3, <1>7, <1>8, OthersInv DEF SlotInv

LEMMA UnwindStep ==
  ASSUME NEW f \in Slot, StartInv, UnwindReturns(f)
  PROVE  StartInv'
<1> USE DEF StartInv, Types, UnwindReturns
<1>1. Types'
  BY DEF Becomes, chainVars, Phase
<1>2. OthersKept(f)
  BY GateKept DEF Becomes, chainVars, gateVars, OthersKept
<1>3. SlotInv(f)'
  BY DEF Becomes, chainVars, gateVars, SlotInv, Chain, Readings, Gate, Up, Working, BeforeMining, SingleCalls, Target
<1> QED BY <1>1, <1>2, <1>3, OthersInv

LEMMA PermitStep ==
  ASSUME NEW f \in Slot, StartInv, TakePermit(f)
  PROVE  StartInv'
<1> USE DEF StartInv, Types, TakePermit
<1>1. Types'
  BY DEF Becomes, Following, Phase
<1>2. OthersKept(f)
  BY GateKept DEF Becomes, HoldPermit, gateVars, OthersKept
<1>3. SlotInv(f)'
  BY DEF Becomes, Following, HoldPermit, gateVars, SlotInv, Chain, Readings, Gate, Up, Working, BeforeMining, SingleCalls, Target
<1> QED BY <1>1, <1>2, <1>3, OthersInv

LEMMA BeginStep ==
  ASSUME NEW f \in Slot, StartInv, NodeBegins(f)
  PROVE  StartInv'
<1> USE DEF StartInv, Types, NodeBegins
<1>1. Types'
  BY DEF chainVars
<1>2. OthersKept(f)
  BY GateKept DEF gateVars, OthersKept
<1>3. SlotInv(f)'
  BY DEF gateVars, SlotInv, Chain, Readings, Gate, Up, Working, BeforeMining, SingleCalls, Target
<1> QED BY <1>1, <1>2, <1>3, OthersInv

LEMMA MineStep ==
  ASSUME NEW f \in Slot, StartInv, NodeMines(f)
  PROVE  StartInv'
<1> USE DEF StartInv, Types, NodeMines
<1>1. Types'
  BY DEF chainVars
<1>2. OthersKept(f)
  BY GateKept DEF gateVars, OthersKept
<1>3. Target(f) \in Nat /\ Target(f)' = Target(f)
  BY SlotFacts DEF Target
<1>4. phase[f] \notin {"electrs", "sync", "dependent", "ok"} \union BeforeMining
  BY DEF SlotInv, Chain
<1>5. /\ height'[f] = height[f] + 1 /\ esplora' = esplora /\ electrum' = electrum
      /\ call'[f] = (IF height[f] + 1 = Target(f) THEN "mined" ELSE "executing")
      /\ phase' = phase
  OBVIOUS
<1>6. /\ height[f] \in Int /\ esplora[f] \in Int /\ electrum[f] \in Int
      /\ call[f] = "executing" /\ Chain(f)
  BY DEF SlotInv
<1>7. height[f] < Target(f) /\ electrum[f] <= esplora[f] /\ esplora[f] <= height[f]
  <2> HIDE DEF StartInv, Types, NodeMines
  <2> QED BY <1>3, <1>6 DEF Chain
<1>8. Chain(f)'
  <2> HIDE DEF StartInv, Types, NodeMines
  <2> QED BY <1>3, <1>4, <1>5, <1>6, <1>7 DEF Chain
<1>9. Readings(f)' /\ Gate(f)' /\ Up(f)'
  <2>1. Readings(f) /\ Gate(f) /\ Up(f)
    BY DEF SlotInv
  <2>2. UNCHANGED <<kind, phase, gateVars, esplora, electrum, reading, stack>>
    OBVIOUS
  <2> HIDE DEF StartInv, Types, NodeMines
  <2>3. Readings(f)'
    BY <1>3, <1>4, <2>1, <2>2 DEF Readings
  <2> QED BY <2>1, <2>2, <2>3 DEF Gate, Up, gateVars
<1> QED BY <1>1, <1>2, <1>8, <1>9, OthersInv DEF SlotInv

LEMMA AnswerStep ==
  ASSUME NEW f \in Slot, StartInv, MiningAnswered(f)
  PROVE  StartInv'
<1> USE DEF StartInv, Types, MiningAnswered
<1>1. Types'
  BY DEF Becomes, chainVars, Following, Phase, SingleCalls
<1>2. OthersKept(f)
  BY GateKept DEF Becomes, chainVars, OthersKept
<1>3. SlotInv(f)'
  BY DEF Becomes, Following, chainVars, AllOpen, Open, SlotInv, Chain, Readings, Gate, Up, Working, BeforeMining, SingleCalls, Target
<1> QED BY <1>1, <1>2, <1>3, OthersInv

LEMMA IndexStep ==
  ASSUME NEW f \in Slot, StartInv, Indexes(f)
  PROVE  StartInv'
<1> USE DEF StartInv, Types, Indexes
<1>1. Types'
  BY DEF chainVars
<1>2. OthersKept(f)
  BY GateKept DEF gateVars, OthersKept
<1>3. Target(f) \in Nat /\ Target(f)' = Target(f)
  BY SlotFacts DEF Target
<1>4. /\ kind' = kind /\ height' = height /\ call' = call /\ phase' = phase
      /\ reading' = reading
      /\ \/ esplora'[f] = esplora[f] + 1 /\ electrum' = electrum /\ esplora[f] < height[f]
         \/ electrum'[f] = electrum[f] + 1 /\ esplora' = esplora /\ electrum[f] < esplora[f]
  OBVIOUS
<1>5. /\ height[f] \in Int /\ esplora[f] \in Int /\ electrum[f] \in Int
      /\ \A s \in Services : reading[f][s] \in Int
      /\ Chain(f) /\ Readings(f)
  BY DEF SlotInv
<1>6. Chain(f)' /\ Readings(f)'
  <2> HIDE DEF StartInv, Types, Indexes
  <2>1. Chain(f)'
    BY <1>3, <1>4, <1>5 DEF Chain
  <2> QED BY <1>3, <1>4, <1>5, <2>1 DEF Chain, Readings, Services
<1>7. Gate(f)' /\ Up(f)'
  BY DEF SlotInv, Gate, Up, gateVars
<1> QED BY <1>1, <1>2, <1>6, <1>7, OthersInv DEF SlotInv

LEMMA RemovalStep ==
  ASSUME NEW f \in Slot, StartInv, RemovalEnds(f)
  PROVE  StartInv'
<1> USE DEF StartInv, Types, RemovalEnds
<1>1. Types'
  BY DEF chainVars
<1>2. OthersKept(f)
  BY GateKept DEF chainVars, gateVars, OthersKept
<1>3. SlotInv(f)'
  BY DEF gateVars, chainVars, SlotInv, Chain, Readings, Gate, Up, Working, BeforeMining, SingleCalls, Target
<1> QED BY <1>1, <1>2, <1>3, OthersInv

LEMMA DependentStep ==
  ASSUME NEW f \in Slot, StartInv, DependentMines(f)
  PROVE  StartInv'
<1> USE DEF StartInv, Types, DependentMines
<1>1. Types'
  OBVIOUS
<1>2. OthersKept(f)
  BY DEF gateVars, OthersKept
<1>3. Target(f) \in Nat /\ Target(f)' = Target(f)
  BY SlotFacts DEF Target
<1>4. /\ phase[f] = "dependent" /\ height'[f] = height[f] + 1 /\ height[f] \in Int
      /\ esplora[f] \in Int /\ kind[f] = "Pair"
      /\ UNCHANGED <<kind, phase, permit, call, esplora, electrum, reading, stack>>
  BY DEF gateVars, SlotInv, Chain
<1>5. Chain(f)'
  <2>1. Chain(f) /\ call[f] = "mined"
    BY <1>4 DEF SlotInv, Chain
  <2> HIDE DEF StartInv, Types, DependentMines
  <2> QED BY <1>3, <1>4, <2>1 DEF Chain, BeforeMining
<1>6. Readings(f)' /\ Gate(f)' /\ Up(f)'
  <2>1. Readings(f) /\ Gate(f) /\ Up(f)
    BY DEF SlotInv
  <2> HIDE DEF StartInv, Types, DependentMines
  <2> QED BY <1>3, <1>4, <2>1 DEF Readings, Gate, Up
<1> QED BY <1>1, <1>2, <1>5, <1>6, OthersInv DEF SlotInv

\* A round in which the three services name one height, which is the node's.
LEMMA AgreeFacts ==
  ASSUME NEW f \in Slot, Types, SlotInv(f), phase[f] = "sync",
         NEW round \in [Services -> Int],
         \A s \in Services : round[s] # Open /\ round[s] # Unavailable,
         round["node"] \in {Open, Unavailable, Target(f)},
         round["esplora"] <= esplora[f] \/ round["esplora"] \in {Open, Unavailable},
         round["electrum"] <= electrum[f] \/ round["electrum"] \in {Open, Unavailable},
         Agree(round)
  PROVE  esplora[f] >= Target(f) /\ electrum[f] >= Target(f)
<1>1. Target(f) \in Nat
  BY SlotFacts
<1>2. round["esplora"] = round["node"] /\ round["electrum"] = round["node"]
  BY DEF Agree
<1>3. round["node"] = Target(f) /\ Target(f) <= esplora[f] /\ Target(f) <= electrum[f]
  BY <1>2 DEF Services
<1>4. electrum[f] \in Int /\ esplora[f] \in Int
  BY DEF Types
<1> QED BY <1>1, <1>3, <1>4

LEMMA ReadStep ==
  ASSUME NEW f \in Slot, StartInv, Read(f)
  PROVE  StartInv'
<1> USE DEF StartInv
<1>1. PICK service \in Services : \E tip \in {Unavailable, Tips(f)[service]} :
        /\ reading[f][service] = Open
        /\ JoinRound(f, [reading[f] EXCEPT ![service] = tip])
  BY DEF Read, Services, AllOpen
<1>2. PICK tip \in {Unavailable, Tips(f)[service]} :
        JoinRound(f, [reading[f] EXCEPT ![service] = tip])
  BY <1>1
<1> DEFINE round == [reading[f] EXCEPT ![service] = tip]
<1>3. /\ phase[f] = "sync"
      /\ UNCHANGED <<kind, permit, call, height, esplora, electrum, stack>>
  BY DEF Read, gateVars, chainVars
<1>4. tip \in Int
  BY DEF Types, Tips, Services, Unavailable
<1>5. round \in [Services -> Int]
  BY <1>4 DEF Types
<1>6. /\ round["node"] \in {Open, Unavailable, Target(f)}
      /\ round["esplora"] <= esplora[f] \/ round["esplora"] \in {Open, Unavailable}
      /\ round["electrum"] <= electrum[f] \/ round["electrum"] \in {Open, Unavailable}
  <2>1. reading[f] \in [Services -> Int]
    BY DEF Types
  <2>2. /\ round["node"] = (IF service = "node" THEN tip ELSE reading[f]["node"])
        /\ round["esplora"] = (IF service = "esplora" THEN tip ELSE reading[f]["esplora"])
        /\ round["electrum"] = (IF service = "electrum" THEN tip ELSE reading[f]["electrum"])
    BY <2>1 DEF Services
  <2>3. /\ service = "node" => tip \in {Unavailable, Target(f)}
        /\ service = "esplora" => tip \in {Unavailable, esplora[f]}
        /\ service = "electrum" => tip \in {Unavailable, electrum[f]}
    <3>1. height[f] = Target(f)
      <4>1. Chain(f) /\ height[f] \in Int /\ Target(f) \in Nat
        BY SlotFacts DEF SlotInv, Types
      <4> HIDE DEF StartInv
      <4> QED BY <1>3, <4>1 DEF Chain
    <3> QED BY <1>3, <3>1 DEF Tips
  <2>4. esplora[f] \in Int /\ electrum[f] \in Int
    BY DEF Types
  <2>5. Readings(f)
    BY DEF SlotInv
  <2> QED BY <1>3, <2>2, <2>3, <2>4, <2>5 DEF Readings
<1> HIDE DEF round
<1>7. CASE /\ reading' = [reading EXCEPT ![f] = round]
           /\ UNCHANGED phase
  <2>1. Types'
    BY <1>3, <1>5, <1>7 DEF Types
  <2>2. OthersKept(f)
    BY <1>3, <1>7 DEF OthersKept, Types
  <2>3. SlotInv(f)'
    BY <1>3, <1>5, <1>6, <1>7 DEF SlotInv, Chain, Readings, Gate, Up, Types, Target
  <2> QED BY <2>1, <2>2, <2>3, OthersInv
<1>8. CASE /\ reading' = [reading EXCEPT ![f] = AllOpen]
           /\ UNCHANGED phase
  <2>1. Types'
    BY <1>3, <1>8 DEF Types, AllOpen, Open, Services
  <2>2. OthersKept(f)
    BY <1>3, <1>8 DEF OthersKept, Types
  <2>3. SlotInv(f)'
    BY <1>3, <1>8 DEF SlotInv, Chain, Readings, Gate, Up, Types, Target, AllOpen
  <2> QED BY <2>1, <2>2, <2>3, OthersInv
<1>9. CASE /\ reading' = [reading EXCEPT ![f] = AllOpen]
           /\ Becomes(f, Following(f))
           /\ \A s \in Services : round[s] # Open /\ round[s] # Unavailable
           /\ Agree(round)
  <2>0. esplora[f] >= Target(f) /\ electrum[f] >= Target(f)
    BY <1>3, <1>5, <1>6, <1>9, AgreeFacts
  <2>1. Types'
    BY <1>3, <1>9 DEF Types, AllOpen, Open, Services, Becomes, Following, Phase, SingleCalls
  <2>2. OthersKept(f)
    BY <1>3, <1>9 DEF OthersKept, Types, Becomes
  <2>3. SlotInv(f)'
    BY <1>3, <1>9, <2>0 DEF SlotInv, Chain, Readings, Gate, Up, Types, Target, AllOpen,
       Becomes, Following, BeforeMining, Working, SingleCalls
  <2> QED BY <2>1, <2>2, <2>3, OthersInv
<1>10. DOMAIN round = Services
  BY <1>5
<1> QED BY <1>2, <1>7, <1>8, <1>9, <1>10 DEF JoinRound, round

LEMMA StartStep ==
  ASSUME NEW f \in Slot, StartInv, StartupStep(f)
  PROVE  StartInv'
BY ConnectStep, AdvanceStep, FailStep, UnwindStep, PermitStep, BeginStep, MineStep, AnswerStep,
   IndexStep, ReadStep, DependentStep, RemovalStep
DEF StartupStep, CallFails, DeadlinePasses, MiningFails

-------------------------------------------------------------------------------
(* What the wrapper sees of such a step.                                   *)

Moves(f) ==
  /\ UNCHANGED kind
  /\ \A g \in Slot \ {f} : phase'[g] = phase[g] /\ stack'[g] = stack[g]
  /\ phase'[f] = phase[f] \/ (~Returned(f) /\ phase[f] # "idle" /\ phase'[f] # "idle")
  /\ phase'[f] = "ok" => \/ stack'[f] = "present"
                         \/ phase[f] = "ok" /\ stack[f] # "present"

LEMMA StartMoves ==
  ASSUME NEW f \in Slot, StartInv, StartupStep(f)
  PROVE  Moves(f)
<1> USE DEF Moves, Returned
<1>1. /\ kind \in [Slot -> Kind \union {"none"}] /\ phase \in [Slot -> Phase]
      /\ stack \in [Slot -> {"none", "present", "removing", "over"}]
      /\ Up(f)
  BY DEF StartInv, Types, SlotInv
<1>2. CASE Connect(f)
  BY <1>1, <1>2 DEF Connect, Becomes
<1>3. CASE Advance(f)
  BY <1>1, <1>3 DEF Advance, Becomes, Following, SingleCalls, Up, Working
<1>4. CASE CallFails(f) \/ DeadlinePasses(f) \/ MiningFails(f)
  BY <1>1, <1>4 DEF CallFails, DeadlinePasses, MiningFails, Fail, Becomes, SingleCalls
<1>5. CASE UnwindReturns(f)
  BY <1>1, <1>5 DEF UnwindReturns, Becomes
<1>6. CASE TakePermit(f)
  BY <1>1, <1>6 DEF TakePermit, Becomes, Following
<1>7. CASE NodeBegins(f) \/ NodeMines(f) \/ Indexes(f) \/ DependentMines(f)
  BY <1>1, <1>7 DEF NodeBegins, NodeMines, Indexes, DependentMines
<1>8. CASE MiningAnswered(f)
  BY <1>1, <1>8 DEF MiningAnswered, Becomes, Following
<1>9. CASE Read(f)
  BY <1>1, <1>9 DEF Read, JoinRound, Becomes, Following, Up, Working
<1>10. CASE RemovalEnds(f)
  BY <1>1, <1>10 DEF RemovalEnds
<1> QED
  BY <1>2, <1>3, <1>4, <1>5, <1>6, <1>7, <1>8, <1>9, <1>10 DEF StartupStep

-------------------------------------------------------------------------------
(* The wrapper.                                                            *)

\* The signature, its parameters and the wrapper's own variables.
Signed ==
  /\ Accepts(sig)
  /\ Params \in Nat /\ Params <= MaxParams /\ (Params = 0 => sig.params = <<>>)
  /\ \A f \in Slot : kind[f] # "none" <=> f <= Params
  /\ test \in {"entered", "starting", "binding", "body", "dropping", "over"}
  /\ slot \in Nat \ {0} /\ (test \in {"entered", "starting"} => slot = 1)
  /\ panicked \in BOOLEAN
  /\ ran \in BOOLEAN

\* How far the starts are when the wrapper is somewhere.
Joined ==
  \A f \in Slot :
    /\ f \notin Used \/ test = "entered" => phase[f] = "idle"
    /\ f \in Used /\ test \notin {"entered", "starting"} => Returned(f)
    /\ f \in Used /\ (test = "body" \/ (test = "binding" /\ f < slot)) => phase[f] = "ok"

\* Nothing that is up is taken down before the body, nor a single fixture by it.
Kept ==
  \A f \in Slot :
    phase[f] = "ok" /\ (test \in {"starting", "binding"} \/ (test = "body" /\ kind[f] # "Pair"))
      => stack[f] = "present"

\* Without a body there was a fixture to start, and a panic.
Judged ==
  /\ test = "body" => ran
  /\ test \in {"dropping", "over"} => ran \/ (panicked /\ sig.params # <<>>)

HInv == StartInv /\ Signed /\ Joined /\ Kept /\ Judged

LEMMA StartupStepInv ==
  ASSUME HInv, NEW f \in Slot, StartupStep(f), UNCHANGED testVars
  PROVE  HInv'
<1>1. StartInv' /\ Moves(f)
  BY StartStep, StartMoves DEF HInv
<1>2. UNCHANGED <<sig, test, slot, drops, panicked, ran>>
  BY DEF testVars
<1>3. Signed' /\ Judged'
  BY <1>1, <1>2 DEF HInv, Signed, Judged, Moves, Params
<1>4. Joined'
  BY <1>1, <1>2 DEF HInv, Joined, Moves, Used, Returned
<1>5. Kept'
  BY <1>1, <1>2 DEF HInv, Kept, Moves
<1> QED BY <1>1, <1>3, <1>4, <1>5 DEF HInv

LEMMA HInit == Init => HInv
<1> SUFFICES ASSUME Init PROVE HInv
  OBVIOUS
<1>1. /\ sig.params \in Seq(Kind \union {Refused}) /\ Len(sig.params) <= MaxParams
      /\ Accepts(sig) /\ MaxParams \in Nat
  BY SignatureAssumption, StartupAssumption DEF Init
<1>2. \A f \in Slot : /\ f \in DOMAIN sig.params <=> f <= Params
                      /\ kind[f] = (IF f \in DOMAIN sig.params THEN sig.params[f] ELSE "none")
                      /\ f \in DOMAIN sig.params => sig.params[f] \in Kind
  BY <1>1 DEF Init, Slot, Params, Accepts
<1>3. kind \in [Slot -> Kind \union {"none"}]
  BY <1>2 DEF Init
<1>4. Types
  BY <1>3 DEF Init, StartupInit, Types, Phase, AllOpen, Open, Services
<1>5. \A f \in Slot : SlotInv(f)
  BY <1>3, SlotFacts DEF Init, StartupInit, SlotInv, Chain, Readings, Gate, Up, Working,
     BeforeMining, SingleCalls
<1>6. Signed
  <2>1. Params \in Nat /\ Params <= MaxParams /\ (Params = 0 => sig.params = <<>>)
    BY <1>1 DEF Params
  <2>2. \A f \in Slot : kind[f] # "none" <=> f <= Params
    BY <1>2 DEF Kind
  <2>3. panicked \in BOOLEAN /\ ran \in BOOLEAN
    BY DEF Init
  <2>4. test = "entered" /\ slot = 1
    BY DEF Init
  <2> QED BY <1>1, <2>1, <2>2, <2>3, <2>4 DEF Signed
<1>7. Joined /\ Kept /\ Judged
  BY DEF Init, StartupInit, Joined, Kept, Judged
<1> QED BY <1>4, <1>5, <1>6, <1>7 DEF HInv, StartInv

\* Steps of the wrapper that leave the starts alone.
LEMMA SameStarts == StartInv /\ UNCHANGED startupVars => StartInv'
BY DEF startupVars, StartInv, Types, SlotInv, Chain, Readings, Gate, Up, Target

\* A stack is taken down when no start is under way any more.
LEMMA TeardownInv ==
  ASSUME HInv, NEW h, Teardown(h), test \in {"body", "dropping"},
         UNCHANGED <<kind, phase, expired, gateVars, chainVars, reading, testVars>>,
         test = "body" => h \in Slot /\ kind[h] = "Pair"
  PROVE  HInv'
<1>1. UNCHANGED <<kind, phase, permit, call, height, esplora, electrum, reading, sig, test,
                  slot, panicked, ran>>
  BY DEF gateVars, chainVars, testVars
<1>2. stack \in [Slot -> {"none", "present", "removing", "over"}]
  BY DEF HInv, StartInv, Types
<1>3. Types'
  BY <1>1, <1>2 DEF HInv, StartInv, Types, Teardown
<1>4. \A f \in Slot : Chain(f)' /\ Readings(f)' /\ Gate(f)'
  BY <1>1 DEF HInv, StartInv, SlotInv, Chain, Readings, Gate, Target
<1>5. \A f \in Slot : Up(f)'
  BY <1>1 DEF HInv, Joined, Up, Working, SingleCalls, Returned
<1>6. Kept'
  BY <1>1, <1>2 DEF HInv, Kept, Teardown
<1>7. Signed' /\ Joined' /\ Judged'
  BY <1>1 DEF HInv, Signed, Joined, Judged, Params, Used, Returned
<1> QED BY <1>3, <1>4, <1>5, <1>6, <1>7 DEF HInv, StartInv, SlotInv

LEMMA HStep == HInv /\ [Next]_vars => HInv'
<1> SUFFICES ASSUME HInv, [Next]_vars PROVE HInv'
  OBVIOUS
<1>1. ASSUME NEW f \in Slot, StartupStep(f), UNCHANGED testVars PROVE HInv'
  BY <1>1, StartupStepInv
<1>2. CASE StartAll
  <2>1. UNCHANGED <<kind, permit, call, height, esplora, electrum, reading, stack, sig, slot,
                    panicked, ran>>
    BY <1>2 DEF StartAll, gateVars, chainVars
  <2>2. \A f \in Slot : phase[f] = "idle" /\ phase'[f] \in {"idle", "connecting"}
                        /\ (f \notin Used => phase'[f] = "idle")
    BY <1>2 DEF HInv, Joined, StartAll
  <2>3. Types'
    BY <1>2, <2>1, <2>2 DEF HInv, StartInv, Types, StartAll, Phase
  <2>4. \A f \in Slot : SlotInv(f)'
    BY <2>1, <2>2 DEF HInv, StartInv, SlotInv, Chain, Readings, Gate, Up, Target, BeforeMining,
       Working, SingleCalls
  <2>5. Signed' /\ Joined' /\ Kept' /\ Judged'
    BY <1>2, <2>1, <2>2 DEF HInv, Signed, Joined, Kept, Judged, StartAll, Params, Used
  <2> QED BY <2>3, <2>4, <2>5 DEF HInv, StartInv
<1>3. CASE JoinReturns
  <2>1. Signed' /\ Judged' /\ StartInv'
    BY <1>3, SameStarts DEF HInv, JoinReturns, Signed, Judged, Params, startupVars
  <2>2. Joined' /\ Kept'
    BY <1>3 DEF HInv, Signed, JoinReturns, Joined, Kept, Used, Returned, Slot, startupVars
  <2> QED BY <2>1, <2>2 DEF HInv
<1>4. CASE Bind
  <2>1. StartInv' /\ UNCHANGED <<kind, phase, stack, sig, ran>>
    BY <1>4, SameStarts DEF HInv, Bind, startupVars
  <2>2. Signed'
    <3>1. /\ test = "binding" /\ test' \in {"binding", "dropping"}
          /\ slot' \in {slot, slot + 1} /\ panicked' \in BOOLEAN
      BY <1>4 DEF HInv, Bind, Signed
    <3>2. slot' \in Nat \ {0}
      BY <3>1 DEF HInv, Signed
    <3> QED BY <2>1, <3>1, <3>2 DEF HInv, Signed, Params
  <2>3. Joined' /\ Kept'
    BY <1>4, <2>1 DEF HInv, Bind, Signed, Joined, Kept, Used, Returned, Slot, Params
  <2>4. Judged'
    BY <1>4, <2>1 DEF HInv, Bind, Signed, Judged, Params
  <2> QED BY <2>1, <2>2, <2>3, <2>4 DEF HInv
<1>5. CASE CallBody
  <2>1. StartInv' /\ UNCHANGED <<kind, phase, stack, sig, slot, panicked>>
    BY <1>5, SameStarts DEF HInv, CallBody, startupVars
  <2>2. Signed' /\ Judged'
    BY <1>5, <2>1 DEF HInv, CallBody, Signed, Judged, Params
  <2>3. \A f \in Used : f < slot
    BY <1>5 DEF HInv, CallBody, Signed, Used, Slot, Params
  <2>4. Joined' /\ Kept'
    BY <1>5, <2>1, <2>3 DEF HInv, CallBody, Joined, Kept, Used, Returned
  <2> QED BY <2>1, <2>2, <2>4 DEF HInv
<1>6. ASSUME NEW f \in Slot, BodyReleases(f) PROVE HInv'
  BY <1>6, TeardownInv DEF BodyReleases
<1>7. CASE BodyEnds \/ DropReturns \/ TestReturns
  <2>1. StartInv' /\ UNCHANGED <<kind, phase, stack, sig, slot, ran>>
    BY <1>7, SameStarts DEF HInv, BodyEnds, DropReturns, TestReturns, startupVars
  <2>2. /\ test \in {"body", "dropping"} /\ test' \in {"dropping", "over"}
        /\ panicked' \in BOOLEAN /\ (test = "dropping" => panicked' = panicked)
    BY <1>7 DEF HInv, Signed, BodyEnds, DropReturns, TestReturns
  <2>3. test = "body" => ran
    BY DEF HInv, Judged
  <2> QED BY <2>1, <2>2, <2>3 DEF HInv, Signed, Joined, Kept, Judged, Used, Returned, Params
<1>8. CASE DropHandle
  BY <1>8, TeardownInv DEF DropHandle
<1>9. CASE Terminated \/ UNCHANGED vars
  BY <1>9, SameStarts DEF Terminated, vars, testVars, HInv, Signed, Joined, Kept, Judged, Params,
     Used, Returned, startupVars
<1> QED
  BY <1>1, <1>2, <1>3, <1>4, <1>5, <1>6, <1>7, <1>8, <1>9 DEF Next, Wrapper

LEMMA HAlways == Spec => []HInv
BY HInit, HStep, PTL DEF Spec

\* The startups' variables keep their types, tips and readings being integers:
\* start_under_with_owner's steps, the height readings, the state of each stack.
THEOREM StartupTypeCorrect == Spec => []Types
<1>1. HInv => Types
  BY DEF HInv, StartInv
<1> QED BY <1>1, HAlways, PTL

\* Two nodes execute the initial mining at once only after a start gave its call
\* up (InitialMiningGate::run).
THEOREM OverlapNeedsAbandonedCallAlways == Spec => []OverlapNeedsAbandonedCall
<1>1. HInv => OverlapNeedsAbandonedCall
  BY SlotFacts DEF HInv, StartInv, SlotInv, Gate, OverlapNeedsAbandonedCall
<1> QED BY <1>1, HAlways, PTL

\* The body of a test finds its single fixtures up, and every stack that is up
\* has its funds in the node, in Esplora and in Electrum (bind_fixture,
\* wait_for_sync).
THEOREM BodyFindsItsFundsAlways == Spec => []BodyFindsItsFunds
<1>1. HInv => BodyFindsItsFunds
  <2> SUFFICES ASSUME HInv, test = "body", NEW f \in Used
               PROVE  /\ kind[f] # "Pair" => /\ stack[f] = "present" /\ height[f] = Target(f)
                                             /\ esplora[f] = Target(f) /\ electrum[f] = Target(f)
                      /\ height[f] >= Target(f) /\ esplora[f] >= Target(f)
                      /\ electrum[f] >= Target(f)
    BY DEF BodyFindsItsFunds
  <2>1. f \in Slot /\ phase[f] = "ok"
    BY DEF HInv, Joined, Used
  <2>2. /\ Target(f) \in Nat /\ height[f] \in Int /\ esplora[f] \in Int /\ electrum[f] \in Int
    BY <2>1, SlotFacts DEF HInv, StartInv, Types
  <2> QED BY <2>1, <2>2 DEF HInv, Kept, StartInv, SlotInv, Chain, Readings
<1> QED BY <1>1, HAlways, PTL

\* A test passes only with its body run: check_async, the refusal of
\* should_panic and the wrapper's expect leave no other way.
THEOREM PassedMeansBodyRanAlways == Spec => []PassedMeansBodyRan
<1>1. HInv => PassedMeansBodyRan
  BY DEF HInv, Signed, Judged, Accepts, Passed, PassedMeansBodyRan
<1> QED BY <1>1, HAlways, PTL

-------------------------------------------------------------------------------
(* Which stacks survive a test: what Held makes of the handles, and which  *)
(* handles are still to be dropped.                                        *)

LEMMA Induction ==
  ASSUME NEW S \in SUBSET Nat, 0 \in S, \A n \in S : n + 1 \in S
  PROVE  S = Nat
<1> DEFINE R == {ss \in Nat \X Nat : ss[1] < ss[2]}
<1>1. IsWellFoundedOn(R, Nat)
  BY NatLessThanWellFounded DEF OpToRel
<1>2. \A m, n \in Nat : m < n => <<m, n>> \in R
  OBVIOUS
<1> HIDE DEF R
<1>3. SUFFICES ASSUME Nat \ S # {} PROVE FALSE
  OBVIOUS
<1>4. PICK n \in Nat \ S : \A m \in Nat \ S : ~(<<m, n>> \in R)
  <2> DEFINE T == Nat \ S
  <2>1. T \subseteq Nat /\ T # {}
    BY <1>3
  <2> HIDE DEF T
  <2>2. \E n \in T : \A m \in T : ~(<<m, n>> \in R)
    BY <1>1, <2>1, WFMin
  <2> QED BY <2>2 DEF T
<1>5. n # 0 /\ n - 1 \in Nat /\ n - 1 < n /\ (n - 1) + 1 = n
  OBVIOUS
<1>6. n - 1 \in S
  BY <1>2, <1>4, <1>5
<1> QED BY <1>4, <1>5, <1>6

\* What Held computes, slot by slot.
HeldSlots(slots) == {f \in slots \intersect Slot : phase[f] = "ok" /\ stack[f] = "present"}

LEMMA HeldFacts ==
  ASSUME NEW slots
  PROVE  /\ Held(slots) \in Seq(Slot)
         /\ \A f \in Slot : (\E i \in 1..Len(Held(slots)) : Held(slots)[i] = f)
              <=> f \in HeldSlots(slots)
<1> DEFINE Kept1(n, below) ==
             IF n = 0 THEN <<>>
             ELSE IF n \in slots /\ phase[n] = "ok" /\ stack[n] = "present"
                  THEN <<n>> \o below ELSE below
           Down(g, m) == g = [n \in 0..m |-> Kept1(n, g[n - 1])]
<1>1. MaxParams \in Nat
  BY StartupAssumption
<1>2. \E g : Down(g, MaxParams)
  <2> DEFINE S == {m \in Nat : \E g : Down(g, m)}
  <2>1. 0 \in S
    <3>1. Down([n \in 0..0 |-> <<>>], 0)
      OBVIOUS
    <3> QED BY <3>1
  <2>2. ASSUME NEW m \in S PROVE m + 1 \in S
    <3>1. PICK g : Down(g, m)
      OBVIOUS
    <3> DEFINE h == [n \in 0..(m + 1) |-> IF n = m + 1 THEN Kept1(n, g[m]) ELSE g[n]]
    <3> HIDE DEF Kept1
    <3>2. \A n \in 0..(m + 1) : h[n] = Kept1(n, h[n - 1])
      <4> SUFFICES ASSUME NEW n \in 0..(m + 1) PROVE h[n] = Kept1(n, h[n - 1])
        OBVIOUS
      <4>1. CASE n = m + 1
        BY <4>1
      <4>2. CASE n = 0
        BY <4>2, <3>1 DEF Kept1
      <4>3. CASE n \in 1..m
        BY <4>3, <3>1
      <4> QED BY <4>1, <4>2, <4>3
    <3>3. Down(h, m + 1)
      BY <3>2
    <3> HIDE DEF Down, h
    <3> QED BY <3>3
  <2> HIDE DEF S
  <2>3. S = Nat
    BY <2>1, <2>2, Induction DEF S
  <2> QED BY <1>1, <2>3 DEF S
<1> DEFINE down == CHOOSE g : Down(g, MaxParams)
<1>3. Down(down, MaxParams)
  BY <1>2
<1>4. Held(slots) = down[MaxParams]
  BY DEF Held
<1> HIDE DEF down
<1> DEFINE Lists(s, m) == /\ s \in Seq(Slot)
                         /\ \A f \in Slot : (\E i \in 1..Len(s) : s[i] = f)
                              <=> f <= m /\ f \in HeldSlots(slots)
<1>5. Lists(down[0], 0)
  BY <1>1, <1>3 DEF Slot
<1>6. ASSUME NEW m \in Nat, m + 1 <= MaxParams, Lists(down[m], m)
      PROVE  Lists(down[m + 1], m + 1)
  <2>1. down[m + 1] = Kept1(m + 1, down[m]) /\ m + 1 \in Slot
    <3>1. m + 1 \in 0..MaxParams /\ (m + 1) - 1 = m /\ m + 1 \in Slot
      BY <1>1, <1>6 DEF Slot
    <3> HIDE DEF Kept1
    <3> QED BY <1>3, <3>1
  <2>2. CASE m + 1 \in HeldSlots(slots)
    <3> DEFINE s == down[m]
               t == <<m + 1>> \o s
    <3>1. down[m + 1] = t
      BY <2>1, <2>2 DEF HeldSlots
    <3> HIDE DEF s
    <3>2. s \in Seq(Slot) /\ t \in Seq(Slot) /\ Len(t) = Len(s) + 1 /\ t[1] = m + 1
      BY <1>6, <2>1 DEF s
    <3>3. \A i \in 1..Len(s) : t[i + 1] = s[i]
      BY <3>2
    <3>4. \A i \in 1..Len(t) : t[i] = m + 1 \/ (i - 1 \in 1..Len(s) /\ t[i] = s[i - 1])
      BY <3>2
    <3>5. 1 \in 1..Len(t) /\ \A i \in 1..Len(s) : i + 1 \in 1..Len(t)
      BY <3>2
    <3> HIDE DEF t
    <3>6. \A f \in Slot : (\E i \in 1..Len(t) : t[i] = f) <=> f = m + 1 \/ (\E i \in 1..Len(s) : s[i] = f)
      BY <3>2, <3>3, <3>4, <3>5
    <3>7. \A f \in Slot : f <= m + 1 <=> f <= m \/ f = m + 1
      BY DEF Slot
    <3> QED BY <1>6, <2>2, <3>1, <3>2, <3>6, <3>7 DEF s
  <2>3. CASE m + 1 \notin HeldSlots(slots)
    <3>1. down[m + 1] = down[m]
      BY <2>1, <2>3 DEF HeldSlots
    <3>7. \A f \in Slot : f <= m + 1 <=> f <= m \/ f = m + 1
      BY DEF Slot
    <3> QED BY <1>6, <2>3, <3>1, <3>7
  <2> QED BY <2>2, <2>3
<1>7. \A m \in Nat : m <= MaxParams => Lists(down[m], m)
  <2> HIDE DEF Lists
  <2> DEFINE S == {m \in Nat : m <= MaxParams => Lists(down[m], m)}
  <2>1. 0 \in S
    BY <1>5
  <2>2. ASSUME NEW m \in S PROVE m + 1 \in S
    BY <1>1, <1>6
  <2> HIDE DEF S
  <2>3. S = Nat
    BY <2>1, <2>2, Induction DEF S
  <2> QED BY <2>3 DEF S
<1>8. Lists(Held(slots), MaxParams)
  <2> HIDE DEF Lists
  <2> QED BY <1>1, <1>4, <1>7
<1> QED BY <1>8 DEF Slot, HeldSlots

\* A start that has not reached its supervisor has no stack.
NotYetUp == {"idle", "connecting"}

\* A pair's start reports its error when its stacks are gone or its deadline is
\* over, and what is still up under a handle is still to be dropped.
Released ==
  /\ expired \in [Slot -> BOOLEAN]
  /\ \A f \in Slot :
       /\ phase[f] \in NotYetUp => stack[f] = "none"
       /\ phase[f] = "ok" => stack[f] # "none"
       /\ phase[f] = "error" /\ kind[f] = "Pair" /\ stack[f] \in {"present", "removing"}
            => expired[f]
  /\ drops \in Seq(Slot) /\ \A i \in 1..Len(drops) : phase[drops[i]] = "ok"
  /\ test \in {"dropping", "over"} =>
       \A f \in Slot : phase[f] = "ok" /\ stack[f] # "over" =>
          \E i \in 1..Len(drops) : drops[i] = f
  /\ test = "over" => drops = <<>>

\* What a step of a start does to its own slot's stack.
Ends(f) ==
  /\ UNCHANGED kind
  /\ expired' \in [Slot -> BOOLEAN]
  /\ \A g \in Slot \ {f} : UNCHANGED <<phase[g], stack[g], expired[g]>>
  /\ phase'[f] \in NotYetUp => stack'[f] = "none"
  /\ phase[f] \in {"ok", "error"} =>
       /\ phase'[f] = phase[f] /\ expired'[f] = expired[f]
       /\ stack'[f] = stack[f] \/ (stack[f] = "removing" /\ stack'[f] = "over")
  /\ phase[f] \notin {"ok", "error"} =>
       /\ phase'[f] = "ok" => stack'[f] # "none"
       /\ phase'[f] = "error" /\ kind[f] = "Pair" /\ stack'[f] \in {"present", "removing"}
            => expired'[f]

LEMMA StartEnds ==
  ASSUME NEW f \in Slot, HInv, Released, StartupStep(f)
  PROVE  Ends(f)
<1>1. /\ kind \in [Slot -> Kind \union {"none"}] /\ phase \in [Slot -> Phase]
      /\ stack \in [Slot -> {"none", "present", "removing", "over"}]
      /\ expired \in [Slot -> BOOLEAN]
      /\ Up(f)
      /\ phase[f] \in NotYetUp => stack[f] = "none"
  BY DEF HInv, StartInv, Types, SlotInv, Released
<1> USE DEF NotYetUp
<1>2. CASE Connect(f)
  <2>1. UNCHANGED <<kind, expired>> /\ phase[f] = "connecting" /\ stack[f] = "none"
    BY <1>1, <1>2 DEF Connect
  <2>2. CASE Becomes(f, "error") /\ UNCHANGED stack
    <3>1. phase'[f] = "error" /\ \A g \in Slot \ {f} : phase'[g] = phase[g]
      BY <1>1, <2>2 DEF Becomes
    <3> QED BY <1>1, <2>1, <2>2, <3>1 DEF Ends
  <2>3. CASE Becomes(f, "containers") /\ stack' = [stack EXCEPT ![f] = "present"]
    <3>1. /\ phase'[f] = "containers"
          /\ \A g \in Slot \ {f} : phase'[g] = phase[g] /\ stack'[g] = stack[g]
      BY <1>1, <2>3 DEF Becomes
    <3> QED BY <1>1, <2>1, <3>1 DEF Ends
  <2> QED BY <1>2, <2>2, <2>3 DEF Connect
<1>3. CASE Advance(f)
  <2>1. /\ UNCHANGED <<kind, expired, stack>> /\ phase' = [phase EXCEPT ![f] = Following(f)]
        /\ phase[f] \in SingleCalls \union {"rootRpc"}
    BY <1>3 DEF Advance, Becomes
  <2>2. phase[f] \notin {"ok", "error"} /\ Following(f) \notin NotYetUp \union {"error"}
    BY <2>1 DEF SingleCalls, Following
  <2>3. Following(f) = "ok" => stack[f] # "none"
    BY <1>1, <2>1 DEF SingleCalls, Up, Working
  <2>4. phase'[f] = Following(f) /\ \A g \in Slot \ {f} : phase'[g] = phase[g]
    BY <1>1, <2>1
  <2> QED BY <1>1, <2>1, <2>2, <2>3, <2>4 DEF Ends
<1>4. CASE CallFails(f) \/ DeadlinePasses(f) \/ MiningFails(f)
  BY <1>1, <1>4 DEF Ends, CallFails, DeadlinePasses, MiningFails, Fail, Becomes, SingleCalls
<1>5. CASE UnwindReturns(f)
  BY <1>1, <1>5 DEF Ends, UnwindReturns, Becomes
<1>6. CASE TakePermit(f)
  BY <1>1, <1>6 DEF Ends, TakePermit, Becomes, Following
<1>7. CASE NodeBegins(f) \/ NodeMines(f) \/ Indexes(f) \/ DependentMines(f)
  BY <1>1, <1>7 DEF Ends, NodeBegins, NodeMines, Indexes, DependentMines
<1>8. CASE MiningAnswered(f)
  BY <1>1, <1>8 DEF Ends, MiningAnswered, Becomes, Following
<1>9. CASE Read(f)
  BY <1>1, <1>9 DEF Ends, Read, JoinRound, Becomes, Following, Up, Working
<1>10. CASE RemovalEnds(f)
  BY <1>1, <1>10 DEF Ends, RemovalEnds
<1> QED
  BY <1>2, <1>3, <1>4, <1>5, <1>6, <1>7, <1>8, <1>9, <1>10 DEF StartupStep

LEMMA ReleasedStartup ==
  ASSUME HInv, Released, NEW f \in Slot, StartupStep(f), UNCHANGED testVars
  PROVE  Released'
<1>1. Ends(f)
  BY StartEnds
<1>2. UNCHANGED <<sig, test, slot, drops, panicked, ran>>
  BY DEF testVars
<1>3. \A g \in Slot : /\ phase'[g] \in NotYetUp => stack'[g] = "none"
                      /\ phase'[g] = "ok" => stack'[g] # "none"
                      /\ phase'[g] = "error" /\ kind'[g] = "Pair" /\ stack'[g] \in {"present", "removing"} => expired'[g]
  BY <1>1 DEF Ends, Released
<1>4. \A g \in Slot : phase[g] = "ok" => phase'[g] = "ok"
  BY <1>1 DEF Ends
<1>5. test \in {"dropping", "over"} =>
        \A g \in Slot : phase'[g] = "ok" /\ stack'[g] # "over" => phase[g] = "ok" /\ stack[g] # "over"
  BY <1>1, StartMoves DEF Ends, HInv, Joined, Returned, Moves
<1>6. expired' \in [Slot -> BOOLEAN]
  BY <1>1 DEF Ends
<1>7. \A i \in 1..Len(drops) : drops[i] \in Slot
  BY DEF Released
<1> QED BY <1>2, <1>3, <1>4, <1>5, <1>6, <1>7 DEF Released

\* Two lists of handles, one after the other.
LEMMA TwoLists ==
  ASSUME NEW s \in Seq(Slot), NEW t \in Seq(Slot)
  PROVE  /\ s \o t \in Seq(Slot)
         /\ \A f : (\E i \in 1..Len(s \o t) : (s \o t)[i] = f)
              <=> (\E i \in 1..Len(s) : s[i] = f) \/ (\E i \in 1..Len(t) : t[i] = f)
<1> DEFINE u == s \o t
<1>1. u \in Seq(Slot) /\ Len(u) = Len(s) + Len(t)
  OBVIOUS
<1>2. \A i \in 1..Len(s) : u[i] = s[i] /\ i \in 1..Len(u)
  OBVIOUS
<1>3. \A i \in 1..Len(t) : u[Len(s) + i] = t[i] /\ Len(s) + i \in 1..Len(u)
  OBVIOUS
<1>4. \A i \in 1..Len(u) : i \in 1..Len(s) \/ (i - Len(s) \in 1..Len(t) /\ u[i] = t[i - Len(s)])
  OBVIOUS
<1> HIDE DEF u
<1>5. ASSUME NEW f PROVE (\E i \in 1..Len(u) : u[i] = f)
              <=> (\E i \in 1..Len(s) : s[i] = f) \/ (\E i \in 1..Len(t) : t[i] = f)
  BY <1>2, <1>3, <1>4
<1> QED BY <1>1, <1>5 DEF u

\* The handles of two sets of slots that are all of the slots held.
LEMMA ListedHandles ==
  ASSUME NEW left, NEW right, HInv, Released,
         \A f \in Slot : phase[f] = "ok" /\ stack[f] # "over" =>
            stack[f] = "present" /\ f \in left \union right,
         drops' = Held(left) \o Held(right)
  PROVE  /\ drops' \in Seq(Slot) /\ \A i \in 1..Len(drops') : phase[drops'[i]] = "ok"
         /\ \A f \in Slot : phase[f] = "ok" /\ stack[f] # "over" =>
              \E i \in 1..Len(drops') : drops'[i] = f
<1> DEFINE s == Held(left)
           t == Held(right)
<1>1. /\ s \in Seq(Slot) /\ t \in Seq(Slot) /\ drops' = s \o t
      /\ \A f \in Slot : (\E i \in 1..Len(s) : s[i] = f) <=> f \in HeldSlots(left)
      /\ \A f \in Slot : (\E i \in 1..Len(t) : t[i] = f) <=> f \in HeldSlots(right)
  BY HeldFacts
<1> HIDE DEF s, t
<1>2. drops' \in Seq(Slot)
  BY <1>1, TwoLists
<1>3. \A f \in Slot : (\E i \in 1..Len(drops') : drops'[i] = f)
                       <=> f \in HeldSlots(left) \/ f \in HeldSlots(right)
  BY <1>1, TwoLists
<1>4. \A i \in 1..Len(drops') : drops'[i] \in Slot
  BY <1>2
<1> QED BY <1>2, <1>3, <1>4 DEF HeldSlots

LEMMA ReleasedTeardown ==
  ASSUME HInv, Released, NEW h \in Slot, Teardown(h), test \in {"body", "dropping"},
         stack[h] = "present", phase[h] = "ok",
         UNCHANGED <<kind, phase, expired, testVars>>
  PROVE  Released'
<1>1. UNCHANGED <<test, drops>>
  BY DEF testVars
<1>2. stack' = [stack EXCEPT ![h] = "removing"]
      /\ stack \in [Slot -> {"none", "present", "removing", "over"}]
  BY DEF Teardown, HInv, StartInv, Types
<1> QED BY <1>1, <1>2 DEF Released

LEMMA ReleasedStep == HInv /\ Released /\ [Next]_vars => Released'
<1> SUFFICES ASSUME HInv, Released, [Next]_vars PROVE Released'
  OBVIOUS
<1> USE StartupAssumption
<1>1. ASSUME NEW f \in Slot, StartupStep(f), UNCHANGED testVars PROVE Released'
  BY <1>1, ReleasedStartup
<1>2. CASE StartAll
  <2>1. UNCHANGED <<kind, expired, stack, drops>> /\ test' = "starting"
    BY <1>2 DEF StartAll, gateVars, chainVars
  <2>2. \A f \in Slot : phase[f] = "idle" /\ phase'[f] \in {"idle", "connecting"}
    BY <1>2 DEF HInv, Joined, StartAll
  <2>3. drops = <<>>
    BY <2>2 DEF Released
  <2> QED BY <2>1, <2>2, <2>3 DEF Released, NotYetUp
<1>3. CASE JoinReturns \/ CallBody
  BY <1>3 DEF Released, JoinReturns, CallBody, startupVars
<1>4. CASE Bind
  <2>1. UNCHANGED <<kind, phase, stack, expired>>
    BY <1>4 DEF Bind, startupVars
  <2>2. CASE phase[slot] = "ok"
    BY <1>4, <2>1, <2>2 DEF Bind, Released
  <2>3. CASE phase[slot] # "ok"
    <3>1. test = "binding" /\ test' = "dropping" /\ drops' = UnwoundHandles
      BY <1>4, <2>3 DEF Bind
    <3>2. \A f \in Slot : phase[f] = "ok" /\ stack[f] # "over" =>
             stack[f] = "present" /\ f \in (1..(slot - 1)) \union ((slot + 1)..Params)
      BY <2>3, <3>1 DEF HInv, Kept, Signed, Joined, Slot, Params, Used
    <3>3. drops' = Held(1..(slot - 1)) \o Held((slot + 1)..Params)
      BY <3>1 DEF UnwoundHandles
    <3>4. /\ drops' \in Seq(Slot) /\ \A i \in 1..Len(drops') : phase[drops'[i]] = "ok"
          /\ \A f \in Slot : phase[f] = "ok" /\ stack[f] # "over" =>
               \E i \in 1..Len(drops') : drops'[i] = f
      BY <3>2, <3>3, ListedHandles
    <3> QED BY <2>1, <3>1, <3>4 DEF Released
  <2> QED BY <2>2, <2>3
<1>5. ASSUME NEW f \in Slot, BodyReleases(f) PROVE Released'
  <2>1. phase[f] = "ok"
    BY <1>5 DEF BodyReleases, HInv, Joined, Used
  <2> QED BY <1>5, <2>1, ReleasedTeardown DEF BodyReleases
<1>6. CASE BodyEnds
  <2>1. UNCHANGED <<kind, phase, stack, expired>> /\ test' = "dropping"
    BY <1>6 DEF BodyEnds, startupVars
  <2>2. \A f \in Slot : phase[f] = "ok" /\ stack[f] # "over" =>
          stack[f] = "present" /\ f \in {g \in Slot : kind[g] = "Pair"} \union {g \in Slot : kind[g] # "Pair"}
    BY <1>6 DEF BodyEnds, Released, HInv, StartInv, Types
  <2>3. drops' = Held({f \in Slot : kind[f] = "Pair"}) \o Held({f \in Slot : kind[f] # "Pair"})
    BY <1>6 DEF BodyEnds
  <2>4. /\ drops' \in Seq(Slot) /\ \A i \in 1..Len(drops') : phase[drops'[i]] = "ok"
        /\ \A f \in Slot : phase[f] = "ok" /\ stack[f] # "over" =>
             \E i \in 1..Len(drops') : drops'[i] = f
    BY <2>2, <2>3, ListedHandles
  <2> QED BY <2>1, <2>4 DEF Released
<1>7. CASE DropHandle
  <2>1. Head(drops) \in Slot /\ phase[Head(drops)] = "ok"
    BY <1>7 DEF DropHandle, Released
  <2> QED BY <1>7, <2>1, ReleasedTeardown DEF DropHandle
<1>8. CASE DropReturns
  <2>1. /\ UNCHANGED <<kind, phase, stack, expired, test>> /\ test = "dropping"
        /\ drops # <<>> /\ stack[Head(drops)] = "over" /\ drops' = Tail(drops)
    BY <1>8 DEF DropReturns, startupVars
  <2>2. /\ drops' \in Seq(Slot) /\ Len(drops') = Len(drops) - 1
        /\ \A i \in 1..Len(drops') : drops'[i] = drops[i + 1] /\ i + 1 \in 1..Len(drops)
        /\ \A i \in 1..Len(drops) : i = 1 \/ (i - 1 \in 1..Len(drops') /\ drops[i] = drops'[i - 1])
        /\ Head(drops) = drops[1]
    BY <2>1 DEF Released
  <2>3. ASSUME NEW f \in Slot, phase[f] = "ok", stack[f] # "over"
        PROVE  \E i \in 1..Len(drops') : drops'[i] = f
    <3>1. PICK i \in 1..Len(drops) : drops[i] = f
      BY <2>1, <2>3 DEF Released
    <3>2. i # 1
      BY <2>1, <2>2, <2>3, <3>1
    <3> QED BY <2>2, <3>1, <3>2
  <2> QED BY <2>1, <2>2, <2>3 DEF Released
<1>9. CASE TestReturns
  BY <1>9 DEF TestReturns, Released, startupVars
<1>10. CASE Terminated \/ UNCHANGED vars
  BY <1>10 DEF Terminated, vars, startupVars, testVars, Released
<1> QED
  BY <1>1, <1>2, <1>3, <1>4, <1>5, <1>6, <1>7, <1>8, <1>9, <1>10 DEF Next, Wrapper

\* When a test is over, only a start that failed leaves a stack behind, and a
\* pair's only past its deadline: every handle that join! delivered is dropped,
\* each after its cleanup, whatever the wrapper unwinds from (expect, the body).
THEOREM SurvivorsFailedToStartAlways == Spec => []SurvivorsFailedToStart
<1>1. Init => Released
  BY StartupAssumption DEF Init, StartupInit, Released
<1>2. HInv /\ Released => SurvivorsFailedToStart
  BY DEF HInv, Joined, Returned, Used, Released, SurvivorsFailedToStart
<1> QED BY <1>1, <1>2, HAlways, ReleasedStep, PTL DEF Spec
===============================================================================
