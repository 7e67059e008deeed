--------------------------- MODULE CoordinatorProofs ---------------------------
(***************************************************************************)
(* Theorems about Coordinator, for composites with and without a step that *)
(* connects the two stacks.                                                *)
(***************************************************************************)
EXTENDS Coordinator, TLAPS

BothUp == stack["backing"] = "up" /\ stack["dependent"] = "up"
BothGone == Gone("backing") /\ Gone("dependent")

\* Which stacks there can be at each point of the coordinator, and that the
\* dependent stack exists only beside a backing stack that is up.
Stages ==
  /\ stack["backing"] # "up" => Gone("dependent")
  /\ coord = "boot" => BothGone
  /\ coord = "startBacking" => Gone("dependent")
  /\ coord \in {"connect", "send"} => BothUp
  /\ coord = "dropSecond" => Gone("dependent")
  /\ coord \notin {"handoff", "done"} => value = "none"

\* Where the pair is, and what may have become of it there.
Owners ==
  /\ value = "slot" =>
       /\ coord = "handoff" /\ BothUp
       /\ caller \in {"awaiting", "received", "dropped", "cancelling", "gone"}
  /\ value = "caller" =>
       coord \in {"handoff", "done"}
  /\ caller \in {"acknowledged", "joining", "holding"} => value = "caller" /\ BothUp
  /\ caller \in {"shutFirst", "shutSecond", "dropFirst", "dropSecond"} => value = "caller"
  /\ caller \in {"shutSecond", "dropSecond"} => Gone("dependent")
  /\ caller \in {"failing", "failed", "closed"} => BothGone /\ coord \in {"handoff", "done"}
  /\ coord \in {"handoff", "done"} => value # "none" \/ BothGone
  /\ coord = "done" => value # "slot"

\* What the channel, the acknowledgement and the watch say about the caller.
Signals ==
  /\ caller \in {"awaiting", "received"} => watch = "open" /\ ack = "open"
  /\ caller = "received" => value = "slot"
  /\ channel \in {"empty", "handoff", "error"} => caller = "awaiting"
  /\ channel = "handoff" => value = "slot"
  /\ channel = "error" => coord = "done" /\ value = "none"
  /\ ack = "sent" => value # "slot"

Told ==
  reported = "ok" => /\ caller = "closed"
                     /\ \A s \in Stack : stack[s] = "removed"

CInv == TypeOK /\ Stages /\ Owners /\ Signals /\ Told

LEMMA InvInit == Init => CInv
<1> SUFFICES ASSUME Init PROVE CInv
  OBVIOUS
<1>1. stack["backing"] = "absent" /\ stack["dependent"] = "absent"
  BY DEF Init, Stack
<1>2. TypeOK
  BY DEF Init, TypeOK, Stack
<1> QED BY <1>1, <1>2 DEF Init, CInv, Stages, Owners, Signals, Told, BothGone, Gone

LEMMA InvStep == CInv /\ [Next]_vars => CInv'
<1> SUFFICES ASSUME CInv, [Next]_vars PROVE CInv'
  OBVIOUS
<1> USE DEF CInv, TypeOK, Stack, Stages, Owners, Signals, Told, BothUp, BothGone, Gone
<1>1. ASSUME NEW s \in Stack, ComesUp(s) \/ StartFails(s) \/ CleansUp(s) PROVE CInv'
  BY <1>1 DEF ComesUp, StartFails, CleansUp, Stopped
<1>2. CASE StartBacking
  BY <1>2 DEF StartBacking, CoordinatorSteps
<1>3. CASE BackingUp
  BY <1>3 DEF BackingUp, CoordinatorSteps
<1>4. CASE BackingFailed \/ DependentFailed \/ StartDropped \/ WorkPanics \/ ConnectFails
  BY <1>4 DEF BackingFailed, DependentFailed, StartDropped, WorkPanics, ConnectFails,
     CoordinatorSteps, Abandon, Stopped, FirstToGo
<1>5. CASE DependentUp \/ ConnectOk
  BY <1>5 DEF DependentUp, ConnectOk, CoordinatorSteps
<1>6. CASE SendHandoff
  BY <1>6 DEF SendHandoff, CoordinatorSteps, Stopped, FirstToGo
<1>7. CASE HandoffAcknowledged
  BY <1>7 DEF HandoffAcknowledged, CoordinatorSteps
<1>8. CASE HandoffRefused
  BY <1>8 DEF HandoffRefused, CoordinatorSteps, CancelSeen, TakeBack, Stopped, FirstToGo
<1>9. CASE DropSecond
  BY <1>9 DEF DropSecond, CoordinatorSteps, Stopped, FirstToGo, Other
<1>10. CASE CoordinatorEnds
  BY <1>10 DEF CoordinatorEnds, CoordinatorSteps, AllDropped
<1>11. CASE ReceiveHandoff \/ ReceiveError
  BY <1>11 DEF ReceiveHandoff, ReceiveError, CallerSteps
<1>12. CASE Acknowledge \/ CloseWatch
  BY <1>12 DEF Acknowledge, CloseWatch, TakeValue, CallerSteps
<1>13. CASE Joined
  BY <1>13 DEF Joined, CallerSteps
<1>14. CASE DropFuture \/ SignalCancel
  BY <1>14 DEF DropFuture, SignalCancel, CallerSteps
<1>15. CASE ReleasePair \/ DropShutdown
  BY <1>15 DEF ReleasePair, DropShutdown, CallerSteps, Stopped, FirstToGo
<1>16. CASE ReleaseSecond
  BY <1>16 DEF ReleaseSecond, CallerSteps, Stopped, FirstToGo, Other
<1>17. CASE PairReleased
  <2>1. /\ caller \in {"shutSecond", "dropSecond"} /\ caller' = "closed"
        /\ value' = "none"
        /\ UNCHANGED <<stack, coord, channel, ack, watch, result, expired>>
        /\ BothGone
    BY <1>17 DEF PairReleased, CallerSteps, FirstToGo, Other
  <2>2. /\ reported' \in {"none", "ok", "error"}
        /\ reported' = "ok" => \A s \in Stack : stack[s] = "removed"
    BY <1>17 DEF PairReleased, CallerSteps, BothResults
  <2>3. Stages' /\ Owners'
    BY <2>1
  <2>4. TypeOK' /\ Signals' /\ Told'
    BY <2>1, <2>2
  <2> QED BY <2>3, <2>4
<1>18. CASE DeadlineExpires
  BY <1>18 DEF DeadlineExpires
<1>19. CASE Terminated \/ UNCHANGED vars
  BY <1>19 DEF Terminated, vars
<1> QED
  BY <1>1, <1>2, <1>3, <1>4, <1>5, <1>6, <1>7, <1>8, <1>9, <1>10, <1>11, <1>12,
     <1>13, <1>14, <1>15, <1>16, <1>17, <1>18, <1>19
  DEF Next, StackSteps, StackStarts, CoordinatorProgress, CallerProgress

LEMMA Invariance == Spec => []CInv
BY InvInit, InvStep, PTL DEF Spec

\* The backing stack, its network and its Bitcoin node are stopped only when
\* the dependent supervisor is over (PegHandles, LndHandles, start_peg_stacks).
THEOREM DependentFirstAlways == Spec => []DependentFirst
<1>1. CInv => DependentFirst
  BY DEF CInv, Stages, DependentFirst
<1> QED BY <1>1, Invariance, PTL

\* Every variable of coordinate_startup and of its caller keeps its type.
THEOREM CoordinatorTypeCorrect == Spec => []TypeOK
<1>1. CInv => TypeOK
  BY DEF CInv
<1> QED BY <1>1, Invariance, PTL

\* PendingHandoff::acknowledge always finds the pair in the slot, and the pair a
\* caller holds is up: the coordinator does not take it back.
THEOREM PairIsLiveAlways == Spec => []PairIsLive
<1>1. CInv => PairIsLive
  BY DEF CInv, Owners, Signals, BothUp, PairIsLive, Stack
<1> QED BY <1>1, Invariance, PTL

\* A coordinator that is over, or that reported an error, leaves no stack
\* running unless the caller owns the pair.
THEOREM NothingLeftBehindAlways == Spec => []NothingLeftBehind
<1>1. CInv => NothingLeftBehind
  BY DEF CInv, TypeOK, Owners, BothGone, NothingLeftBehind, ThreadDone, Stack
<1> QED BY <1>1, Invariance, PTL

\* Ok from the pair's shutdown() means both cleanup phases removed everything.
THEOREM PairShutdownTellsTheTruth == Spec => []ShutdownTellsTheTruth
<1>1. CInv => ShutdownTellsTheTruth
  BY DEF CInv, Told, ShutdownTellsTheTruth
<1> QED BY <1>1, Invariance, PTL

-------------------------------------------------------------------------------
(* Composition. Each stack and its use by the coordinator and the caller   *)
(* follow NestedStack, so what Coordinator lets a stack do is no more than *)
(* what a supervisor in Complete mode does (SupervisorProofs).             *)

\* Which stacks were ever started, at each point of the coordinator, and that
\* only a caller who released the pair leaves it waiting with an empty slot.
Started ==
  /\ coord = "boot" => stack["backing"] = "absent"
  /\ coord \notin {"boot", "done"} \/ value # "none" => stack["backing"] # "absent"
  /\ coord \in {"boot", "startBacking"} => stack["dependent"] = "absent"
  /\ coord \in {"startDependent", "connect", "send", "handoff"} \/ value # "none"
       => stack["dependent"] # "absent"
  /\ coord = "handoff" => value # "none" \/ caller = "closed"

LEMMA StartedInit == Init => Started
BY DEF Init, Started, Stack

LEMMA StartedStep == CInv /\ Started /\ [Next]_vars => Started'
<1> SUFFICES ASSUME CInv, Started, [Next]_vars PROVE Started'
  OBVIOUS
<1> USE DEF Started, CInv, TypeOK, Stack, Stopped, Gone
<1>1. ASSUME NEW s \in Stack, ComesUp(s) \/ StartFails(s) \/ CleansUp(s) PROVE Started'
  BY <1>1 DEF ComesUp, StartFails, CleansUp
<1>2. CASE StartBacking \/ BackingUp
  BY <1>2 DEF StartBacking, BackingUp, CoordinatorSteps
<1>3. CASE BackingFailed \/ DependentFailed \/ StartDropped \/ WorkPanics \/ ConnectFails
  BY <1>3 DEF BackingFailed, DependentFailed, StartDropped, WorkPanics, ConnectFails,
     CoordinatorSteps, Abandon, FirstToGo, Stages
<1>4. CASE DependentUp \/ ConnectOk \/ SendHandoff
  BY <1>4 DEF DependentUp, ConnectOk, SendHandoff, CoordinatorSteps, FirstToGo
<1>5. CASE HandoffAcknowledged \/ HandoffRefused
  BY <1>5 DEF HandoffAcknowledged, HandoffRefused, CoordinatorSteps, TakeBack, FirstToGo
<1>6. CASE DropSecond \/ CoordinatorEnds
  BY <1>6 DEF DropSecond, CoordinatorEnds, CoordinatorSteps, FirstToGo, Other, Stages
<1>7. CASE CallerProgress
  BY <1>7 DEF CallerProgress, ReceiveHandoff, Acknowledge, TakeValue, CloseWatch, ReceiveError,
     Joined, SignalCancel, ReleaseSecond, PairReleased, CallerSteps, FirstToGo, Other,
     Owners, Signals
<1>8. CASE DropFuture \/ ReleasePair \/ DropShutdown
  BY <1>8 DEF DropFuture, ReleasePair, DropShutdown, CallerSteps, FirstToGo
<1>9. CASE DeadlineExpires \/ Terminated \/ UNCHANGED vars
  BY <1>9 DEF DeadlineExpires, Terminated, vars
<1> QED BY <1>1, <1>2, <1>3, <1>4, <1>5, <1>6, <1>7, <1>8, <1>9
        DEF Next, StackSteps, StackStarts, CoordinatorProgress

LEMMA Starting == Spec => [](CInv /\ Started)
BY Invariance, StartedInit, StartedStep, PTL DEF Spec

LEMMA NestedInits == Init => Backing!Init /\ Dependent!Init
BY DEF Init, Backing!Init, Dependent!Init, UserOf, Stack

LEMMA StacksMove ==
  ASSUME CInv, StackSteps
  PROVE  [Backing!StackStep]_(Backing!nestedVars) /\ [Dependent!StackStep]_(Dependent!nestedVars)
<1> USE DEF CInv, TypeOK, Stack, Stopped, Gone, UserOf, Leaving, Back, ThreadDone,
            Backing!StackStep, Backing!nestedVars, Dependent!StackStep, Dependent!nestedVars
<1>1. PICK s \in Stack : StackStarts(s) \/ CleansUp(s)
  BY DEF StackSteps
<1>2. CASE ComesUp(s)
  BY <1>2 DEF ComesUp, Backing!ComesUp, Dependent!ComesUp
<1>3. CASE StartFails(s)
  BY <1>3 DEF StartFails, Backing!Fails, Dependent!Fails
<1>4. CASE CleansUp(s)
  BY <1>4 DEF CleansUp, Backing!CleansUp, Dependent!CleansUp
<1> QED BY <1>1, <1>2, <1>3, <1>4 DEF StackStarts

LEMMA BackingUsed ==
  ASSUME CInv, Started, [Next]_vars, ~StackSteps
  PROVE  [Backing!UserStep]_(Backing!nestedVars)
<1> USE DEF Started, CInv, TypeOK, Stages, Owners, Signals, BothUp, BothGone, Stack, Stopped,
            Gone, FirstToGo, Other, UserOf, Leaving, Back, ThreadDone, Backing!UserStep,
            Backing!nestedVars, Backing!Over, Backing!Release, Backing!Return
<1>1. CASE StartBacking
  BY <1>1 DEF StartBacking, CoordinatorSteps, Backing!Begin
<1>2. CASE BackingUp
  BY <1>2 DEF BackingUp, CoordinatorSteps, Backing!Begin, Backing!Receive
<1>3. CASE BackingFailed \/ DependentFailed \/ StartDropped \/ WorkPanics \/ ConnectFails
  BY <1>3 DEF BackingFailed, DependentFailed, StartDropped, WorkPanics, ConnectFails,
     CoordinatorSteps, Abandon
<1>4. CASE DependentUp \/ ConnectOk
  BY <1>4 DEF DependentUp, ConnectOk, CoordinatorSteps, Backing!Receive
<1>5. CASE SendHandoff
  BY <1>5 DEF SendHandoff, CoordinatorSteps
<1>6. CASE HandoffAcknowledged \/ HandoffRefused
  BY <1>6 DEF HandoffAcknowledged, HandoffRefused, CoordinatorSteps, TakeBack
<1>7. CASE DropSecond
  BY <1>7 DEF DropSecond, CoordinatorSteps
<1>8. CASE CoordinatorEnds
  BY <1>8 DEF CoordinatorEnds, CoordinatorSteps, AllDropped
<1>9. CASE ReceiveHandoff \/ Acknowledge \/ CloseWatch \/ ReceiveError \/ Joined \/ SignalCancel
  BY <1>9 DEF ReceiveHandoff, Acknowledge, TakeValue, CloseWatch, ReceiveError, Joined,
     SignalCancel, CallerSteps
<1>10. CASE ReleasePair \/ DropShutdown
  BY <1>10 DEF ReleasePair, DropShutdown, CallerSteps
<1>11. CASE ReleaseSecond
  BY <1>11 DEF ReleaseSecond, CallerSteps
<1>12. CASE PairReleased
  <2>1. /\ caller \in {"shutSecond", "dropSecond"} /\ caller' = "closed"
        /\ UNCHANGED <<stack, coord>>
        /\ BothGone /\ coord \in {"handoff", "done"}
        /\ \A s \in Stack : stack[s] # "absent"
    BY <1>12 DEF PairReleased, CallerSteps
  <2>2. UserOf("backing") = "leaving" /\ UserOf("backing")' = "back"
    BY <2>1
  <2> QED BY <2>1, <2>2
<1>13. CASE DropFuture \/ DeadlineExpires \/ Terminated \/ UNCHANGED vars
  BY <1>13 DEF DropFuture, CallerSteps, DeadlineExpires, Terminated, vars
<1> HIDE DEF Started, CInv, UserOf, Backing!UserStep, Backing!nestedVars
<1> QED
  BY <1>1, <1>2, <1>3, <1>4, <1>5, <1>6, <1>7, <1>8, <1>9, <1>10, <1>11, <1>12, <1>13
  DEF Next, CoordinatorProgress, CallerProgress

LEMMA DependentUsed ==
  ASSUME CInv, Started, [Next]_vars, ~StackSteps
  PROVE  [Dependent!UserStep]_(Dependent!nestedVars)
<1> USE DEF Started, CInv, TypeOK, Stages, Owners, Signals, BothUp, BothGone, Stack, Stopped,
            Gone, FirstToGo, Other, UserOf, Leaving, Back, ThreadDone, Dependent!UserStep,
            Dependent!nestedVars, Dependent!Over, Dependent!Release, Dependent!Return
<1>1. CASE StartBacking
  BY <1>1 DEF StartBacking, CoordinatorSteps, Dependent!Begin
<1>2. CASE BackingUp
  BY <1>2 DEF BackingUp, CoordinatorSteps, Dependent!Begin, Dependent!Receive
<1>3. CASE BackingFailed \/ DependentFailed \/ StartDropped \/ WorkPanics \/ ConnectFails
  BY <1>3 DEF BackingFailed, DependentFailed, StartDropped, WorkPanics, ConnectFails,
     CoordinatorSteps, Abandon
<1>4. CASE DependentUp \/ ConnectOk
  BY <1>4 DEF DependentUp, ConnectOk, CoordinatorSteps, Dependent!Receive
<1>5. CASE SendHandoff
  BY <1>5 DEF SendHandoff, CoordinatorSteps
<1>6. CASE HandoffAcknowledged \/ HandoffRefused
  BY <1>6 DEF HandoffAcknowledged, HandoffRefused, CoordinatorSteps, TakeBack
<1>7. CASE DropSecond
  BY <1>7 DEF DropSecond, CoordinatorSteps
<1>8. CASE CoordinatorEnds
  BY <1>8 DEF CoordinatorEnds, CoordinatorSteps, AllDropped
<1>9. CASE ReceiveHandoff \/ Acknowledge \/ CloseWatch \/ ReceiveError \/ Joined \/ SignalCancel
  BY <1>9 DEF ReceiveHandoff, Acknowledge, TakeValue, CloseWatch, ReceiveError, Joined,
     SignalCancel, CallerSteps
<1>10. CASE ReleasePair \/ DropShutdown
  BY <1>10 DEF ReleasePair, DropShutdown, CallerSteps
<1>11. CASE ReleaseSecond
  BY <1>11 DEF ReleaseSecond, CallerSteps
<1>12. CASE PairReleased
  <2>1. /\ caller \in {"shutSecond", "dropSecond"} /\ caller' = "closed"
        /\ UNCHANGED <<stack, coord>>
        /\ BothGone /\ coord \in {"handoff", "done"}
        /\ \A s \in Stack : stack[s] # "absent"
    BY <1>12 DEF PairReleased, CallerSteps
  <2>2. UserOf("dependent") = "back" /\ UserOf("dependent")' = "back"
    BY <2>1
  <2> QED BY <2>1, <2>2
<1>13. CASE DropFuture \/ DeadlineExpires \/ Terminated \/ UNCHANGED vars
  BY <1>13 DEF DropFuture, CallerSteps, DeadlineExpires, Terminated, vars
<1> HIDE DEF Started, CInv, UserOf, Dependent!UserStep, Dependent!nestedVars
<1> QED
  BY <1>1, <1>2, <1>3, <1>4, <1>5, <1>6, <1>7, <1>8, <1>9, <1>10, <1>11, <1>12, <1>13
  DEF Next, CoordinatorProgress, CallerProgress

\* Nothing in the composite keeps a stack from moving: whatever NestedStack lets a
\* stack do by itself is a step here at any time, with the rest as it was, so that
\* no behaviour of a nested supervisor is left out (the supervisor threads run on
\* their own beside the coordinator's, supervise_for_coordinator).
THEOREM StacksAreFree ==
  ASSUME TypeOK,
         UNCHANGED <<coord, result, value, channel, ack, watch, expired, caller, reported>>,
         \/ Backing!StackStep /\ stack' = [stack EXCEPT !["backing"] = stack'["backing"]]
         \/ Dependent!StackStep /\ stack' = [stack EXCEPT !["dependent"] = stack'["dependent"]]
  PROVE  Next
<1> SUFFICES StackSteps
  BY DEF Next
<1> USE DEF TypeOK, Stack
<1>1. CASE Backing!StackStep /\ stack' = [stack EXCEPT !["backing"] = stack'["backing"]]
  <2>1. CASE Backing!ComesUp
    <3>1. ComesUp("backing")
      BY <1>1, <2>1 DEF Backing!ComesUp, ComesUp
    <3> QED BY <3>1 DEF StackStarts, StackSteps
  <2>2. CASE Backing!Fails
    <3>1. StartFails("backing")
      BY <1>1, <2>2 DEF Backing!Fails, StartFails, Stopped, Gone
    <3> QED BY <3>1 DEF StackStarts, StackSteps
  <2>3. CASE Backing!CleansUp
    <3>1. CleansUp("backing")
      BY <1>1, <2>3 DEF Backing!CleansUp, CleansUp
    <3> QED BY <3>1 DEF StackSteps
  <2> QED BY <1>1, <2>1, <2>2, <2>3 DEF Backing!StackStep
<1>2. CASE Dependent!StackStep /\ stack' = [stack EXCEPT !["dependent"] = stack'["dependent"]]
  <2>1. CASE Dependent!ComesUp
    <3>1. ComesUp("dependent")
      BY <1>2, <2>1 DEF Dependent!ComesUp, ComesUp
    <3> QED BY <3>1 DEF StackStarts, StackSteps
  <2>2. CASE Dependent!Fails
    <3>1. StartFails("dependent")
      BY <1>2, <2>2 DEF Dependent!Fails, StartFails, Stopped, Gone
    <3> QED BY <3>1 DEF StackStarts, StackSteps
  <2>3. CASE Dependent!CleansUp
    <3>1. CleansUp("dependent")
      BY <1>2, <2>3 DEF Dependent!CleansUp, CleansUp
    <3> QED BY <3>1 DEF StackSteps
  <2> QED BY <1>2, <2>1, <2>2, <2>3 DEF Dependent!StackStep
<1> QED BY <1>1, <1>2

\* The coordinator and its caller use the two stacks as NestedStack allows:
\* neither goes on before the stack it released, dropped or saw fail is over.
THEOREM NestedStacksUsed == Spec => UsesNestedStacks
<1> DEFINE Role ==
      IF StackSteps
      THEN [Backing!StackStep]_(Backing!nestedVars) /\ [Dependent!StackStep]_(Dependent!nestedVars)
      ELSE [Backing!UserStep]_(Backing!nestedVars) /\ [Dependent!UserStep]_(Dependent!nestedVars)
<1>1. CInv /\ Started /\ [Next]_vars => Role
  BY StacksMove, BackingUsed, DependentUsed
<1>2. Role => [Backing!Next]_(Backing!nestedVars) /\ [Dependent!Next]_(Dependent!nestedVars)
  BY DEF Backing!Next, Dependent!Next
<1>3. CInv /\ Started /\ [Next]_vars =>
        [Role]_vars /\ [Backing!Next]_(Backing!nestedVars) /\ [Dependent!Next]_(Dependent!nestedVars)
  BY <1>1, <1>2
<1> HIDE DEF Role
<1>4. Spec => Backing!Spec /\ Dependent!Spec /\ [][Role]_vars
  BY <1>3, Starting, NestedInits, PTL DEF Spec, Backing!Spec, Dependent!Spec
<1> QED BY <1>4 DEF UsesNestedStacks, NestedRoles, Role
===============================================================================
