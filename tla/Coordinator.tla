------------------------------ MODULE Coordinator ------------------------------
(***************************************************************************)
(* Composite startup (coordinate_startup in runtime/supervisor.rs, and its *)
(* users PegPair and LndPair): a coordinator thread brings up a backing    *)
(* Bitcoin stack and a dependent stack on its network, and hands the pair  *)
(* over to the caller through a slot both of them can empty.               *)
(*                                                                         *)
(* A stack stands for one supervisor in Complete mode (module Supervisor): *)
(* its startup future returns, and its handle's drop or shutdown returns,  *)
(* only when that supervisor's thread is over.                             *)
(***************************************************************************)
EXTENDS Naturals

CONSTANT Connects    \* PegPair verifies the pair (Peg::connect) once both
                     \* stacks are up, LndPair has no such step

ASSUME ConnectsAssumption == Connects \in BOOLEAN

Stack == {"backing", "dependent"}

VARIABLES
  stack,      \* life of each stack
  coord,      \* control point of the coordinator thread
  result,     \* what the coordinated work came to
  value,      \* who holds the started pair
  channel,    \* the oneshot that carries the handoff or the error
  ack,        \* the acknowledgement oneshot inside PendingHandoff
  watch,      \* the cancellation watch: set, or closed with its sender
  expired,    \* the shared Deadline has passed
  caller,     \* control point of the caller
  reported    \* what the pair's shutdown() returned

vars == <<stack, coord, result, value, channel, ack, watch, expired, caller,
          reported>>

Init ==
  /\ stack = [s \in Stack |-> "absent"]
  /\ coord = "boot"
  /\ result = "none"
  /\ value = "none"
  /\ channel = "empty"
  /\ ack = "open"
  /\ watch = "open"
  /\ expired = FALSE
  /\ caller = "awaiting"
  /\ reported = "none"

-------------------------------------------------------------------------------
(* The stacks' own supervisors.                                            *)

Gone(s) == stack[s] \in {"absent", "removed", "left"}

StoppedIfUp(s) ==       \* mutant: a dropped startup goes on
  [stack EXCEPT ![s] = IF @ = "up" THEN "stopping" ELSE @]

\* Dropping a startup future, dropping a handle and calling shutdown all end in
\* cleanup; a supervisor that is over, or never began, stays as it is.
Stopped(s) == [stack EXCEPT ![s] = IF Gone(s) THEN @ ELSE "stopping"]

ComesUp(s) ==
  /\ stack[s] = "starting"
  /\ stack' = [stack EXCEPT ![s] = "up"]
  /\ UNCHANGED <<coord, result, value, channel, ack, watch, expired, caller,
                 reported>>

StartFails(s) ==
  /\ stack[s] = "starting"
  /\ stack' = Stopped(s)
  /\ UNCHANGED <<coord, result, value, channel, ack, watch, expired, caller,
                 reported>>

\* Cleanup is over: everything removed, or something could not be.
CleansUp(s) ==
  /\ stack[s] = "stopping"
  /\ \E to \in {"removed", "left"} : stack' = [stack EXCEPT ![s] = to]
  /\ UNCHANGED <<coord, result, value, channel, ack, watch, expired, caller,
                 reported>>

-------------------------------------------------------------------------------
(* The coordinator thread.                                                 *)

CoordinatorSteps(from) ==
  /\ coord = from
  /\ UNCHANGED <<ack, watch, expired, caller, reported>>

\* The field order of PegHandles and LndHandles, and the order of the two
\* shutdown calls.
BackingFirst == "backing"       \* mutant: the fields swapped

FirstToGo == "dependent"

Other(s) == IF s = "dependent" THEN "backing" ELSE "dependent"

StartBacking ==
  /\ CoordinatorSteps("boot")
  /\ \/ /\ coord' = "startBacking"
        /\ stack' = [stack EXCEPT !["backing"] = "starting"]
        /\ UNCHANGED <<result, channel>>
     \/ /\ coord' = "done"      \* the thread's runtime could not be built
        /\ result' = "error"
        /\ channel' = IF channel = "empty" THEN "error" ELSE channel
        /\ UNCHANGED stack
  /\ UNCHANGED value

BackingUp ==
  /\ CoordinatorSteps("startBacking")
  /\ stack["backing"] = "up"
  /\ stack' = [stack EXCEPT !["dependent"] = "starting"]
  /\ coord' = "startDependent"
  /\ UNCHANGED <<result, value, channel>>

\* The work is over without a pair. What it still holds is dropped on the way
\* out: the in-flight startup first, then the backing stack.
Abandon ==
  /\ result' = "error"
  /\ stack' = Stopped(FirstToGo)
  /\ coord' = "dropFirst"
  /\ UNCHANGED <<value, channel>>

BackingFailed ==
  /\ CoordinatorSteps("startBacking")
  /\ Gone("backing")
  /\ Abandon

DependentFailed ==
  /\ CoordinatorSteps("startDependent")
  /\ Gone("dependent")
  /\ Abandon

\* CoordinatorCancellation::cancelled: set, or the sender is gone.
CancelSeen == watch # "open"

\* select! saw the cancellation before it saw the startup's result, or, for
\* LndPair, deadline.run around the nested supervisor timed out.
StartDropped ==
  /\ \/ CoordinatorSteps("startBacking") /\ CancelSeen
     \/ CoordinatorSteps("startDependent") /\ (CancelSeen \/ (expired /\ ~Connects))
  /\ Abandon

DependentUp ==
  /\ CoordinatorSteps("startDependent")
  /\ stack["dependent"] = "up"
  /\ coord' = IF Connects THEN "connect" ELSE "send"
  /\ UNCHANGED <<stack, result, value, channel>>

ConnectOk ==
  /\ CoordinatorSteps("connect")
  /\ coord' = "send"
  /\ UNCHANGED <<stack, result, value, channel>>

\* Peg::connect failed, timed out or was cancelled; `handles` drops both.
ConnectFails ==
  /\ CoordinatorSteps("connect")
  /\ result' = "error"
  /\ stack' = Stopped(FirstToGo)
  /\ coord' = "dropFirst"
  /\ UNCHANGED <<value, channel>>

\* A panic unwinds the work: catch_unwind, after the same drops.
WorkPanics ==
  /\ \E from \in {"startBacking", "startDependent"} : CoordinatorSteps(from)
  /\ Abandon

\* PendingHandoff is sent; without a receiver the pair is dropped right here.
SendHandoff ==
  /\ CoordinatorSteps("send")
  /\ result' = "value"
  /\ IF channel = "empty"
     THEN /\ channel' = "handoff"
          /\ value' = "slot"
          /\ coord' = "handoff"
          /\ UNCHANGED stack
     ELSE /\ coord' = "dropFirst"
          /\ stack' = Stopped(FirstToGo)
          /\ UNCHANGED <<channel, value>>

\* take_handoff_value empties the slot once, for whoever comes first.
TakeBack ==
  IF value = "slot"
  THEN /\ value' = "none"
       /\ stack' = Stopped(FirstToGo)
       /\ coord' = "dropFirst"
  ELSE /\ coord' = "done"
       /\ UNCHANGED <<value, stack>>

HandoffAcknowledged ==
  /\ CoordinatorSteps("handoff")
  /\ ack = "sent"
  /\ coord' = "done"
  /\ UNCHANGED <<stack, result, value, channel>>

\* The handoff was dropped unacknowledged, or the biased select polled the
\* acknowledgement too early and then found the watch changed.
HandoffRefused ==
  /\ CoordinatorSteps("handoff")
  /\ ack = "dropped" \/ CancelSeen
  /\ TakeBack
  /\ UNCHANGED <<result, channel>>

\* The first stack's handle, or startup future, has been joined: the second is
\* dropped or shut down.
DropSecond ==
  /\ CoordinatorSteps("dropFirst")
  /\ Gone(FirstToGo)
  /\ stack' = Stopped(Other(FirstToGo))
  /\ coord' = "dropSecond"
  /\ UNCHANGED <<result, value, channel>>

\* The thread ends; an error is sent only now, after all cleanup.
ErrorFirst == Gone("dependent")    \* mutant: does not wait for the backing stack

AllDropped == \A s \in Stack : Gone(s)

CoordinatorEnds ==
  /\ CoordinatorSteps("dropSecond")
  /\ AllDropped
  /\ coord' = "done"
  /\ channel' = IF result = "error" /\ channel = "empty" THEN "error" ELSE channel
  /\ UNCHANGED <<stack, result, value>>

ThreadDone == coord = "done"

-------------------------------------------------------------------------------
(* The caller: coordinate_startup after the spawn, then the pair itself.   *)

CallerSteps(from, to) ==
  /\ caller = from
  /\ caller' = to
  /\ UNCHANGED <<coord, result, expired>>

ReceiveHandoff ==
  /\ channel = "handoff"
  /\ channel' = "taken"
  /\ CallerSteps("awaiting", "received")
  /\ UNCHANGED <<stack, value, ack, watch, reported>>

LeaveInSlot == UNCHANGED value     \* mutant: acknowledges without taking

TakeValue == value' = "caller"

\* PendingHandoff::acknowledge.
Acknowledge ==
  /\ TakeValue
  /\ ack' = "sent"
  /\ CallerSteps("received", "acknowledged")
  /\ UNCHANGED <<stack, channel, watch, reported>>

\* join_completed drops the watch sender and joins, up to the deadline.
CloseWatch ==
  /\ watch' = "closed"
  /\ CallerSteps("acknowledged", "joining")
  /\ UNCHANGED <<stack, value, channel, ack, reported>>

ReceiveError ==
  /\ channel = "error"
  /\ channel' = "taken"
  /\ watch' = "closed"
  /\ CallerSteps("awaiting", "failing")
  /\ UNCHANGED <<stack, value, ack, reported>>

JoinAlways == ThreadDone           \* mutant: the join has no deadline

JoinReturns == ThreadDone \/ expired

Joined ==
  /\ JoinReturns
  /\ \/ CallerSteps("joining", "holding")
     \/ CallerSteps("failing", "failed")
     \/ CallerSteps("cancelling", "gone")
  /\ UNCHANGED <<stack, value, channel, ack, watch, reported>>

\* The caller's future is dropped, by the user or by deadline.run around it.
\* Its receiver goes first, with a handoff that sits in it or was received.
DropFuture ==
  /\ CallerSteps("awaiting", "dropped") \/ CallerSteps("received", "dropped")
  /\ ack' = IF channel = "handoff" \/ caller = "received" THEN "dropped" ELSE ack
  /\ channel' = "gone"
  /\ UNCHANGED <<stack, value, watch, reported>>

SignalCancel ==
  /\ watch' = "cancelled"
  /\ CallerSteps("dropped", "cancelling")
  /\ UNCHANGED <<stack, value, channel, ack, reported>>

\* shutdown() or drop of the pair, which may also replace a waiting shutdown().
ReleasePair ==
  /\ CallerSteps("holding", "shutFirst") \/ CallerSteps("holding", "dropFirst")
  /\ stack' = Stopped(FirstToGo)
  /\ UNCHANGED <<value, channel, ack, watch, reported>>

DropShutdown ==
  /\ CallerSteps("shutFirst", "dropFirst") \/ CallerSteps("shutSecond", "dropSecond")
  /\ UNCHANGED <<stack, value, channel, ack, watch, reported>>

ReleaseSecond ==
  /\ Gone(FirstToGo)
  /\ CallerSteps("shutFirst", "shutSecond") \/ CallerSteps("dropFirst", "dropSecond")
  /\ stack' = Stopped(Other(FirstToGo))
  /\ UNCHANGED <<value, channel, ack, watch, reported>>

LastResult ==             \* mutant: only the second phase is reported
  IF stack[Other(FirstToGo)] = "removed" THEN "ok" ELSE "error"

BothResults ==
  IF \A s \in Stack : stack[s] = "removed" THEN "ok" ELSE "error"

PairReleased ==
  /\ Gone(Other(FirstToGo))
  /\ \/ /\ CallerSteps("shutSecond", "closed")
        /\ reported' = BothResults
     \/ /\ CallerSteps("dropSecond", "closed")
        /\ UNCHANGED reported
  /\ value' = "none"
  /\ UNCHANGED <<stack, channel, ack, watch>>

DeadlineExpires ==
  /\ ~expired
  /\ expired' = TRUE
  /\ UNCHANGED <<stack, coord, result, value, channel, ack, watch, caller, reported>>

-------------------------------------------------------------------------------
\* Everything has been said and done, and the clock may stop too.
Terminated ==
  /\ ThreadDone /\ expired /\ caller \in {"failed", "gone", "closed"}
  /\ UNCHANGED vars

StackStarts(s) == ComesUp(s) \/ StartFails(s)

StackSteps == \E s \in Stack : StackStarts(s) \/ CleansUp(s)

CoordinatorProgress ==
  \/ StartBacking \/ BackingUp \/ BackingFailed \/ DependentFailed \/ StartDropped
  \/ DependentUp \/ ConnectOk \/ ConnectFails \/ SendHandoff
  \/ HandoffAcknowledged \/ HandoffRefused \/ DropSecond \/ CoordinatorEnds

\* What the caller's code does by itself once a choice is made for it.
CallerProgress ==
  \/ ReceiveHandoff \/ Acknowledge \/ CloseWatch \/ ReceiveError \/ Joined
  \/ SignalCancel \/ ReleaseSecond \/ PairReleased

Next ==
  \/ StackSteps
  \/ CoordinatorProgress
  \/ WorkPanics
  \/ CallerProgress
  \/ DropFuture
  \/ ReleasePair
  \/ DropShutdown
  \/ DeadlineExpires
  \/ Terminated

Spec == Init /\ [][Next]_vars

\* The threads are scheduled, the clock runs, deadline.run drops the waiting
\* future once the deadline has passed, and a startup under the deadline ends.
\* Docker finishes a cleanup only where EngineAnswers says so.
Scheduling ==
  /\ WF_vars(CoordinatorProgress)
  /\ WF_vars(CallerProgress)
  /\ WF_vars(expired /\ DropFuture)
  /\ WF_vars(DeadlineExpires)
  /\ \A s \in Stack : WF_vars(StackStarts(s))

EngineAnswers == \A s \in Stack : WF_vars(CleansUp(s))

StuckEngineSpec == Spec /\ Scheduling
AnsweringSpec   == Spec /\ Scheduling /\ EngineAnswers

-------------------------------------------------------------------------------
(* Properties.                                                             *)

\* Every variable has its type (coordinate_startup, PendingHandoff, PegPair).
TypeOK ==
  /\ stack \in [Stack -> {"absent", "starting", "up", "stopping", "removed", "left"}]
  /\ coord \in {"boot", "startBacking", "startDependent", "connect", "send",
                "handoff", "dropFirst", "dropSecond", "done"}
  /\ result \in {"none", "value", "error"}
  /\ value \in {"none", "slot", "caller"}
  /\ channel \in {"empty", "handoff", "error", "taken", "gone"}
  /\ ack \in {"open", "sent", "dropped"}
  /\ watch \in {"open", "cancelled", "closed"}
  /\ expired \in BOOLEAN
  /\ caller \in {"awaiting", "received", "acknowledged", "joining", "holding",
                 "failing", "failed", "dropped", "cancelling", "gone",
                 "shutFirst", "shutSecond", "dropFirst", "dropSecond", "closed"}
  /\ reported \in {"none", "ok", "error"}

\* The dependent stack never outlives the backing one: the network and the
\* Bitcoin node are touched only when the dependent supervisor is over, in a
\* shutdown, a drop, a cancellation, a failure or a refused handoff
\* (PegHandles, LndHandles, start_peg_stacks).
DependentFirst ==
  stack["backing"] \in {"stopping", "removed", "left"} => Gone("dependent")

\* The coordinator takes the pair back only when the caller has given up:
\* acknowledge() cannot find the slot empty (its expect cannot fail), and a
\* caller that has acknowledged owns a pair nobody is tearing down, although it
\* closes the watch while the coordinator may still look at it.
PairIsLive ==
  /\ caller = "received" => value = "slot"
  /\ caller \in {"acknowledged", "joining", "holding"} =>
       value = "caller" /\ \A s \in Stack : stack[s] = "up"

\* A coordinator thread that ends without a caller who owns the pair has
\* cleaned up both stacks, and so has one that reported an error (unlike a
\* single fixture, which publishes its error before cleanup).
NothingLeftBehind ==
  ((ThreadDone /\ value # "caller") \/ caller \in {"failing", "failed", "closed"})
    => \A s \in Stack : Gone(s)

\* The pair's shutdown() returns Ok only when both phases removed everything.
ShutdownTellsTheTruth ==
  reported = "ok" => \A s \in Stack : stack[s] = "removed"

\* Each stack seen on its own, with what the composite does about it.
Leaving(s) ==
  IF s = FirstToGo
  THEN coord = "dropFirst" \/ caller \in {"shutFirst", "dropFirst"}
  ELSE coord = "dropSecond" \/ caller \in {"shutSecond", "dropSecond"}

Back(s) ==
  \/ (ThreadDone /\ value = "none") \/ caller = "closed"
  \/ s = FirstToGo /\ (coord = "dropSecond" \/ caller \in {"shutSecond", "dropSecond"})

UserOf(s) ==
  CASE stack[s] = "absent" -> "none"
    [] stack[s] # "absent" /\ Leaving(s) -> "leaving"
    [] stack[s] # "absent" /\ Back(s) -> "back"
    [] OTHER -> IF coord = (IF s = "backing" THEN "startBacking" ELSE "startDependent")
                     \/ (s = "backing" /\ coord = "dropFirst" /\ stack["dependent"] = "absent")
                THEN "waiting" ELSE "has"

Backing == INSTANCE NestedStack WITH
  life <- stack["backing"], user <- UserOf("backing"), told <- "none"

Dependent == INSTANCE NestedStack WITH
  life <- stack["dependent"], user <- UserOf("dependent"), told <- "none"

\* The composite uses each stack the way a supervisor in Complete mode lets
\* itself be used: it goes on from a dropped, failed or released stack only
\* when that stack is over (module NestedStack, supervise_for_coordinator). The
\* steps of coordinator and caller are the user's, the stacks make their own.
NestedRoles ==
  [][IF StackSteps
     THEN [Backing!StackStep]_(Backing!nestedVars) /\ [Dependent!StackStep]_(Dependent!nestedVars)
     ELSE [Backing!UserStep]_(Backing!nestedVars) /\ [Dependent!UserStep]_(Dependent!nestedVars)]_vars

UsesNestedStacks == Backing!Spec /\ Dependent!Spec /\ NestedRoles

\* start() returns by its deadline, give or take scheduling, although Docker
\* never finishes a cleanup: the public guard detaches the coordinator.
StartIsBounded == caller = "awaiting" ~> caller \in {"holding", "failed", "gone"}

\* A dropped startup, a shutdown and a dropped pair all end with both stacks
\* cleaned up, detached coordinator or not, if Docker answers.
CleanupCompletes ==
  caller \in {"dropped", "shutFirst", "dropFirst"} ~> \A s \in Stack : Gone(s)
===============================================================================
