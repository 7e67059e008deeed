------------------------------ MODULE Supervisor ------------------------------
(***************************************************************************)
(* The fixture runtime supervisor (runtime/supervisor.rs, resources.rs):   *)
(* one caller future, one dedicated supervisor thread that runs the        *)
(* startup work and later the cleanup, one detached task per Docker create *)
(* request, and the Docker engine itself.                                  *)
(*                                                                         *)
(* The actors only meet in the shared state below: the result oneshot      *)
(* (channel), the cancellation watch (cancelled), the shutdown and         *)
(* completion oneshots of RuntimeHandle, the resource ledger, the mutation *)
(* registry (task) and Docker.                                             *)
(***************************************************************************)
EXTENDS Naturals, FiniteSets, SequencesExt

CONSTANTS
  Resource,   \* names of the networks and containers the work may create
  Networks,   \* the ones that are networks, the others are containers
  Jobs        \* the startups that may be supervised, each a plan and a mode

\* A plan is stages that run in order, a stage's resources together; names carry
\* a fresh UUID (topology_names_on, LndNames::scoped), so no name occurs twice in
\* it, and a network is planned before any container.
WellPlanned(plan) ==
  /\ plan \in Seq(Seq(Resource))
  /\ \A i, j \in DOMAIN plan : \A m \in DOMAIN plan[i], n \in DOMAIN plan[j] :
       /\ plan[i][m] = plan[j][n] => i = j /\ m = n
       /\ (plan[j][n] \in Networks /\ (i < j \/ (i = j /\ m < n)))
            => plan[i][m] \in Networks

ASSUME JobsAssumption ==
  /\ Networks \subseteq Resource
  /\ \A j \in Jobs : WellPlanned(j.plan) /\ j.mode \in {"Deadline", "Complete"}

VARIABLES
  job,        \* what this supervisor was spawned for
  stage,      \* how many stages of the plan the work has entered
  branch,     \* per resource: how far start_expected_container has come
  task,       \* per resource: its create request, run by its own tokio task
  ledger,     \* ResourceLedger::creation_order, the names only
  confirmed,  \* the names whose ledger entry carries the id Docker returned
  docker,     \* what exists in Docker
  supervisor, \* control point of the supervisor thread
  outcome,    \* what the startup work came to
  queue,      \* resources cleanup still has to remove, next one first
  failed,     \* resources whose removal met an engine error
  refused,    \* networks Docker refused to remove: a container is attached
  channel,    \* the oneshot that carries the startup result to the caller
  caller,     \* control point of the caller
  cancelled,  \* the watch flag CallerCancellation sets
  expired,    \* the shared Deadline has passed
  shutdown,   \* RuntimeHandle's shutdown sender was used or dropped
  completion, \* the oneshot that carries cleanup's result to shutdown()
  reported    \* the result RuntimeHandle::shutdown took from completion

\* The work, and CancellationWait: "Deadline" (supervise) or "Complete"
\* (supervise_for_coordinator).
Plan == job.plan
Mode == job.mode

workVars   == <<job, stage, branch>>
ledgerVars == <<ledger, confirmed>>
engineVars == <<task, docker>>
removalVars == <<queue, failed, refused>>
handleVars == <<shutdown, completion, reported>>
vars == <<job, stage, branch, task, ledger, confirmed, docker, supervisor, outcome,
          queue, failed, refused, channel, caller, cancelled, expired,
          shutdown, completion, reported>>

Init ==
  /\ job \in Jobs
  /\ stage = 0
  /\ branch = [r \in Resource |-> "idle"]
  /\ task = [r \in Resource |-> "none"]
  /\ ledger = <<>>
  /\ confirmed = {}
  /\ docker = {}
  /\ supervisor = "boot"
  /\ outcome = "none"
  /\ queue = <<>>
  /\ failed = {}
  /\ refused = {}
  /\ channel = "empty"
  /\ caller = "awaiting"
  /\ cancelled = FALSE
  /\ expired = FALSE
  /\ shutdown = FALSE
  /\ completion = "none"
  /\ reported = "none"

-------------------------------------------------------------------------------
(* The startup work, polled by the supervisor thread.                      *)

Working == supervisor = "work"

\* Every branch the work has opened has finished, well or badly.
Quiet == \A r \in Resource : branch[r] \in {"idle", "up", "failed"}

\* create_network, start_container and start_container_pair reserve every name
\* of the stage in the ledger before the first await.
ReserveContainers(names) ==   \* mutant: create_network forgets the ledger
  ledger' = ledger \o SelectSeq(names, LAMBDA r : r \notin Networks)

Reserve(names) == ledger' = ledger \o names

EnterStage ==
  /\ Working
  /\ Quiet
  /\ \A r \in Resource : branch[r] # "failed"
  /\ stage < Len(Plan)
  /\ stage' = stage + 1
  /\ Reserve(Plan[stage + 1])
  /\ branch' = [r \in Resource |->
                  IF r \in Range(Plan[stage + 1])
                  THEN (IF r \in Networks THEN "ready" ELSE "image")
                  ELSE branch[r]]
  /\ UNCHANGED <<job, task, confirmed, docker, supervisor, outcome, queue, failed,
                 refused, channel, caller, cancelled, expired, handleVars>>

SetBranch(r, to) ==
  /\ branch' = [branch EXCEPT ![r] = to]
  /\ UNCHANGED <<job, stage, ledgerVars, docker, supervisor, outcome, removalVars,
                 channel, caller, cancelled, expired, handleVars>>

EnsureImage(r) ==
  /\ Working
  /\ branch[r] = "image"
  /\ \E to \in {"ready", "failed"} : SetBranch(r, to)
  /\ UNCHANGED task

\* settle_mutation: no request leaves once the cancellation flag is up; the
\* request runs in a task of its own that is registered before the await.
RequestCreate(r) ==
  /\ Working
  /\ branch[r] = "ready"
  /\ ~cancelled
  /\ task' = [task EXCEPT ![r] = "requested"]
  /\ SetBranch(r, "creating")

CreateReturns(r) ==
  /\ Working
  /\ branch[r] = "creating"
  /\ \/ /\ task[r] = "ok"
        /\ SetBranch(r, IF r \in Networks THEN "up" ELSE "starting")
     \/ /\ task[r] = "error"
        /\ SetBranch(r, "failed")
  /\ UNCHANGED task

\* engine.start_container, then mapped_port for every exposed port.
StartContainer(r) ==
  /\ Working
  /\ branch[r] = "starting"
  /\ \E to \in {"up", "failed"} : SetBranch(r, to)
  /\ UNCHANGED task

-------------------------------------------------------------------------------
(* The create requests: tasks that outlive the work that spawned them.     *)

Settle(r, to) == task' = [task EXCEPT ![r] = to]

DockerCommits(r) ==
  /\ task[r] = "requested"
  /\ Settle(r, "committed")
  /\ docker' = docker \union {r}
  /\ UNCHANGED <<workVars, ledgerVars, supervisor, outcome, removalVars,
                 channel, caller, cancelled, expired, handleVars>>

DockerRejects(r) ==
  /\ task[r] = "requested"
  /\ Settle(r, "error")
  /\ UNCHANGED <<workVars, ledgerVars, docker, supervisor, outcome,
                 removalVars, channel, caller, cancelled, expired, handleVars>>

\* ResourceLedger::confirm is a no-op for a name the ledger does not hold.
Confirm(r) ==
  confirmed' = IF r \in Range(ledger) THEN confirmed \union {r} ELSE confirmed

CommitAnswered(r) ==
  /\ task[r] = "committed"
  /\ Settle(r, "ok")
  /\ Confirm(r)
  /\ UNCHANGED <<workVars, ledger, docker, supervisor, outcome, removalVars,
                 channel, caller, cancelled, expired, handleVars>>

\* Docker created the resource and its answer was lost.
CommitAnswerLost(r) ==
  /\ task[r] = "committed"
  /\ Settle(r, "error")
  /\ UNCHANGED <<workVars, ledgerVars, docker, supervisor, outcome,
                 removalVars, channel, caller, cancelled, expired, handleVars>>

-------------------------------------------------------------------------------
(* The supervisor thread.                                                  *)

\* oneshot::Sender::send: without a receiver the value is dropped.
Send(value) == channel' = IF channel = "empty" THEN value ELSE channel

IgnoreReceiver == FALSE       \* mutant: the result of send is not looked at

ReceiverGone == channel = "gone"

PublishLate == FALSE          \* mutant: every error waits for cleanup

PublishBeforeCleanup == Mode = "Deadline"

BootRuntime ==
  /\ supervisor = "boot"
  /\ supervisor' = "work"
  /\ UNCHANGED <<workVars, ledgerVars, engineVars, outcome, removalVars,
                 channel, caller, cancelled, expired, handleVars>>

BootFails ==
  /\ supervisor = "boot"
  /\ Send("error")
  /\ supervisor' = "ending"
  /\ outcome' = "error"
  /\ UNCHANGED <<workVars, ledgerVars, engineVars, removalVars, caller,
                 cancelled, expired, handleVars>>

\* The work returned its value. If nobody can receive it, the value and its
\* handle are dropped here, which uses up the shutdown sender.
WorkSucceeds ==
  /\ Working
  /\ stage = Len(Plan)
  /\ \A i \in DOMAIN Plan : \A r \in Range(Plan[i]) : branch[r] = "up"
  /\ outcome' = "ok"
  /\ Send("ok")
  /\ supervisor' = IF ReceiverGone THEN "settling" ELSE "serving"
  /\ shutdown' = ReceiverGone
  /\ UNCHANGED <<workVars, ledgerVars, engineVars, removalVars, caller,
                 cancelled, expired, completion, reported>>

\* The work returned an error (a finished branch or a protocol step failed, or
\* a phase ran out of the deadline with requests still in flight), or select!
\* saw the cancellation and dropped the work where it stood.
WorkFails ==
  /\ Working
  /\ Quiet \/ expired \/ cancelled
  /\ outcome' = "error"
  /\ supervisor' = "settling"
  /\ IF PublishBeforeCleanup THEN Send("error") ELSE UNCHANGED channel
  /\ UNCHANGED <<workVars, ledgerVars, engineVars, removalVars, caller,
                 cancelled, expired, handleVars>>

WorkPanics ==
  /\ Working
  /\ outcome' = "panic"
  /\ supervisor' = "settling"
  /\ UNCHANGED <<workVars, ledgerVars, engineVars, removalVars, channel,
                 caller, cancelled, expired, handleVars>>

ShutdownSignalled ==
  /\ supervisor = "serving"
  /\ shutdown
  /\ supervisor' = "settling"
  /\ UNCHANGED <<workVars, ledgerVars, engineVars, outcome, removalVars,
                 channel, caller, cancelled, expired, handleVars>>

\* cleanup awaits every registered mutation before it reads the ledger.
NothingAwaited == TRUE        \* mutant: cleanup does not await the tasks

MutationsSettled ==
  \A r \in Resource : task[r] \notin {"requested", "committed"}

\* ResourceLedger::take_cleanup_order: drain, last expected first.
CreationOrder == ledger       \* mutant: first created, first removed

CleanupOrder == Reverse(ledger)

BeginRemoval ==
  /\ supervisor = "settling"
  /\ MutationsSettled
  /\ queue' = CleanupOrder
  /\ ledger' = <<>>
  /\ supervisor' = "removing"
  /\ UNCHANGED <<workVars, confirmed, engineVars, outcome, failed, refused,
                 channel, caller, cancelled, expired, handleVars>>

\* Docker refuses to remove a network that still has containers attached.
Attached(r) == r \in Networks /\ docker \ Networks # {}

\* One remove_container or remove_network call, by id when confirmed and by
\* name otherwise. A missing resource counts as removed; an error is kept and
\* the next resource is tried all the same.
RemoveNext ==
  /\ supervisor = "removing"
  /\ queue # <<>>
  /\ queue' = Tail(queue)
  /\ LET r == Head(queue)
     IN \/ /\ ~Attached(r)
           /\ docker' = docker \ {r}
           /\ UNCHANGED <<failed, refused>>
        \/ /\ Attached(r)
           /\ refused' = refused \union {r}
           /\ UNCHANGED <<docker, failed>>
        \/ /\ failed' = failed \union {r}
           /\ UNCHANGED <<docker, refused>>
  /\ UNCHANGED <<workVars, ledgerVars, task, supervisor, outcome, channel,
                 caller, cancelled, expired, handleVars>>

LastPhaseResult ==            \* mutant: container errors are overwritten
  IF refused = {} THEN "ok" ELSE "error"

CleanupResult == IF failed \union refused = {} THEN "ok" ELSE "error"

\* What is sent once cleanup is over: its own result to the handle after a
\* successful startup, the startup error to the caller otherwise (a concrete
\* error in Deadline mode left before cleanup began).
ReportCleanup ==
  /\ supervisor = "removing"
  /\ queue = <<>>
  /\ supervisor' = "ending"
  /\ CASE outcome = "ok" ->
            /\ completion' = CleanupResult
            /\ UNCHANGED channel
       [] outcome = "panic" \/ ~PublishBeforeCleanup ->
            /\ Send("error")
            /\ UNCHANGED completion
       [] OTHER -> UNCHANGED <<channel, completion>>
  /\ UNCHANGED <<workVars, ledgerVars, engineVars, outcome, removalVars,
                 caller, cancelled, expired, shutdown, reported>>

\* The thread's closure returns and ThreadCompletion is dropped.
ThreadEnds ==
  /\ supervisor = "ending"
  /\ supervisor' = "done"
  /\ UNCHANGED <<workVars, ledgerVars, engineVars, outcome, removalVars,
                 channel, caller, cancelled, expired, handleVars>>

ThreadDone == supervisor = "done"

-------------------------------------------------------------------------------
(* The caller: supervise_with_wait after the spawn, then RuntimeHandle.    *)

CallerUnchanged == UNCHANGED <<workVars, ledgerVars, engineVars, supervisor,
                               outcome, removalVars, expired, completion>>

ReceiveValue ==
  /\ caller = "awaiting"
  /\ channel = "ok"
  /\ channel' = "taken"
  /\ caller' = "holding"
  /\ UNCHANGED <<cancelled, shutdown, reported>>
  /\ CallerUnchanged

\* In Deadline mode the thread is detached, in Complete mode it is joined.
ReceiveError ==
  /\ caller = "awaiting"
  /\ channel = "error"
  /\ channel' = "taken"
  /\ caller' = IF Mode = "Deadline" THEN "failed" ELSE "failing"
  /\ UNCHANGED <<cancelled, shutdown, reported>>
  /\ CallerUnchanged

JoinAfterError ==
  /\ caller = "failing"
  /\ ThreadDone
  /\ caller' = "failed"
  /\ UNCHANGED <<channel, cancelled, shutdown, reported>>
  /\ CallerUnchanged

\* The startup future is dropped. Its receiver goes first, with a result that
\* may already sit in the channel, and with that the handle inside it.
DropFuture ==
  /\ caller = "awaiting"
  /\ caller' = "dropped"
  /\ channel' = "gone"
  /\ shutdown' = (shutdown \/ channel = "ok")
  /\ UNCHANGED <<cancelled, reported>>
  /\ CallerUnchanged

\* CallerCancellation::drop, first half.
SignalCancel ==
  /\ caller = "dropped"
  /\ cancelled' = TRUE
  /\ caller' = "cancelling"
  /\ UNCHANGED <<channel, shutdown, reported>>
  /\ CallerUnchanged

JoinAlways == ThreadDone                 \* mutant: the join has no deadline

JoinUpToDeadline == ThreadDone \/ expired   \* mutant: Complete is bounded too

\* join_within_deadline: a Deadline guard detaches when its time is up.
JoinReturns == ThreadDone \/ (Mode = "Deadline" /\ expired)

LeaveCancelled ==
  /\ caller = "cancelling"
  /\ JoinReturns
  /\ caller' = "gone"
  /\ UNCHANGED <<channel, cancelled, shutdown, reported>>
  /\ CallerUnchanged

CallShutdown ==
  /\ caller = "holding"
  /\ shutdown' = TRUE
  /\ caller' = "shutting"
  /\ UNCHANGED <<channel, cancelled, reported>>
  /\ CallerUnchanged

TakeCompletion ==
  /\ caller = "shutting"
  /\ completion # "none"
  /\ reported' = completion
  /\ caller' = "joining"
  /\ UNCHANGED <<channel, cancelled, shutdown>>
  /\ CallerUnchanged

\* Drop of the handle, or of a shutdown() future that was still waiting.
DropHandle ==
  /\ caller \in {"holding", "shutting"}
  /\ shutdown' = TRUE
  /\ caller' = "joining"
  /\ UNCHANGED <<channel, cancelled, reported>>
  /\ CallerUnchanged

JoinThread ==
  /\ caller = "joining"
  /\ ThreadDone
  /\ caller' = "closed"
  /\ UNCHANGED <<channel, cancelled, shutdown, reported>>
  /\ CallerUnchanged

DeadlineExpires ==
  /\ ~expired
  /\ expired' = TRUE
  /\ UNCHANGED <<workVars, ledgerVars, engineVars, supervisor, outcome,
                 removalVars, channel, caller, cancelled, handleVars>>

-------------------------------------------------------------------------------
Finished == ThreadDone /\ caller \in {"failed", "gone", "closed"}

\* Everything has been said and done, and the clock may stop too.
Terminated == Finished /\ expired /\ UNCHANGED vars

Work(r) == EnsureImage(r) \/ RequestCreate(r) \/ CreateReturns(r) \/ StartContainer(r)

Engine(r) == DockerCommits(r) \/ DockerRejects(r) \/ CommitAnswered(r)
               \/ CommitAnswerLost(r)

Thread ==
  \/ BootRuntime \/ BootFails \/ WorkSucceeds \/ WorkFails \/ WorkPanics
  \/ ShutdownSignalled \/ BeginRemoval \/ ReportCleanup \/ ThreadEnds

\* What the caller's code does by itself once a choice is made for it.
CallerSteps == ReceiveValue \/ ReceiveError \/ JoinAfterError \/ SignalCancel
                 \/ LeaveCancelled \/ TakeCompletion \/ JoinThread

CallerChoices == DropFuture \/ CallShutdown \/ DropHandle

Next ==
  \/ EnterStage
  \/ \E r \in Resource : Work(r) \/ Engine(r)
  \/ Thread
  \/ RemoveNext
  \/ CallerSteps
  \/ CallerChoices
  \/ DeadlineExpires
  \/ Terminated

Spec == Init /\ [][Next]_vars

-------------------------------------------------------------------------------
(* Fairness. The supervisor thread is scheduled, and every phase of the    *)
(* work is bounded by the shared deadline, so it moves on or fails; the    *)
(* caller's own code runs once its choice is made; the clock runs. Docker  *)
(* answers only where EngineAnswers says so, and nobody has to drop or     *)
(* shut down anything.                                                     *)

ThreadProgress ==
  \/ BootRuntime \/ BootFails \/ EnterStage \/ WorkSucceeds \/ WorkFails
  \/ ShutdownSignalled \/ BeginRemoval \/ ReportCleanup \/ ThreadEnds

Scheduling ==
  /\ WF_vars(ThreadProgress)
  /\ WF_vars(CallerSteps)
  /\ WF_vars(DeadlineExpires)

EngineAnswers ==
  /\ \A r \in Resource : WF_vars(Engine(r))
  /\ WF_vars(RemoveNext)

StuckEngineSpec == Spec /\ Scheduling
AnsweringSpec   == Spec /\ Scheduling /\ EngineAnswers

-------------------------------------------------------------------------------
(* Properties.                                                             *)

\* Every variable has its type (the states of supervise_with_wait, Startup,
\* ResourceLedger, CallerCancellation and RuntimeHandle).
TypeOK ==
  /\ job \in Jobs
  /\ stage \in 0..Len(Plan)
  /\ branch \in [Resource -> {"idle", "image", "ready", "creating", "starting",
                              "up", "failed"}]
  /\ task \in [Resource -> {"none", "requested", "committed", "ok", "error"}]
  /\ ledger \in Seq(Resource)
  /\ confirmed \subseteq Resource
  /\ docker \subseteq Resource
  /\ supervisor \in {"boot", "work", "serving", "settling", "removing",
                     "ending", "done"}
  /\ outcome \in {"none", "ok", "error", "panic"}
  /\ queue \in Seq(Resource)
  /\ failed \subseteq Resource
  /\ refused \subseteq Resource
  /\ channel \in {"empty", "ok", "error", "taken", "gone"}
  /\ caller \in {"awaiting", "failing", "failed", "dropped", "cancelling",
                 "gone", "holding", "shutting", "joining", "closed"}
  /\ cancelled \in BOOLEAN
  /\ expired \in BOOLEAN
  /\ shutdown \in BOOLEAN
  /\ completion \in {"none", "ok", "error"}
  /\ reported \in {"none", "ok", "error"}

\* Whatever ended the startup - cancellation with a create in flight, a
\* deadline, a panic in one branch of a pair - no create request is open once
\* cleanup starts removing, and each one Docker answered had its id recorded
\* before the ledger was drained (settle_mutation, cleanup).
CleanupSettled ==
  supervisor \in {"removing", "ending", "done"} =>
    \A r \in Resource : /\ task[r] \notin {"requested", "committed"}
                        /\ task[r] = "ok" => r \in confirmed

\* When the supervisor thread is over, anything of this startup that is still
\* in Docker is something whose own removal call failed: a resource that was
\* committed late, or whose create answer was lost, is not forgotten.
NothingLeaks == ThreadDone => docker \subseteq failed \union refused

\* Docker never has to refuse the network because of the order of cleanup: it
\* does so only when the removal of one of its containers already failed.
RefusalNeedsFailure == refused # {} => failed \ Networks # {}

\* Creation order of two planned resources, by stage and then within a pair.
PlannedBefore(r, s) ==
  \E i, j \in DOMAIN Plan : \E m \in DOMAIN Plan[i], n \in DOMAIN Plan[j] :
    /\ Plan[i][m] = r
    /\ Plan[j][n] = s
    /\ i < j \/ (i = j /\ m < n)

\* Cleanup removes in the reverse of the order the work planned, not of the
\* order in which Docker happened to answer: Bob before Alice, Electrs before
\* the node, the network last (start_container_pair, take_cleanup_order).
TeardownOrder ==
  \A i, j \in DOMAIN queue : i < j => PlannedBefore(queue[j], queue[i])

\* A caller that got control back from shutdown(), from the handle's Drop or,
\* in Complete mode, from a failed or dropped startup, finds nothing left in
\* Docker but what could not be removed, so a coordinator may go on to the
\* network this startup used.
ReturnedMeansCleaned ==
  (caller = "closed" \/ (Mode = "Complete" /\ caller \in {"failed", "gone"}))
    => docker \subseteq failed \union refused

\* Removal runs in the reverse of the plan, in whatever order Docker answered
\* the creates, and a caller that got control back finds it over: for the LND
\* nodes also after a failed or dropped startup, whose guard has no deadline, so
\* that their network's owner may go next (take_cleanup_order, join_completed).
OrderlyTeardown == TeardownOrder /\ ReturnedMeansCleaned

\* RuntimeHandle::shutdown returns Ok only when nothing was left behind.
ShutdownTellsTheTruth == reported = "ok" => docker = {}

\* A supervisor that waits for its shutdown signal has somebody left who holds
\* the handle, or finds it in the channel: a startup future dropped between
\* the send and the receive does not leave a thread and a stack for ever.
NoOrphanedStack ==
  supervisor = "serving" =>
    \/ shutdown
    \/ caller = "holding"
    \/ caller = "awaiting" /\ channel = "ok"

\* The supervisor implements the abstract ownership of OwnedResources: claimed
\* before it exists, and nothing new from the moment cleanup begins to remove.
OwnedPhase == CASE supervisor \in {"boot", "work", "serving", "settling"} -> "acquiring"
                [] supervisor = "removing" -> "releasing"
                [] OTHER -> "released"

Owned == INSTANCE OwnedResources WITH
  phase     <- OwnedPhase,
  owned     <- Range(ledger) \union Range(queue),
  world     <- docker,
  abandoned <- failed \union refused

\* Every behaviour of the supervisor is one of the abstract specification.
ImplementsOwnership == Owned!Spec

\* In Complete mode the supervisor is one stack of a composite (NestedStack).
NestedLife ==
  CASE ThreadDone -> IF failed \union refused = {} THEN "removed" ELSE "left"
    [] ~ThreadDone /\ (\/ shutdown \/ caller \in {"dropped", "cancelling"}
                       \/ supervisor \in {"settling", "removing", "ending"}) -> "stopping"
    [] OTHER -> IF supervisor = "serving" THEN "up" ELSE "starting"

NestedUser ==
  CASE caller = "awaiting" -> "waiting"
    [] caller = "holding" -> "has"
    [] caller \in {"failed", "gone", "closed"} -> "back"
    [] OTHER -> "leaving"

Nested == INSTANCE NestedStack WITH
  life <- NestedLife,
  user <- NestedUser,
  told <- IF caller = "closed" THEN reported ELSE "none"

\* What Coordinator assumes of its stacks is what a supervisor in Complete mode
\* does (supervise_for_coordinator, join_completed): the caller's steps are the
\* user's there, and those of the thread, its tasks and Docker are the stack's.
NestedRoles ==
  [][IF CallerSteps \/ CallerChoices
     THEN [Nested!UserStep]_(Nested!nestedVars)
     ELSE [Nested!StackStep]_(Nested!nestedVars)]_vars

ImplementsNestedStack == Nested!Spec /\ NestedRoles

\* However the startup ends - shut down, dropped at any await, failed or
\* panicked - cleanup runs to its end if Docker answers.
CleanupCompletes ==
  (shutdown \/ cancelled \/ outcome \in {"error", "panic"}) ~> ThreadDone

\* A startup future that is polled gets its answer.
StartupAnswers == caller = "awaiting" ~> caller # "awaiting"

\* Deadline mode: a concrete startup error reaches the caller although Docker
\* never answers another removal (published before cleanup).
ErrorIsPrompt == outcome = "error" ~> caller # "awaiting"

\* Deadline mode: dropping the startup future blocks the dropping thread no
\* longer than the deadline, although Docker never answers.
DropIsBounded == caller = "dropped" ~> caller = "gone"
===============================================================================
