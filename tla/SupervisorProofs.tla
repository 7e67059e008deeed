--------------------------- MODULE SupervisorProofs ---------------------------
(***************************************************************************)
(* Theorems about Supervisor, for every set of resources, every plan and   *)
(* both cancellation modes.                                                *)
(***************************************************************************)
EXTENDS Supervisor, TLAPS

\* take_cleanup_order keeps the ledger's resources, whatever the order.
LEMMA ReverseSeq ==
  ASSUME NEW S, NEW s \in Seq(S)
  PROVE  Reverse(s) \in Seq(S) /\ Range(Reverse(s)) = Range(s)
<1>1. Reverse(s) \in Seq(S)
  BY DEF Reverse
<1>2. ASSUME NEW x \in Range(s) PROVE x \in Range(Reverse(s))
  <2>1. PICK i \in 1..Len(s) : x = s[i]
    BY DEF Range
  <2>2. Len(s) - i + 1 \in 1..Len(s) /\ Reverse(s)[Len(s) - i + 1] = s[i]
    BY DEF Reverse
  <2> QED BY <2>1, <2>2 DEF Range, Reverse
<1>3. ASSUME NEW x \in Range(Reverse(s)) PROVE x \in Range(s)
  <2>1. PICK i \in 1..Len(s) : x = Reverse(s)[i]
    BY DEF Range, Reverse
  <2>2. Len(s) - i + 1 \in 1..Len(s) /\ Reverse(s)[i] = s[Len(s) - i + 1]
    BY DEF Reverse
  <2> QED BY <2>1, <2>2 DEF Range
<1> QED BY <1>1, <1>2, <1>3

\* Reserving a stage keeps what was reserved before it.
LEMMA ConcatSeq ==
  ASSUME NEW S, NEW s \in Seq(S), NEW t \in Seq(S)
  PROVE  s \o t \in Seq(S) /\ Range(s \o t) = Range(s) \union Range(t)
<1>1. s \o t \in Seq(S) /\ Len(s \o t) = Len(s) + Len(t)
  OBVIOUS
<1>2. ASSUME NEW x \in Range(s) PROVE x \in Range(s \o t)
  BY <1>1 DEF Range
<1>3. ASSUME NEW x \in Range(t) PROVE x \in Range(s \o t)
  <2>1. PICK i \in 1..Len(t) : x = t[i]
    BY DEF Range
  <2>2. Len(s) + i \in 1..Len(s \o t) /\ (s \o t)[Len(s) + i] = t[i]
    BY <1>1
  <2> QED BY <2>1, <2>2, <1>1 DEF Range
<1>4. ASSUME NEW x \in Range(s \o t) PROVE x \in Range(s) \union Range(t)
  <2>1. PICK i \in 1..(Len(s) + Len(t)) : x = (s \o t)[i]
    BY <1>1 DEF Range
  <2>2. CASE i <= Len(s)
    BY <2>1, <2>2 DEF Range
  <2>3. CASE i > Len(s)
    <3>1. i - Len(s) \in 1..Len(t) /\ x = t[i - Len(s)]
      BY <2>1, <2>3
    <3> QED BY <3>1 DEF Range
  <2> QED BY <2>2, <2>3
<1> QED BY <1>1, <1>2, <1>3, <1>4

\* One removal takes the head of the queue and nothing else.
LEMMA TailSeq ==
  ASSUME NEW S, NEW s \in Seq(S), s # <<>>
  PROVE  /\ Tail(s) \in Seq(S)
         /\ Head(s) \in S
         /\ Range(s) = {Head(s)} \union Range(Tail(s))
<1>1. Tail(s) \in Seq(S) /\ Head(s) \in S /\ Len(Tail(s)) = Len(s) - 1 /\ Len(s) >= 1
  OBVIOUS
<1>2. ASSUME NEW x \in Range(s) PROVE x \in {Head(s)} \union Range(Tail(s))
  <2>1. PICK i \in 1..Len(s) : x = s[i]
    BY DEF Range
  <2>2. CASE i = 1
    BY <2>1, <2>2
  <2>3. CASE i > 1
    <3>1. i - 1 \in 1..Len(Tail(s)) /\ x = Tail(s)[i - 1]
      BY <1>1, <2>1, <2>3
    <3>2. DOMAIN Tail(s) = 1..Len(Tail(s))
      BY <1>1
    <3> QED BY <3>1, <3>2 DEF Range
  <2> QED BY <2>2, <2>3
<1>3. ASSUME NEW x \in Range(Tail(s)) PROVE x \in Range(s)
  <2>1. PICK i \in 1..Len(Tail(s)) : x = Tail(s)[i]
    BY <1>1 DEF Range
  <2>2. i + 1 \in 1..Len(s) /\ s[i + 1] = x
    BY <1>1, <2>1
  <2> QED BY <2>2 DEF Range
<1>4. Head(s) \in Range(s)
  BY <1>1 DEF Range
<1> QED BY <1>1, <1>2, <1>3, <1>4

LEMMA JobFacts ==
  ASSUME job \in Jobs
  PROVE  WellPlanned(Plan) /\ Mode \in {"Deadline", "Complete"}
BY JobsAssumption DEF JobsAssumption, Plan, Mode

LEMMA PlanType ==
  ASSUME job \in Jobs
  PROVE  Plan \in Seq(Seq(Resource)) /\ Len(Plan) \in Nat
BY JobFacts DEF WellPlanned

\* A supervisor does what it was spawned for to the end.
LEMMA JobKept == [Next]_vars => job' = job /\ Plan' = Plan /\ Mode' = Mode
<1> SUFFICES ASSUME [Next]_vars PROVE job' = job
  BY DEF Plan, Mode
<1> USE DEF workVars, CallerUnchanged
<1>1. CASE EnterStage \/ \E r \in Resource : Work(r) \/ Engine(r)
  BY <1>1 DEF EnterStage, Work, EnsureImage, RequestCreate, CreateReturns, StartContainer,
     SetBranch, Engine, DockerCommits, DockerRejects, CommitAnswered, CommitAnswerLost
<1>2. CASE Thread \/ RemoveNext
  BY <1>2 DEF Thread, BootRuntime, BootFails, WorkSucceeds, WorkFails, WorkPanics,
     ShutdownSignalled, BeginRemoval, ReportCleanup, ThreadEnds, RemoveNext
<1>3. CASE CallerSteps \/ CallerChoices
  BY <1>3 DEF CallerSteps, ReceiveValue, ReceiveError, JoinAfterError, SignalCancel,
     LeaveCancelled, TakeCompletion, JoinThread, CallerChoices, DropFuture,
     CallShutdown, DropHandle
<1>4. CASE DeadlineExpires \/ Terminated \/ UNCHANGED vars
  BY <1>4 DEF DeadlineExpires, Terminated, vars
<1> QED BY <1>1, <1>2, <1>3, <1>4 DEF Next

-------------------------------------------------------------------------------
LEMMA TypeInit == Init => TypeOK
<1> SUFFICES ASSUME Init PROVE TypeOK
  OBVIOUS
<1>1. stage \in 0..Len(Plan)
  BY PlanType DEF Init
<1>2. ledger \in Seq(Resource) /\ queue \in Seq(Resource)
  BY DEF Init
<1> QED BY <1>1, <1>2 DEF Init, TypeOK

LEMMA TypeStep == TypeOK /\ [Next]_vars => TypeOK'
<1> SUFFICES ASSUME TypeOK, [Next]_vars PROVE TypeOK'
  OBVIOUS
<1>0. job' = job /\ Plan' = Plan
  BY JobKept
<1> USE <1>0 DEF TypeOK, workVars, ledgerVars, engineVars, removalVars, handleVars
<1>1. CASE EnterStage
  <2>1. Plan[stage + 1] \in Seq(Resource)
    BY <1>1, PlanType DEF EnterStage
  <2>2. ledger' \in Seq(Resource)
    BY <1>1, <2>1, ConcatSeq DEF EnterStage, Reserve
  <2>3. stage' \in 0..Len(Plan)
    BY <1>1, PlanType DEF EnterStage
  <2> QED BY <1>1, <2>2, <2>3 DEF EnterStage
<1>2. ASSUME NEW r \in Resource, EnsureImage(r) PROVE TypeOK'
  BY <1>2 DEF EnsureImage, SetBranch
<1>3. ASSUME NEW r \in Resource, RequestCreate(r) PROVE TypeOK'
  BY <1>3 DEF RequestCreate, SetBranch
<1>4. ASSUME NEW r \in Resource, CreateReturns(r) PROVE TypeOK'
  BY <1>4 DEF CreateReturns, SetBranch
<1>5. ASSUME NEW r \in Resource, StartContainer(r) PROVE TypeOK'
  BY <1>5 DEF StartContainer, SetBranch
<1>6. ASSUME NEW r \in Resource, DockerCommits(r) PROVE TypeOK'
  BY <1>6 DEF DockerCommits, Settle
<1>7. ASSUME NEW r \in Resource, DockerRejects(r) PROVE TypeOK'
  BY <1>7 DEF DockerRejects, Settle
<1>8. ASSUME NEW r \in Resource, CommitAnswered(r) PROVE TypeOK'
  BY <1>8 DEF CommitAnswered, Settle, Confirm
<1>9. ASSUME NEW r \in Resource, CommitAnswerLost(r) PROVE TypeOK'
  BY <1>9 DEF CommitAnswerLost, Settle
<1>10. CASE BootRuntime
  BY <1>10 DEF BootRuntime
<1>11. CASE BootFails
  BY <1>11 DEF BootFails, Send
<1>12. CASE WorkSucceeds
  BY <1>12 DEF WorkSucceeds, Send, ReceiverGone
<1>13. CASE WorkFails
  BY <1>13 DEF WorkFails, Send
<1>14. CASE WorkPanics
  BY <1>14 DEF WorkPanics
<1>15. CASE ShutdownSignalled
  BY <1>15 DEF ShutdownSignalled
<1>16. CASE BeginRemoval
  <2>1. queue' \in Seq(Resource)
    BY <1>16, ReverseSeq DEF BeginRemoval, CleanupOrder
  <2>2. ledger' \in Seq(Resource)
    BY <1>16 DEF BeginRemoval
  <2> QED BY <1>16, <2>1, <2>2 DEF BeginRemoval
<1>17. CASE RemoveNext
  <2>1. queue' \in Seq(Resource) /\ Head(queue) \in Resource
    BY <1>17, TailSeq DEF RemoveNext
  <2> QED BY <1>17, <2>1 DEF RemoveNext
<1>18. CASE ReportCleanup
  BY <1>18 DEF ReportCleanup, Send, CleanupResult
<1>19. CASE ThreadEnds
  BY <1>19 DEF ThreadEnds
<1>20. CASE CallerSteps
  <2> USE DEF CallerUnchanged
  <2>1. CASE ReceiveValue    BY <2>1 DEF ReceiveValue
  <2>2. CASE ReceiveError    BY <2>2 DEF ReceiveError
  <2>3. CASE JoinAfterError  BY <2>3 DEF JoinAfterError
  <2>4. CASE SignalCancel    BY <2>4 DEF SignalCancel
  <2>5. CASE LeaveCancelled  BY <2>5 DEF LeaveCancelled
  <2>6. CASE TakeCompletion  BY <2>6 DEF TakeCompletion
  <2>7. CASE JoinThread      BY <2>7 DEF JoinThread
  <2> QED
    BY <1>20, <2>1, <2>2, <2>3, <2>4, <2>5, <2>6, <2>7 DEF CallerSteps
<1>21. CASE CallerChoices
  <2> USE DEF CallerUnchanged
  <2>1. CASE DropFuture    BY <2>1 DEF DropFuture
  <2>2. CASE CallShutdown  BY <2>2 DEF CallShutdown
  <2>3. CASE DropHandle    BY <2>3 DEF DropHandle
  <2> QED BY <1>21, <2>1, <2>2, <2>3 DEF CallerChoices
<1>22. CASE DeadlineExpires
  BY <1>22 DEF DeadlineExpires
<1>23. CASE UNCHANGED vars
  BY <1>23 DEF vars
<1> QED
  BY <1>1, <1>2, <1>3, <1>4, <1>5, <1>6, <1>7, <1>8, <1>9, <1>10, <1>11, <1>12,
     <1>13, <1>14, <1>15, <1>16, <1>17, <1>18, <1>19, <1>20, <1>21, <1>22, <1>23
  DEF Next, Work, Engine, Thread, Terminated

\* The state of the supervisor, its work, its ledger and its caller stays well
\* formed whatever the plan (the type invariant of runtime/supervisor.rs).
THEOREM TypeCorrect == Spec => []TypeOK
BY TypeInit, TypeStep, PTL DEF Spec

-------------------------------------------------------------------------------
(* The inductive invariant. NothingLeaks speaks of the end of the thread;  *)
(* it holds there because every name was in the ledger before its create   *)
(* request left, because no request is open once the ledger is drained,    *)
(* and because removal passes the drained names on without losing one.     *)

Releasing == supervisor \in {"removing", "ending", "done"}
Over == supervisor \in {"ending", "done"}

\* What a stage has opened or requested is in the ledger until it is drained.
Reserved ==
  ~Releasing =>
    \A r \in Resource : (branch[r] # "idle" \/ task[r] # "none") => r \in Range(ledger)

\* Only a request makes a resource appear, and boot has made none.
Requested ==
  /\ \A r \in docker : task[r] # "none"
  /\ supervisor = "boot" => /\ \A r \in Resource : task[r] = "none"
                            /\ ledger = <<>>

\* An answered create has its id in the ledger.
Confirmed == \A r \in Resource : task[r] = "ok" => r \in confirmed

\* No request is open while cleanup removes.
Settled == Releasing => MutationsSettled

\* Ledger and queue are never both in use.
Drained ==
  /\ Releasing => ledger = <<>>
  /\ supervisor # "removing" => queue = <<>>

\* Removal forgets nothing.
Tracked ==
  /\ supervisor = "removing" => docker \subseteq Range(queue) \union failed \union refused
  /\ Over => docker \subseteq failed \union refused

\* A caller that waits for the thread waits until it is over.
Joined ==
  (caller = "closed" \/ (Mode = "Complete" /\ caller \in {"failed", "gone"}))
    => ThreadDone

\* The cleanup result is sent after the last removal.
Reports ==
  /\ completion = "ok" => Over /\ failed \union refused = {}
  /\ reported = "ok" => completion = "ok"

IInv == /\ TypeOK
        /\ Reserved
        /\ Requested
        /\ Confirmed
        /\ Settled
        /\ Drained
        /\ Tracked
        /\ Joined
        /\ Reports

LEMMA SafetyInit == Init => IInv
<1> SUFFICES ASSUME Init PROVE IInv
  OBVIOUS
<1>1. TypeOK
  BY TypeInit
<1> QED BY <1>1 DEF Init, IInv, Reserved, Requested, Confirmed, Settled, Drained,
           Tracked, Joined, Reports, Releasing, Over

LEMMA SafetyStep == IInv /\ [Next]_vars => IInv'
<1> SUFFICES ASSUME IInv, [Next]_vars PROVE IInv'
  OBVIOUS
<1>0. TypeOK /\ TypeOK' /\ Mode' = Mode /\ job \in Jobs
  BY TypeStep, JobKept DEF IInv, TypeOK
<1> USE <1>0 DEF IInv, Releasing, Over, workVars, ledgerVars, engineVars,
                 removalVars, handleVars
<1> DEFINE Rest == Reserved /\ Requested /\ Confirmed /\ Settled /\ Drained
                     /\ Tracked /\ Joined /\ Reports
<1>r. ASSUME Rest' PROVE IInv'
  BY <1>r
<1> HIDE DEF Rest
<1> SUFFICES Rest'
  BY <1>r
<1> USE DEF Rest
<1>1. CASE EnterStage
  <2>1. /\ Range(ledger') = Range(ledger) \union Range(Plan[stage + 1])
        /\ ledger' # ledger \/ Plan[stage + 1] = <<>>
    BY <1>1, PlanType, ConcatSeq DEF EnterStage, Reserve, TypeOK
  <2>2. Reserved'
    BY <1>1, <2>1 DEF EnterStage, Working, Reserved
  <2>3. (Requested /\ Confirmed /\ Settled /\ Drained /\ Tracked /\ Joined /\ Reports)'
    BY <1>1 DEF EnterStage, Working, Requested, Confirmed, Settled, MutationsSettled,
       Drained, Tracked, Joined, ThreadDone, Reports
  <2> QED BY <2>2, <2>3
<1>2. ASSUME NEW r \in Resource,
             EnsureImage(r) \/ RequestCreate(r) \/ CreateReturns(r) \/ StartContainer(r)
      PROVE  Rest'
  <2> USE <1>2 DEF EnsureImage, RequestCreate, CreateReturns, StartContainer,
                   SetBranch, Working
  <2>1. Reserved'
    BY DEF Reserved, TypeOK
  <2>2. Requested' /\ Confirmed'
    BY DEF Requested, Confirmed, TypeOK
  <2>3. Settled' /\ Drained' /\ Tracked'
    BY DEF Settled, Drained, Tracked
  <2>4. Joined' /\ Reports'
    BY DEF Joined, ThreadDone, Reports
  <2> QED BY <2>1, <2>2, <2>3, <2>4
<1>3. ASSUME NEW r \in Resource,
             \/ DockerCommits(r) \/ DockerRejects(r)
             \/ CommitAnswered(r) \/ CommitAnswerLost(r)
      PROVE  Rest'
  <2> USE <1>3 DEF DockerCommits, DockerRejects, CommitAnswered, CommitAnswerLost, Settle
  <2>1. task[r] \in {"requested", "committed"} /\ ~Releasing /\ supervisor # "boot"
    BY DEF Settled, MutationsSettled, Requested
  <2>2. r \in Range(ledger)
    BY <2>1 DEF Reserved
  <2>3. Reserved'
    BY <2>1, <2>2 DEF Reserved, TypeOK
  <2>4. Requested'
    BY <2>1 DEF Requested, TypeOK
  <2>5. Confirmed'
    BY <2>2 DEF Confirmed, Confirm, TypeOK
  <2>6. Settled' /\ Drained' /\ Tracked' /\ Joined' /\ Reports'
    BY <2>1 DEF Settled, Drained, Tracked, Joined, ThreadDone, Reports
  <2> QED BY <2>3, <2>4, <2>5, <2>6
<1>4. CASE BootRuntime \/ BootFails
  <2>1. docker = {} /\ ledger = <<>> /\ \A r \in Resource : task[r] = "none"
    BY <1>4 DEF BootRuntime, BootFails, Requested, TypeOK
  <2> QED
    BY <1>4, <2>1 DEF BootRuntime, BootFails, Reserved, Requested, Confirmed,
       Settled, MutationsSettled, Drained, Tracked, Joined, ThreadDone, Reports
<1>5. CASE WorkSucceeds \/ WorkFails \/ WorkPanics \/ ShutdownSignalled
  BY <1>5 DEF WorkSucceeds, WorkFails, WorkPanics, ShutdownSignalled, Working,
     Reserved, Requested, Confirmed, Settled, Drained, Tracked, Joined, ThreadDone,
     Reports
<1>6. CASE BeginRemoval
  <2>1. Range(queue') = Range(ledger)
    BY <1>6, ReverseSeq DEF BeginRemoval, CleanupOrder, TypeOK
  <2>2. Tracked'
    BY <1>6, <2>1 DEF BeginRemoval, Tracked, Reserved, Requested, TypeOK
  <2> QED
    BY <1>6, <2>2 DEF BeginRemoval, Reserved, Requested, Confirmed, Settled,
       MutationsSettled, Drained, Joined, ThreadDone, Reports
<1>7. CASE RemoveNext
  <2>1. Range(queue) = {Head(queue)} \union Range(queue')
    BY <1>7, TailSeq DEF RemoveNext, TypeOK
  <2>2. Tracked'
    BY <1>7, <2>1 DEF RemoveNext, Tracked
  <2>3. Requested'
    BY <1>7 DEF RemoveNext, Requested
  <2> QED
    BY <1>7, <2>2, <2>3 DEF RemoveNext, Reserved, Confirmed, Settled,
       MutationsSettled, Drained, Joined, ThreadDone, Reports
<1>8. CASE ReportCleanup \/ ThreadEnds
  <2>1. Tracked'
    BY <1>8 DEF ReportCleanup, ThreadEnds, Tracked, Range
  <2>2. Reports'
    BY <1>8 DEF ReportCleanup, ThreadEnds, CleanupResult, Reports
  <2> QED
    BY <1>8, <2>1, <2>2 DEF ReportCleanup, ThreadEnds, Reserved, Requested,
       Confirmed, Settled, MutationsSettled, Drained, Joined, ThreadDone
<1>9. CASE CallerSteps \/ CallerChoices
  <2>1. /\ UNCHANGED <<branch, task, ledger, confirmed, docker, supervisor,
                       queue, failed, refused, completion>>
        /\ Joined' /\ reported' \in {reported, completion}
    <3> USE DEF CallerUnchanged, Joined, ThreadDone
    <3>1. CASE ReceiveValue    BY <3>1 DEF ReceiveValue
    <3>2. CASE ReceiveError    BY <3>2, JobFacts DEF ReceiveError
    <3>3. CASE JoinAfterError  BY <3>3 DEF JoinAfterError
    <3>4. CASE SignalCancel    BY <3>4 DEF SignalCancel
    <3>5. CASE LeaveCancelled  BY <3>5 DEF LeaveCancelled, JoinReturns
    <3>6. CASE TakeCompletion  BY <3>6 DEF TakeCompletion
    <3>7. CASE JoinThread      BY <3>7 DEF JoinThread
    <3>8. CASE DropFuture      BY <3>8 DEF DropFuture
    <3>9. CASE CallShutdown    BY <3>9 DEF CallShutdown
    <3>10. CASE DropHandle     BY <3>10 DEF DropHandle
    <3> QED BY <1>9, <3>1, <3>2, <3>3, <3>4, <3>5, <3>6, <3>7, <3>8, <3>9, <3>10
            DEF CallerSteps, CallerChoices
  <2> QED
    BY <2>1 DEF Reserved, Requested, Confirmed, Settled, MutationsSettled, Drained,
       Tracked, Reports
<1>10. CASE DeadlineExpires \/ UNCHANGED vars
  BY <1>10 DEF DeadlineExpires, vars, Reserved, Requested, Confirmed, Settled,
     MutationsSettled, Drained, Tracked, Joined, ThreadDone, Reports
<1> QED
  BY <1>1, <1>2, <1>3, <1>4, <1>5, <1>6, <1>7, <1>8, <1>9, <1>10
  DEF Next, Work, Engine, Thread, Terminated

LEMMA Safety == Spec => []IInv
BY SafetyInit, SafetyStep, PTL DEF Spec

\* Once cleanup removes, no create request is open and every answered one has
\* its id recorded (settle_mutation and cleanup, for every plan).
THEOREM CleanupSettledAlways == Spec => []CleanupSettled
<1>1. IInv => CleanupSettled
  BY DEF IInv, CleanupSettled, Settled, MutationsSettled, Releasing, Confirmed
<1> QED BY <1>1, Safety, PTL

\* A finished supervisor thread leaves nothing in Docker but what it failed to
\* remove (Startup, cleanup and ResourceLedger together, for every plan).
THEOREM NothingLeaksAlways == Spec => []NothingLeaks
<1>1. IInv => NothingLeaks
  BY DEF IInv, NothingLeaks, ThreadDone, Tracked, Over
<1> QED BY <1>1, Safety, PTL

\* Nobody who waited for the supervisor thread gets control back while a
\* resource is still to be removed: the guarantee a coordinator builds on.
THEOREM ReturnedMeansCleanedAlways == Spec => []ReturnedMeansCleaned
<1>1. IInv => ReturnedMeansCleaned
  BY DEF IInv, ReturnedMeansCleaned, Joined, ThreadDone, Tracked, Over
<1> QED BY <1>1, Safety, PTL

\* An Ok from RuntimeHandle::shutdown means Docker holds nothing any more.
THEOREM ShutdownTellsTheTruthAlways == Spec => []ShutdownTellsTheTruth
<1>1. IInv => ShutdownTellsTheTruth
  BY DEF IInv, ShutdownTellsTheTruth, Reports, Tracked, Over
<1> QED BY <1>1, Safety, PTL

-------------------------------------------------------------------------------
(* Ordering. The ledger lists what the stages entered so far planned, in   *)
(* planned order; draining it backwards puts every container ahead of the  *)
(* networks, so a refusal can only come from a container that stayed.      *)

LedgerPlanned ==
  \A i \in DOMAIN ledger : \E k \in 1..stage : \E m \in DOMAIN Plan[k] :
    Plan[k][m] = ledger[i]

LedgerOrder ==
  \A i, j \in DOMAIN ledger : i < j => PlannedBefore(ledger[i], ledger[j])

OrderInv == /\ IInv
            /\ LedgerPlanned
            /\ LedgerOrder
            /\ TeardownOrder
            /\ refused \subseteq Networks
            /\ RefusalNeedsFailure

\* A stage is planned after all the stages before it, and in its own order.
LEMMA StageOrder ==
  ASSUME NEW k \in 1..Len(Plan), NEW n \in DOMAIN Plan[k],
         NEW j \in 1..Len(Plan), NEW m \in DOMAIN Plan[j],
         j < k \/ (j = k /\ m < n), job \in Jobs
  PROVE  PlannedBefore(Plan[j][m], Plan[k][n])
BY PlanType DEF PlannedBefore

\* What is planned before a network is a network.
LEMMA NetworksFirst ==
  ASSUME job \in Jobs, NEW r, NEW s \in Networks, PlannedBefore(r, s)
  PROVE  r \in Networks
BY JobFacts DEF WellPlanned, PlannedBefore

\* Nothing is planned before itself: names occur once.
LEMMA PlannedOnce ==
  ASSUME job \in Jobs, NEW r, PlannedBefore(r, r)
  PROVE  FALSE
<1>1. PICK i \in DOMAIN Plan, j \in DOMAIN Plan : \E m \in DOMAIN Plan[i], n \in DOMAIN Plan[j] :
        Plan[i][m] = r /\ Plan[j][n] = r /\ (i < j \/ (i = j /\ m < n))
  BY DEF PlannedBefore
<1>2. PICK m \in DOMAIN Plan[i], n \in DOMAIN Plan[j] :
        Plan[i][m] = r /\ Plan[j][n] = r /\ (i < j \/ (i = j /\ m < n))
  BY <1>1
<1>3. i \in Nat /\ m \in Nat
  BY PlanType
<1> QED BY <1>2, <1>3, JobFacts DEF WellPlanned

LEMMA OrderInit == Init => OrderInv
<1> SUFFICES ASSUME Init PROVE OrderInv
  OBVIOUS
<1>1. IInv
  BY SafetyInit
<1> QED BY <1>1 DEF Init, OrderInv, LedgerPlanned, LedgerOrder, TeardownOrder,
                    RefusalNeedsFailure

LEMMA OrderStep == OrderInv /\ [Next]_vars => OrderInv'
<1> SUFFICES ASSUME OrderInv, [Next]_vars PROVE OrderInv'
  OBVIOUS
<1>0. IInv /\ IInv' /\ TypeOK /\ TypeOK' /\ job \in Jobs /\ Plan' = Plan
  BY SafetyStep, JobKept DEF OrderInv, IInv, TypeOK
<1> USE <1>0
<1>1. CASE EnterStage
  <2> DEFINE P == Plan[stage + 1]
  <2>1. /\ ledger \in Seq(Resource)
        /\ P \in Seq(Resource)
        /\ stage \in Nat
        /\ stage + 1 \in 1..Len(Plan)
        /\ stage' = stage + 1
        /\ ledger' = ledger \o P
    BY <1>1, PlanType DEF EnterStage, Reserve, TypeOK
  <2>2. DOMAIN ledger' = 1..(Len(ledger) + Len(P))
    BY <2>1
  <2>3. ASSUME NEW i \in DOMAIN ledger'
        PROVE  \/ i \in 1..Len(ledger) /\ ledger'[i] = ledger[i]
               \/ /\ i > Len(ledger)
                  /\ i - Len(ledger) \in 1..Len(P)
                  /\ ledger'[i] = P[i - Len(ledger)]
    BY <2>1, <2>2
  <2>4. LedgerPlanned'
    <3> SUFFICES ASSUME NEW i \in DOMAIN ledger'
                 PROVE  \E k \in 1..stage' : \E m \in DOMAIN Plan[k] :
                          Plan[k][m] = ledger'[i]
      BY DEF LedgerPlanned
    <3>1. CASE i \in 1..Len(ledger) /\ ledger'[i] = ledger[i]
      <4>1. PICK k \in 1..stage : \E m \in DOMAIN Plan[k] : Plan[k][m] = ledger[i]
        BY <2>1, <3>1 DEF OrderInv, LedgerPlanned
      <4>2. k \in 1..stage'
        BY <2>1
      <4> HIDE DEF P
      <4> QED BY <4>1, <4>2, <3>1
    <3>2. CASE /\ i - Len(ledger) \in 1..Len(P)
               /\ ledger'[i] = P[i - Len(ledger)]
      <4>1. i - Len(ledger) \in DOMAIN Plan[stage + 1]
        BY <3>2, <2>1
      <4>2. Plan[stage + 1][i - Len(ledger)] = ledger'[i]
        BY <3>2
      <4>3. stage + 1 \in 1..stage'
        BY <2>1
      <4>4. \E m \in DOMAIN Plan[stage + 1] : Plan[stage + 1][m] = ledger'[i]
        BY <4>1, <4>2
      <4> HIDE DEF P
      <4> QED BY <4>3, <4>4
    <3> QED BY <2>3, <3>1, <3>2
  <2>5. LedgerOrder'
    <3> SUFFICES ASSUME NEW i \in DOMAIN ledger', NEW j \in DOMAIN ledger', i < j
                 PROVE  PlannedBefore(ledger'[i], ledger'[j])
      BY DEF LedgerOrder, PlannedBefore
    <3>1. CASE j \in 1..Len(ledger)
      <4>1. /\ i \in 1..Len(ledger)
            /\ ledger'[i] = ledger[i]
            /\ ledger'[j] = ledger[j]
        BY <3>1, <2>1, <2>2, <2>3
      <4> QED BY <4>1, <3>1, <2>1 DEF OrderInv, LedgerOrder
    <3>2. CASE i \in 1..Len(ledger) /\ j > Len(ledger)
      <4>1. PICK k \in 1..stage : \E m \in DOMAIN Plan[k] : Plan[k][m] = ledger[i]
        BY <2>1, <3>2 DEF OrderInv, LedgerPlanned
      <4>2. PICK m \in DOMAIN Plan[k] : Plan[k][m] = ledger[i]
        BY <4>1
      <4>3. /\ j - Len(ledger) \in DOMAIN P
            /\ ledger'[j] = P[j - Len(ledger)]
            /\ ledger'[i] = ledger[i]
        BY <3>2, <2>1, <2>2, <2>3
      <4>4. k \in 1..Len(Plan) /\ k < stage + 1
        BY <2>1
      <4> QED BY <4>2, <4>3, <4>4, <2>1, StageOrder
    <3>3. CASE i > Len(ledger)
      <4>1. /\ i - Len(ledger) \in DOMAIN P
            /\ j - Len(ledger) \in DOMAIN P
            /\ i - Len(ledger) < j - Len(ledger)
            /\ ledger'[i] = P[i - Len(ledger)]
            /\ ledger'[j] = P[j - Len(ledger)]
        BY <3>3, <2>1, <2>2, <2>3
      <4> QED BY <4>1, <2>1, StageOrder
    <3> QED BY <3>1, <3>2, <3>3, <2>1, <2>2
  <2>6. (TeardownOrder /\ refused \subseteq Networks /\ RefusalNeedsFailure)'
    BY <1>1 DEF EnterStage, OrderInv, TeardownOrder, PlannedBefore, RefusalNeedsFailure
  <2> QED BY <2>4, <2>5, <2>6 DEF OrderInv
<1>2. CASE BeginRemoval
  <2>1. /\ ledger \in Seq(Resource)
        /\ queue' = [i \in 1..Len(ledger) |-> ledger[(Len(ledger) - i) + 1]]
        /\ ledger' = <<>>
        /\ UNCHANGED <<stage, failed, refused>>
    BY <1>2 DEF BeginRemoval, CleanupOrder, Reverse, TypeOK, workVars
  <2>2. TeardownOrder'
    <3> SUFFICES ASSUME NEW i \in DOMAIN queue', NEW j \in DOMAIN queue', i < j
                 PROVE  PlannedBefore(queue'[j], queue'[i])
      BY DEF TeardownOrder, PlannedBefore
    <3> DEFINE a == (Len(ledger) - i) + 1
               b == (Len(ledger) - j) + 1
    <3>1. a \in DOMAIN ledger /\ b \in DOMAIN ledger /\ b < a
      BY <2>1
    <3>2. queue'[i] = ledger[a] /\ queue'[j] = ledger[b]
      BY <2>1
    <3> QED BY <3>1, <3>2 DEF OrderInv, LedgerOrder
  <2> QED
    BY <2>1, <2>2 DEF OrderInv, LedgerPlanned, LedgerOrder, RefusalNeedsFailure
<1>3. CASE RemoveNext
  <2>1. /\ queue \in Seq(Resource) /\ queue # <<>>
        /\ queue' = Tail(queue)
        /\ Range(queue) = {Head(queue)} \union Range(queue')
        /\ UNCHANGED <<stage, ledger>>
    BY <1>3, TailSeq DEF RemoveNext, TypeOK, workVars, ledgerVars
  <2>2. /\ Len(queue) >= 1 /\ Head(queue) = queue[1]
        /\ DOMAIN queue' = 1..(Len(queue) - 1)
        /\ \A i \in DOMAIN queue' : i + 1 \in DOMAIN queue /\ queue'[i] = queue[i + 1]
    BY <2>1
  <2>3. TeardownOrder'
    <3> SUFFICES ASSUME NEW i \in DOMAIN queue', NEW j \in DOMAIN queue', i < j
                 PROVE  PlannedBefore(queue'[j], queue'[i])
      BY DEF TeardownOrder, PlannedBefore
    <3>1. i + 1 < j + 1
      BY <2>2
    <3> QED BY <2>2, <3>1 DEF OrderInv, TeardownOrder
  <2>4. ASSUME Attached(Head(queue)) PROVE failed \ Networks # {}
    <3>1. PICK c \in docker \ Networks : TRUE
      BY <2>4 DEF Attached
    <3>2. c \notin Range(queue)
      <4> SUFFICES ASSUME c \in Range(queue) PROVE FALSE
        OBVIOUS
      <4>1. PICK j \in DOMAIN queue : c = queue[j]
        BY DEF Range
      <4>2. j = 1 \/ 1 < j
        BY <2>1
      <4>3. j # 1
        BY <2>2, <2>4, <3>1, <4>1 DEF Attached
      <4>4. PlannedBefore(c, Head(queue))
        BY <2>1, <2>2, <4>1, <4>2, <4>3 DEF OrderInv, TeardownOrder
      <4> QED BY <2>4, <3>1, <4>4, NetworksFirst DEF Attached
    <3>3. c \in failed \union refused
      BY <1>3, <3>1, <3>2 DEF RemoveNext, IInv, Tracked
    <3> QED BY <3>1, <3>3 DEF OrderInv
  <2>5. (refused \subseteq Networks /\ RefusalNeedsFailure)'
    BY <1>3, <2>4 DEF RemoveNext, Attached, OrderInv, RefusalNeedsFailure
  <2> QED
    BY <2>1, <2>3, <2>5 DEF OrderInv, LedgerPlanned, LedgerOrder, PlannedBefore
<1>4. CASE UNCHANGED <<stage, ledger, queue, failed, refused>>
  BY <1>4 DEF OrderInv, LedgerPlanned, LedgerOrder, TeardownOrder, PlannedBefore,
     RefusalNeedsFailure
<1>5. ASSUME NEW r \in Resource, Work(r) \/ Engine(r)
      PROVE  UNCHANGED <<stage, ledger, queue, failed, refused>>
  BY <1>5 DEF Work, EnsureImage, RequestCreate, CreateReturns, StartContainer, SetBranch,
     Engine, DockerCommits, DockerRejects, CommitAnswered, CommitAnswerLost,
     workVars, ledgerVars, removalVars
<1>6. ASSUME Thread, ~BeginRemoval
      PROVE  UNCHANGED <<stage, ledger, queue, failed, refused>>
  BY <1>6 DEF Thread, BootRuntime, BootFails, WorkSucceeds, WorkFails, WorkPanics,
     ShutdownSignalled, ReportCleanup, ThreadEnds, workVars, ledgerVars, removalVars
<1>7. ASSUME CallerSteps \/ CallerChoices \/ DeadlineExpires
      PROVE  UNCHANGED <<stage, ledger, queue, failed, refused>>
  BY <1>7 DEF CallerSteps, ReceiveValue, ReceiveError, JoinAfterError, SignalCancel,
     LeaveCancelled, TakeCompletion, JoinThread, CallerChoices, DropFuture,
     CallShutdown, DropHandle, CallerUnchanged, DeadlineExpires,
     workVars, ledgerVars, removalVars
<1>8. ASSUME Terminated \/ UNCHANGED vars
      PROVE  UNCHANGED <<stage, ledger, queue, failed, refused>>
  BY <1>8 DEF Terminated, vars
<1> QED BY <1>1, <1>2, <1>3, <1>4, <1>5, <1>6, <1>7, <1>8 DEF Next

LEMMA Ordering == Spec => []OrderInv
BY OrderInit, OrderStep, PTL DEF Spec

\* Cleanup removes in reverse planned order, whichever create was answered
\* first (start_container_pair and take_cleanup_order, for every plan).
THEOREM TeardownOrderAlways == Spec => []TeardownOrder
<1>1. OrderInv => TeardownOrder
  BY DEF OrderInv
<1> QED BY <1>1, Ordering, PTL

\* Both at once: what is still up goes in the reverse of the plan, and whoever
\* waits for that is not told before it is over (for every plan, in both modes).
THEOREM OrderlyTeardownAlways == Spec => []OrderlyTeardown
BY TeardownOrderAlways, ReturnedMeansCleanedAlways, PTL DEF OrderlyTeardown

\* Docker refuses the removal of a network only after the removal of one of its
\* containers failed, never because of the order cleanup chose.
THEOREM RefusalNeedsFailureAlways == Spec => []RefusalNeedsFailure
<1>1. OrderInv => RefusalNeedsFailure
  BY DEF OrderInv
<1> QED BY <1>1, Ordering, PTL

-------------------------------------------------------------------------------
(* Refinement. Every step of the supervisor is a step of OwnedResources or *)
(* leaves its variables alone; only BootFails, which ends a thread that    *)
(* never claimed anything, and ReportCleanup reach the released phase.     *)

\* A removal takes its resource out of the queue for good.
LEMMA QueueOnce ==
  ASSUME OrderInv, queue # <<>>
  PROVE  Range(Tail(queue)) = Range(queue) \ {Head(queue)}
<1>1. queue \in Seq(Resource) /\ job \in Jobs
  BY DEF OrderInv, IInv, TypeOK
<1>2. Range(queue) = {Head(queue)} \union Range(Tail(queue))
  BY <1>1, TailSeq
<1>3. ASSUME Head(queue) \in Range(Tail(queue)) PROVE FALSE
  <2>1. /\ Len(queue) >= 1 /\ Head(queue) = queue[1] /\ 1 \in DOMAIN queue
        /\ DOMAIN Tail(queue) = 1..(Len(queue) - 1)
        /\ \A i \in DOMAIN Tail(queue) : i + 1 \in DOMAIN queue /\ Tail(queue)[i] = queue[i + 1]
    BY <1>1
  <2>2. PICK i \in DOMAIN Tail(queue) : Tail(queue)[i] = Head(queue)
    BY <1>3 DEF Range
  <2>3. 1 < i + 1
    BY <2>1
  <2>4. PlannedBefore(Head(queue), Head(queue))
    BY <2>1, <2>2, <2>3 DEF OrderInv, TeardownOrder
  <2> QED BY <1>1, <2>4, PlannedOnce
<1> QED BY <1>2, <1>3

LEMMA OwnedInit == Init => Owned!Init
BY DEF Init, Owned!Init, OwnedPhase, Range

LEMMA OwnedStep == OrderInv /\ [Next]_vars => [Owned!Next]_(Owned!ownedVars)
<1> SUFFICES ASSUME OrderInv, [Next]_vars
             PROVE  Owned!Next \/ UNCHANGED Owned!ownedVars
  OBVIOUS
<1> USE DEF workVars, ledgerVars, engineVars, removalVars, handleVars
<1>0. IInv /\ TypeOK /\ job \in Jobs
  BY DEF OrderInv, IInv, TypeOK
<1>1. CASE EnterStage
  <2>1. Range(ledger') = Range(ledger) \union Range(Plan[stage + 1])
    BY <1>0, <1>1, PlanType, ConcatSeq DEF EnterStage, Reserve, TypeOK
  <2>2. Range(Plan[stage + 1]) \in SUBSET Resource
    BY <1>0, <1>1, PlanType DEF EnterStage, TypeOK, Range
  <2>3. Owned!Claim(Range(Plan[stage + 1]))
    BY <1>1, <2>1 DEF EnterStage, Working, OwnedPhase, Owned!Claim
  <2> QED BY <2>2, <2>3 DEF Owned!Next
<1>2. ASSUME NEW r \in Resource, DockerCommits(r) PROVE Owned!Next
  <2>1. ~Releasing /\ r \in Range(ledger)
    BY <1>0, <1>2 DEF DockerCommits, IInv, Settled, MutationsSettled, Reserved
  <2>2. OwnedPhase = "acquiring" /\ OwnedPhase' = OwnedPhase
    BY <1>0, <1>2, <2>1 DEF DockerCommits, OwnedPhase, Releasing, TypeOK
  <2>3. Owned!Appear(r)
    BY <1>2, <2>1, <2>2 DEF DockerCommits, Owned!Appear
  <2> QED BY <2>3 DEF Owned!Next
<1>3. CASE BootFails
  <2>1. ledger = <<>> /\ queue = <<>>
    BY <1>0, <1>3 DEF BootFails, IInv, Requested, Drained
  <2>2. Owned!Finish
    BY <1>3, <2>1 DEF BootFails, OwnedPhase, Owned!Finish, Range
  <2> QED BY <2>2 DEF Owned!Next
<1>4. CASE BeginRemoval
  <2>1. Range(queue') = Range(ledger)
    BY <1>0, <1>4, ReverseSeq DEF BeginRemoval, CleanupOrder, TypeOK
  <2>2. Range(queue) = {} /\ Range(ledger') = {}
    BY <1>0, <1>4 DEF BeginRemoval, IInv, Drained, Range
  <2>3. Owned!BeginRelease
    BY <1>4, <2>1, <2>2 DEF BeginRemoval, OwnedPhase, Owned!BeginRelease
  <2> QED BY <2>3 DEF Owned!Next
<1>5. CASE RemoveNext
  <2> DEFINE r == Head(queue)
  <2>1. /\ r \in Resource
        /\ r \in Range(queue)
        /\ Range(queue') = Range(queue) \ {r}
        /\ Range(ledger) = {} /\ ledger' = ledger
    <3>1. r \in Resource /\ r \in Range(queue)
      BY <1>0, <1>5, TailSeq DEF RemoveNext, TypeOK
    <3>2. ledger = <<>> /\ ledger' = ledger
      BY <1>0, <1>5 DEF RemoveNext, IInv, Drained, Releasing
    <3>3. Range(queue') = Range(queue) \ {r}
      BY <1>5, QueueOnce DEF RemoveNext
    <3>4. Range(ledger) = {}
      BY <3>2 DEF Range
    <3> QED BY <3>1, <3>2, <3>3, <3>4
  <2>2. OwnedPhase = "releasing" /\ OwnedPhase' = OwnedPhase
    BY <1>5 DEF RemoveNext, OwnedPhase
  <2>3. Owned!Vanish(r) \/ Owned!Abandon(r)
    BY <1>5, <2>1, <2>2 DEF RemoveNext, Owned!Vanish, Owned!Abandon
  <2> QED BY <2>1, <2>3 DEF Owned!Next
<1>6. CASE ReportCleanup
  <2>1. ledger = <<>> /\ queue = <<>>
    BY <1>0, <1>6 DEF ReportCleanup, IInv, Drained, Releasing
  <2>2. Owned!Finish
    BY <1>6, <2>1 DEF ReportCleanup, OwnedPhase, Owned!Finish, Range
  <2> QED BY <2>2 DEF Owned!Next
<1>7. CASE UNCHANGED <<OwnedPhase, ledger, queue, docker, failed, refused>>
  BY <1>7 DEF Owned!ownedVars
<1>8. ASSUME NEW r \in Resource, Work(r) \/ Engine(r), ~DockerCommits(r)
      PROVE  UNCHANGED <<OwnedPhase, ledger, queue, docker, failed, refused>>
  BY <1>8 DEF Work, EnsureImage, RequestCreate, CreateReturns, StartContainer, SetBranch,
     Engine, DockerRejects, CommitAnswered, CommitAnswerLost, OwnedPhase
<1>9. ASSUME BootRuntime \/ WorkSucceeds \/ WorkFails \/ WorkPanics
               \/ ShutdownSignalled \/ ThreadEnds
      PROVE  UNCHANGED <<OwnedPhase, ledger, queue, docker, failed, refused>>
  BY <1>9 DEF BootRuntime, WorkSucceeds, WorkFails, WorkPanics, Working,
     ShutdownSignalled, ThreadEnds, OwnedPhase
<1>10. ASSUME CallerSteps \/ CallerChoices \/ DeadlineExpires
       PROVE  UNCHANGED <<OwnedPhase, ledger, queue, docker, failed, refused>>
  BY <1>10 DEF CallerSteps, ReceiveValue, ReceiveError, JoinAfterError, SignalCancel,
     LeaveCancelled, TakeCompletion, JoinThread, CallerChoices, DropFuture,
     CallShutdown, DropHandle, CallerUnchanged, DeadlineExpires, OwnedPhase
<1>11. ASSUME Terminated \/ UNCHANGED vars
       PROVE  UNCHANGED <<OwnedPhase, ledger, queue, docker, failed, refused>>
  BY <1>11 DEF Terminated, vars, OwnedPhase
<1> QED BY <1>1, <1>2, <1>3, <1>4, <1>5, <1>6, <1>7, <1>8, <1>9, <1>10, <1>11
        DEF Next, Thread

\* Every behaviour of the supervisor, for every plan and in both modes, is one
\* of the abstract ownership discipline.
THEOREM OwnershipRefined == Spec => ImplementsOwnership
<1>1. Spec => []OrderInv
  BY Ordering
<1> QED BY <1>1, OwnedInit, OwnedStep, PTL DEF Spec, ImplementsOwnership, Owned!Spec

-------------------------------------------------------------------------------
(* The handover. A result is in the channel only while its receiver lives, *)
(* and nothing is in it before the work is over, so a successful send      *)
(* always leaves the handle where somebody can still drop it.              *)

Handover ==
  /\ supervisor \in {"boot", "work"} => channel \in {"empty", "gone"}
  /\ channel \in {"empty", "ok", "error"} => caller = "awaiting"
  /\ NoOrphanedStack

LEMMA HandoverInit == Init => Handover
BY DEF Init, Handover, NoOrphanedStack

LEMMA HandoverStep == TypeOK /\ Handover /\ [Next]_vars => Handover'
<1> SUFFICES ASSUME TypeOK, Handover, [Next]_vars PROVE Handover'
  OBVIOUS
<1> USE DEF Handover, NoOrphanedStack, workVars, ledgerVars, engineVars,
            removalVars, handleVars
<1>1. CASE WorkSucceeds
  BY <1>1 DEF WorkSucceeds, Working, Send, ReceiverGone, TypeOK
<1>2. CASE BootFails \/ WorkFails \/ ReportCleanup
  BY <1>2 DEF BootFails, WorkFails, Working, ReportCleanup, Send
<1>3. CASE BootRuntime \/ WorkPanics \/ ShutdownSignalled \/ BeginRemoval
             \/ ThreadEnds \/ RemoveNext
  BY <1>3 DEF BootRuntime, WorkPanics, Working, ShutdownSignalled, BeginRemoval,
     ThreadEnds, RemoveNext
<1>4. CASE CallerSteps \/ CallerChoices
  <2> USE DEF CallerUnchanged
  <2>1. CASE ReceiveValue    BY <2>1 DEF ReceiveValue
  <2>2. CASE ReceiveError    BY <2>2 DEF ReceiveError
  <2>3. CASE JoinAfterError  BY <2>3 DEF JoinAfterError
  <2>4. CASE SignalCancel    BY <2>4 DEF SignalCancel
  <2>5. CASE LeaveCancelled  BY <2>5 DEF LeaveCancelled
  <2>6. CASE TakeCompletion  BY <2>6 DEF TakeCompletion
  <2>7. CASE JoinThread      BY <2>7 DEF JoinThread
  <2>8. CASE DropFuture      BY <2>8 DEF DropFuture
  <2>9. CASE CallShutdown    BY <2>9 DEF CallShutdown
  <2>10. CASE DropHandle     BY <2>10 DEF DropHandle
  <2> QED BY <1>4, <2>1, <2>2, <2>3, <2>4, <2>5, <2>6, <2>7, <2>8, <2>9, <2>10
          DEF CallerSteps, CallerChoices
<1>5. CASE UNCHANGED <<supervisor, channel, caller, shutdown>>
  BY <1>5
<1>6. ASSUME \/ EnterStage
             \/ \E r \in Resource : Work(r) \/ Engine(r)
      PROVE  UNCHANGED <<supervisor, channel, caller, shutdown>>
  BY <1>6 DEF EnterStage, Work, EnsureImage, RequestCreate, CreateReturns,
     StartContainer, SetBranch, Engine, DockerCommits, DockerRejects,
     CommitAnswered, CommitAnswerLost
<1>7. ASSUME DeadlineExpires \/ Terminated \/ UNCHANGED vars
      PROVE  UNCHANGED <<supervisor, channel, caller, shutdown>>
  BY <1>7 DEF DeadlineExpires, Terminated, vars
<1> QED BY <1>1, <1>2, <1>3, <1>4, <1>5, <1>6, <1>7 DEF Next, Thread

\* A thread that waits for its shutdown signal can always still be told: no
\* startup future dropped around the handover leaves a stack nobody owns.
THEOREM NoOrphanedStackAlways == Spec => []NoOrphanedStack
<1>1. Handover => NoOrphanedStack
  BY DEF Handover
<1> QED BY <1>1, TypeCorrect, HandoverInit, HandoverStep, PTL DEF Spec

-------------------------------------------------------------------------------
(* A stack of a composite. In Complete mode the supervisor implements      *)
(* NestedStack: nothing is in the channel before cleanup is over but a     *)
(* value whose handle is still unused, every way back to the caller waits  *)
(* for the thread, and the result cleanup sends is still true by then.     *)

Nesting ==
  /\ supervisor \in {"boot", "work"} =>
       /\ ~shutdown
       /\ \/ caller = "awaiting" /\ channel = "empty"
          \/ caller \in {"dropped", "cancelling"} /\ channel = "gone"
  /\ channel = "ok" => supervisor = "serving" /\ ~shutdown /\ caller = "awaiting"
  /\ caller = "holding" => supervisor = "serving" /\ ~shutdown
  /\ caller \in {"shutting", "joining"} => shutdown
  /\ channel = "error" \/ caller = "failing" => Over
  /\ caller \in {"failed", "gone", "closed"} => ThreadDone
  /\ completion # "none" => Over /\ completion = CleanupResult
  /\ reported \in {"none", completion}

LEMMA NestingInit == Init => Nesting
BY DEF Init, Nesting, Over

LEMMA NestingStep ==
  ASSUME Mode = "Complete", TypeOK, Nesting, [Next]_vars
  PROVE  Nesting'
<1> USE DEF Nesting, Over, ThreadDone, CleanupResult, workVars, ledgerVars, engineVars,
            removalVars, handleVars
<1>1. CASE BootRuntime \/ BootFails
  BY <1>1 DEF BootRuntime, BootFails, Send
<1>2. CASE WorkSucceeds
  BY <1>2 DEF WorkSucceeds, Working, Send, ReceiverGone
<1>3. CASE WorkFails \/ WorkPanics
  BY <1>3 DEF WorkFails, WorkPanics, Working, PublishBeforeCleanup
<1>4. CASE ShutdownSignalled \/ BeginRemoval \/ ThreadEnds \/ RemoveNext
  BY <1>4 DEF ShutdownSignalled, BeginRemoval, ThreadEnds, RemoveNext
<1>5. CASE ReportCleanup
  BY <1>5 DEF ReportCleanup, PublishBeforeCleanup, Send
<1>6. CASE CallerSteps
  <2> USE DEF CallerUnchanged
  <2>1. CASE ReceiveValue    BY <2>1 DEF ReceiveValue
  <2>2. CASE ReceiveError    BY <2>2 DEF ReceiveError
  <2>3. CASE JoinAfterError  BY <2>3 DEF JoinAfterError
  <2>4. CASE SignalCancel    BY <2>4 DEF SignalCancel
  <2>5. CASE LeaveCancelled  BY <2>5 DEF LeaveCancelled, JoinReturns
  <2>6. CASE TakeCompletion  BY <2>6 DEF TakeCompletion
  <2>7. CASE JoinThread      BY <2>7 DEF JoinThread
  <2> QED
    BY <1>6, <2>1, <2>2, <2>3, <2>4, <2>5, <2>6, <2>7 DEF CallerSteps
<1>7. CASE CallerChoices
  <2> USE DEF CallerUnchanged
  <2>1. CASE DropFuture    BY <2>1 DEF DropFuture
  <2>2. CASE CallShutdown  BY <2>2 DEF CallShutdown
  <2>3. CASE DropHandle    BY <2>3 DEF DropHandle
  <2> QED BY <1>7, <2>1, <2>2, <2>3 DEF CallerChoices
<1>8. CASE UNCHANGED <<supervisor, channel, caller, shutdown, completion, reported,
                       failed, refused>>
  BY <1>8
<1>9. ASSUME \/ EnterStage
             \/ \E r \in Resource : Work(r) \/ Engine(r)
             \/ DeadlineExpires \/ Terminated \/ UNCHANGED vars
      PROVE  UNCHANGED <<supervisor, channel, caller, shutdown, completion, reported,
                         failed, refused>>
  BY <1>9 DEF EnterStage, Work, EnsureImage, RequestCreate, CreateReturns,
     StartContainer, SetBranch, Engine, DockerCommits, DockerRejects,
     CommitAnswered, CommitAnswerLost, DeadlineExpires, Terminated, vars
<1> QED BY <1>1, <1>2, <1>3, <1>4, <1>5, <1>6, <1>7, <1>8, <1>9 DEF Next, Thread

LEMMA NestedInit == Init => Nested!Init
BY DEF Init, Nested!Init, NestedLife, NestedUser, ThreadDone

LEMMA NestedStackStep ==
  ASSUME Mode = "Complete", TypeOK, Nesting, Nesting', [Next]_vars,
         ~(CallerSteps \/ CallerChoices)
  PROVE  [Nested!StackStep]_(Nested!nestedVars)
<1> USE DEF Nesting, Over, ThreadDone, NestedLife, NestedUser, Nested!StackStep,
            Nested!nestedVars, workVars, ledgerVars, engineVars, removalVars,
            handleVars
<1>1. CASE BootRuntime
  BY <1>1 DEF BootRuntime
<1>2. CASE BootFails
  BY <1>2 DEF BootFails, Nested!Fails
<1>3. CASE WorkSucceeds
  BY <1>3 DEF WorkSucceeds, Working, Send, ReceiverGone, Nested!ComesUp
<1>4. CASE WorkFails \/ WorkPanics
  BY <1>4 DEF WorkFails, WorkPanics, Working, PublishBeforeCleanup, Nested!Fails
<1>5. CASE ShutdownSignalled \/ BeginRemoval \/ RemoveNext \/ ReportCleanup
  BY <1>5 DEF ShutdownSignalled, BeginRemoval, RemoveNext, ReportCleanup
<1>6. CASE ThreadEnds
  <2>1. NestedLife = "stopping" /\ NestedLife' \in {"removed", "left"}
    BY <1>6 DEF ThreadEnds
  <2>2. UNCHANGED <<caller, reported>>
    BY <1>6 DEF ThreadEnds
  <2> QED BY <2>1, <2>2 DEF Nested!CleansUp
<1>7. CASE UNCHANGED <<supervisor, channel, caller, shutdown, completion, reported,
                       failed, refused>>
  BY <1>7
<1>8. ASSUME \/ EnterStage
             \/ \E r \in Resource : Work(r) \/ Engine(r)
             \/ DeadlineExpires \/ Terminated \/ UNCHANGED vars
      PROVE  UNCHANGED <<supervisor, channel, caller, shutdown, completion, reported,
                         failed, refused>>
  BY <1>8 DEF EnterStage, Work, EnsureImage, RequestCreate, CreateReturns,
     StartContainer, SetBranch, Engine, DockerCommits, DockerRejects,
     CommitAnswered, CommitAnswerLost, DeadlineExpires, Terminated, vars
<1> HIDE DEF Nesting, NestedLife, NestedUser, Nested!StackStep, Nested!nestedVars
<1> QED BY <1>1, <1>2, <1>3, <1>4, <1>5, <1>6, <1>7, <1>8 DEF Next, Thread

LEMMA NestedUserStep ==
  ASSUME Mode = "Complete", TypeOK, Nesting, Nesting', CallerSteps \/ CallerChoices
  PROVE  [Nested!UserStep]_(Nested!nestedVars)
<1> USE DEF Nesting, Over, ThreadDone, NestedLife, NestedUser, Nested!UserStep,
            Nested!nestedVars, workVars, ledgerVars, engineVars, removalVars,
            handleVars
<1>1. CASE CallerSteps
  <2> USE DEF CallerUnchanged
  <2>1. CASE ReceiveValue
    BY <2>1 DEF ReceiveValue, Nested!Receive
  <2>2. CASE ReceiveError
    BY <2>2 DEF ReceiveError, Nested!Release, Nested!Over
  <2>3. CASE JoinAfterError
    BY <2>3 DEF JoinAfterError, Nested!Return, Nested!Over
  <2>4. CASE SignalCancel
    BY <2>4 DEF SignalCancel
  <2>5. CASE LeaveCancelled
    BY <2>5 DEF LeaveCancelled, JoinReturns, Nested!Return, Nested!Over
  <2>6. CASE TakeCompletion
    BY <2>6 DEF TakeCompletion
  <2>7. CASE JoinThread
    BY <2>7 DEF JoinThread, CleanupResult, Nested!Return, Nested!Over
  <2> QED
    BY <1>1, <2>1, <2>2, <2>3, <2>4, <2>5, <2>6, <2>7 DEF CallerSteps
<1>2. CASE CallerChoices
  <2> USE DEF CallerUnchanged, Nested!Release, Nested!Over
  <2>1. CASE DropFuture    BY <2>1 DEF DropFuture
  <2>2. CASE CallShutdown  BY <2>2 DEF CallShutdown
  <2>3. CASE DropHandle    BY <2>3 DEF DropHandle
  <2> QED BY <1>2, <2>1, <2>2, <2>3 DEF CallerChoices
<1> QED BY <1>1, <1>2

\* What Coordinator takes a stack to be is what a supervisor in Complete mode
\* does, for every plan: a startup error, the drop of the startup future,
\* shutdown() and the drop of the handle come back only when the thread is over
\* (supervise_for_coordinator).
THEOREM NestedStackRefined == Spec /\ Mode = "Complete" => ImplementsNestedStack
<1> DEFINE Nests == Mode = "Complete" /\ TypeOK /\ Nesting
<1>1. Init /\ Mode = "Complete" => Nests /\ Nested!Init
  BY TypeInit, NestingInit, NestedInit
<1>2. Nests /\ [Next]_vars => Nests'
  BY TypeStep, NestingStep, JobKept
<1> DEFINE Role == IF CallerSteps \/ CallerChoices
                   THEN [Nested!UserStep]_(Nested!nestedVars)
                   ELSE [Nested!StackStep]_(Nested!nestedVars)
<1>3. Nests /\ Nests' /\ [Next]_vars => Role
  BY NestedStackStep, NestedUserStep
<1>4. Role => [Nested!Next]_(Nested!nestedVars)
  BY DEF Nested!Next
<1>5. Nests /\ Nests' /\ [Next]_vars => [Role]_vars /\ [Nested!Next]_(Nested!nestedVars)
  BY <1>3, <1>4
<1> HIDE DEF Nests, Role
<1>6. Spec /\ Mode = "Complete" => Nested!Spec /\ [][Role]_vars
  BY <1>1, <1>2, <1>5, PTL DEF Spec, Nested!Spec
<1> QED BY <1>6 DEF ImplementsNestedStack, NestedRoles, Role
===============================================================================
