----------------------------- MODULE SupervisorMC -----------------------------
(***************************************************************************)
(* Both users of the supervisor for TLC: a single fixture under supervise, *)
(* which waits until the deadline, and the two LND nodes of a pair under   *)
(* supervise_for_coordinator, which waits for completion; each with a      *)
(* Docker engine that answers every call, or one that may never do.        *)
(***************************************************************************)
EXTENDS Supervisor

CONSTANTS net, node, electrs, alice, bob

\* Fixture::start: its own network, then bitcoind or elementsd, then Electrs.
FixturePlan == << <<net>>, <<node>>, <<electrs>> >>

\* start_lnd_nodes: Alice and Bob together, on the network of another fixture.
LndPlan == << <<alice, bob>> >>

Fixture  == [plan |-> FixturePlan, mode |-> "Deadline"]
LndNodes == [plan |-> LndPlan, mode |-> "Complete"]

BothJobs == {Fixture, LndNodes}

VARIABLE engine     \* whether Docker answers every request and removal

allVars == <<vars, engine>>

SetupInit ==
  /\ Init
  /\ engine \in {"answers", "may hang"}

SetupNext == Next /\ UNCHANGED engine

\* Scheduling, and EngineAnswers where the engine does.
SetupSpec ==
  /\ SetupInit
  /\ [][SetupNext]_allVars
  /\ WF_allVars(ThreadProgress /\ UNCHANGED engine)
  /\ WF_allVars(CallerSteps /\ UNCHANGED engine)
  /\ WF_allVars(DeadlineExpires /\ UNCHANGED engine)
  /\ \A r \in Resource : WF_allVars(engine = "answers" /\ Engine(r) /\ UNCHANGED engine)
  /\ WF_allVars(engine = "answers" /\ RemoveNext /\ UNCHANGED engine)

\* When Docker answers, a startup that is polled gets its answer, and however
\* the startup ends, cleanup runs to its end.
AnsweredCallsComplete == engine = "answers" => StartupAnswers /\ CleanupCompletes

\* A fixture's caller is never held by Docker: its startup error arrives, and
\* the drop of its startup future returns by the deadline, although no removal
\* is ever answered (publish_before_cleanup, join_within_deadline).
FixtureCallerIsFree == job = Fixture => ErrorIsPrompt /\ DropIsBounded
===============================================================================
