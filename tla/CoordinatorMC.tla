---------------------------- MODULE CoordinatorMC ----------------------------
(***************************************************************************)
(* Both composite fixtures for TLC: PegPair, which verifies its pair with  *)
(* Peg::connect, and LndPair, which does not; and a Docker engine that     *)
(* finishes every cleanup it began, or one that may hang in any of them.   *)
(***************************************************************************)
EXTENDS Coordinator

VARIABLES
  fixture,    \* the composite that is started
  engine      \* whether cleanups end

LndPair == INSTANCE Coordinator WITH Connects <- FALSE

setup   == <<fixture, engine>>
allVars == <<vars, setup>>

SetupInit ==
  /\ Init
  /\ fixture \in {"PegPair", "LndPair"}
  /\ engine \in {"answers", "may hang"}

InPegPair == fixture = "PegPair" /\ UNCHANGED setup
InLndPair == fixture = "LndPair" /\ UNCHANGED setup

SetupNext ==
  \/ InPegPair /\ Next
  \/ InLndPair /\ LndPair!Next

\* Scheduling of either composite, and EngineAnswers where the engine does.
SetupSpec ==
  /\ SetupInit
  /\ [][SetupNext]_allVars
  /\ WF_allVars((InPegPair /\ CoordinatorProgress) \/ (InLndPair /\ LndPair!CoordinatorProgress))
  /\ WF_allVars((InPegPair /\ CallerProgress) \/ (InLndPair /\ LndPair!CallerProgress))
  /\ WF_allVars(expired /\ DropFuture /\ UNCHANGED setup)
  /\ WF_allVars(DeadlineExpires /\ UNCHANGED setup)
  /\ \A s \in Stack : /\ WF_allVars(StackStarts(s) /\ UNCHANGED setup)
                      /\ WF_allVars(engine = "answers" /\ CleansUp(s) /\ UNCHANGED setup)

\* A dropped startup, a shutdown and a dropped pair all end with both stacks
\* cleaned up, detached coordinator or not, when Docker answers.
AnsweredCleanupCompletes == engine = "answers" => CleanupCompletes
===============================================================================
