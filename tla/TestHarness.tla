----------------------------- MODULE TestHarness -----------------------------
(***************************************************************************)
(* What #[nigiri_rs::test] generates (expand.rs, parse.rs): the fixtures   *)
(* of one test start concurrently under join!, are bound in the order of   *)
(* the parameters, and are dropped, each drop joining its cleanup, when    *)
(* the wrapper returns or unwinds. The startups are FixtureStartup's.      *)
(***************************************************************************)
EXTENDS FixtureStartup

CONSTANT Signatures    \* the functions the attribute is put on

\* A parameter type that is no fixture, or a pattern, a receiver, a reserved
\* name: anything fixture_param rejects.
Refused == "refused"

ASSUME SignatureAssumption ==
  \A s \in Signatures :
    /\ s.params \in Seq(Kind \union {Refused}) /\ Len(s.params) <= MaxParams
    /\ s.async \in BOOLEAN /\ s.generic \in BOOLEAN /\ s.should_panic \in BOOLEAN

VARIABLES
  sig,        \* the signature the wrapper was generated for
  test,       \* where the wrapper is
  slot,       \* the result that is bound next
  drops,      \* the handles that are dropped next
  panicked,   \* the wrapper is unwinding, or the body panicked
  ran         \* the body has begun

testVars == <<sig, test, slot, drops, panicked, ran>>
vars == <<startupVars, testVars>>

\* parse: an async function without generics whose parameters are all
\* fixtures, and no #[should_panic] where there is a fixture to start.
AcceptsShouldPanic(s) ==      \* mutant: the attribute passes through
  s.async /\ ~s.generic /\ \A i \in DOMAIN s.params : s.params[i] \in Kind

Accepts(s) ==
  /\ s.async /\ ~s.generic
  /\ \A i \in DOMAIN s.params : s.params[i] \in Kind
  /\ s.should_panic => s.params = <<>>

Init ==
  /\ StartupInit
  /\ sig \in {s \in Signatures : Accepts(s)}
  /\ kind = [f \in Slot |-> IF f \in DOMAIN sig.params THEN sig.params[f] ELSE "none"]
  /\ test = "entered"
  /\ slot = 1
  /\ drops = <<>>
  /\ panicked = FALSE
  /\ ran = FALSE

\* The handles of some slots that are still held, the last one first.
Held(slots) ==
  LET down[n \in 0..MaxParams] ==
        IF n = 0 THEN <<>>
        ELSE IF n \in slots /\ phase[n] = "ok" /\ stack[n] = "present"
             THEN <<n>> \o down[n - 1]
             ELSE down[n - 1]
  IN down[MaxParams]

Params == Len(sig.params)

\* Locals are dropped in reverse: the handles bound so far, then the results of
\* join! not looked at yet.
BoundHandles == Held(1..(slot - 1))    \* mutant: the other results are forgotten

UnwoundHandles == Held(1..(slot - 1)) \o Held((slot + 1)..Params)

-------------------------------------------------------------------------------
StartAll ==
  /\ test = "entered"
  /\ test' = "starting"
  /\ phase' = [f \in Slot |-> IF f \in Used THEN "connecting" ELSE phase[f]]
  /\ UNCHANGED <<kind, expired, gateVars, chainVars, reading, stack, sig, slot,
                 drops, panicked, ran>>

\* join! polls every start until all have returned; one failure stops no other.
JoinReturns ==
  /\ test = "starting"
  /\ \A f \in Used : Returned(f)
  /\ test' = "binding"
  /\ UNCHANGED <<startupVars, sig, slot, drops, panicked, ran>>

\* expect: a failed start panics, and nothing later is bound.
Bind ==
  /\ test = "binding" /\ slot <= Params
  /\ IF phase[slot] = "ok"
     THEN slot' = slot + 1 /\ UNCHANGED <<test, drops, panicked>>
     ELSE /\ test' = "dropping" /\ panicked' = TRUE /\ drops' = UnwoundHandles
          /\ UNCHANGED slot
  /\ UNCHANGED <<startupVars, sig, ran>>

\* Clients go into the body as clones, pairs by move.
CallBody ==
  /\ test = "binding" /\ slot > Params
  /\ test' = "body"
  /\ ran' = TRUE
  /\ UNCHANGED <<startupVars, sig, slot, drops, panicked>>

\* The body may drop or shut down a pair it owns, and waits until that is done.
BodyReleases(f) ==
  /\ test = "body"
  /\ kind[f] = "Pair" /\ stack[f] = "present"
  /\ Teardown(f)
  /\ UNCHANGED <<kind, phase, expired, gateVars, chainVars, reading, testVars>>

\* The inner function's arguments go first, then the wrapper's own handles.
BodyEnds ==
  /\ test = "body"
  /\ \A f \in Slot : stack[f] # "removing"
  /\ test' = "dropping"
  /\ panicked' \in BOOLEAN
  /\ drops' = Held({f \in Slot : kind[f] = "Pair"}) \o Held({f \in Slot : kind[f] # "Pair"})
  /\ UNCHANGED <<startupVars, sig, slot, ran>>

\* Drop of a handle signals its supervisor and joins it.
DropHandle ==
  /\ test = "dropping" /\ drops # <<>> /\ stack[Head(drops)] = "present"
  /\ Teardown(Head(drops))
  /\ UNCHANGED <<kind, phase, expired, gateVars, chainVars, reading, testVars>>

DropReturns ==
  /\ test = "dropping" /\ drops # <<>> /\ stack[Head(drops)] = "over"
  /\ drops' = Tail(drops)
  /\ UNCHANGED <<startupVars, sig, test, slot, panicked, ran>>

TestReturns ==
  /\ test = "dropping" /\ drops = <<>>
  /\ test' = "over"
  /\ UNCHANGED <<startupVars, sig, slot, drops, panicked, ran>>

\* The process ends with its tests; what a detached cleanup still does is its own.
Terminated == test = "over" /\ UNCHANGED vars

Wrapper == StartAll \/ JoinReturns \/ Bind \/ CallBody \/ DropHandle \/ DropReturns
             \/ TestReturns

Next ==
  \/ \E f \in Slot : StartupStep(f) /\ UNCHANGED testVars
  \/ Wrapper
  \/ \E f \in Slot : BodyReleases(f)
  \/ BodyEnds
  \/ Terminated

\* The starts are polled and the clocks run. No node, no Electrs and no Docker
\* has to answer anything.
Fairness ==
  /\ WF_vars(Wrapper)
  /\ \A f \in Slot :
       /\ WF_vars((Connect(f) \/ UnwindReturns(f)) /\ UNCHANGED testVars)
       /\ WF_vars(TakePermit(f) /\ UNCHANGED testVars)
  /\ \A f \in Slot \ Patient : WF_vars(DeadlinePasses(f) /\ UNCHANGED testVars)

Spec == Init /\ [][Next]_vars
FairSpec == Spec /\ Fairness

-------------------------------------------------------------------------------
(* Properties.                                                             *)

\* libtest's verdict.
Passed == test = "over" /\ (panicked <=> sig.should_panic)

\* A test that passes has run its body: a stack that could not start never
\* makes a test pass, not even where a panic is what the test asks for.
PassedMeansBodyRan == Passed => ran

\* The body finds every fixture it asked for up and its wallet's funds visible
\* through all three services, although the handles stay with the wrapper and
\* Electrs answered the last round in three requests (bind_fixture, wait_for_sync).
\* The tips of a single fixture are one height; a pair's may have gone on since.
BodyFindsItsFunds ==
  test = "body" =>
    \A f \in Used :
      LET tips == {height[f], esplora[f], electrum[f]}
      IN /\ kind[f] # "Pair" => stack[f] = "present" /\ tips = {Target(f)}
         /\ stack[f] = "present" => \A tip \in tips : tip >= Target(f)

\* When a test is over, whichever of its starts failed and wherever it panicked,
\* a stack that is still there is one whose own start failed and whose cleanup
\* the code detached: a single fixture's, or a pair's past its deadline.
SurvivorsFailedToStart ==
  test = "over" =>
    \A f \in Used :
      stack[f] \in {"present", "removing"} =>
        phase[f] = "error" /\ (kind[f] = "Pair" => expired[f])

\* Two nodes execute the initial Bitcoin mining at the same time only when one
\* of the two calls was given up by its start (InitialMiningGate::run: the
\* guard lives as long as the call does, and no longer).
OverlapNeedsAbandonedCall ==
  \A f, g \in Slot :
    (f # g /\ kind[f] # "Liquid" /\ kind[g] # "Liquid"
       /\ call[f] = "executing" /\ call[g] = "executing")
      => phase[f] # "mining" \/ phase[g] # "mining"

\* A start ends by its deadline, and one whose deadline does not come gets the
\* permit whatever becomes of the fixtures before it in the queue.
StartsMoveOn ==
  /\ \A f \in Slot \ Patient : phase[f] = "connecting" ~> Returned(f)
  /\ \A f \in Patient : phase[f] = "permit" ~> (phase[f] = "mining" \/ expired[f])
===============================================================================
