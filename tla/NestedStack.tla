----------------------------- MODULE NestedStack -----------------------------
(***************************************************************************)
(* What supervise_for_coordinator promises a composite about one of its    *)
(* stacks: a startup future that is awaited or dropped, and a handle that  *)
(* is shut down or dropped. Control comes back from a failed or dropped    *)
(* startup, from shutdown() and from the handle's drop only when the stack *)
(* is over, and a stack that once began to stop never comes up.            *)
(***************************************************************************)

VARIABLES
  life,     \* the stack: absent, starting, up, stopping, removed, or left when
            \* something of it could not be removed
  user,     \* who started it: none yet, waiting for the startup, has the
            \* handle, is leaving, or is back
  told      \* what shutdown() returned

nestedVars == <<life, user, told>>

Over == life \in {"removed", "left"}

Init ==
  /\ \/ life = "absent" /\ user = "none"
     \/ life = "starting" /\ user = "waiting"
  /\ told = "none"

Begin ==
  /\ life = "absent"
  /\ life' = "starting"
  /\ user' = "waiting"
  /\ UNCHANGED told

ComesUp ==
  /\ life = "starting"
  /\ life' = "up"
  /\ UNCHANGED <<user, told>>

Fails ==
  /\ life = "starting"
  /\ life' = "stopping"
  /\ UNCHANGED <<user, told>>

Receive ==
  /\ user = "waiting" /\ life = "up"
  /\ user' = "has"
  /\ UNCHANGED <<life, told>>

\* An error that is received, a drop at any await, or shutdown().
Release ==
  /\ user \in {"waiting", "has"}
  /\ user' = "leaving"
  /\ life' = IF Over THEN life ELSE "stopping"
  /\ UNCHANGED told

CleansUp ==
  /\ life = "stopping"
  /\ life' \in {"removed", "left"}
  /\ UNCHANGED <<user, told>>

Return ==
  /\ user = "leaving" /\ Over
  /\ user' = "back"
  /\ told' \in {"none", IF life = "removed" THEN "ok" ELSE "error"}
  /\ UNCHANGED life

\* What the stack does by itself, and what is done with it.
StackStep == ComesUp \/ Fails \/ CleansUp
UserStep  == Begin \/ Receive \/ Release \/ Return

Next == StackStep \/ UserStep

Spec == Init /\ [][Next]_nestedVars
===============================================================================
