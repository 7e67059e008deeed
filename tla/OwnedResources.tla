---------------------------- MODULE OwnedResources ----------------------------
(***************************************************************************)
(* What the fixture runtime promises about the Docker resources of one     *)
(* startup, with no threads, channels or futures in sight.                 *)
(*                                                                         *)
(* A resource is claimed before it can exist, everything that exists is    *)
(* claimed or was given up after a failed removal, and from the moment     *)
(* release begins nothing new is claimed and nothing new appears.          *)
(***************************************************************************)
EXTENDS FiniteSets

CONSTANT Resource     \* the networks and containers one startup may create

VARIABLES phase,      \* "acquiring", "releasing" or "released"
          owned,      \* claimed, and not yet given a removal attempt
          world,      \* the resources the container engine really holds
          abandoned   \* those whose removal attempt failed

ownedVars == <<phase, owned, world, abandoned>>

Init ==
  /\ phase = "acquiring"
  /\ owned = {}
  /\ world = {}
  /\ abandoned = {}

Claim(S) ==
  /\ phase = "acquiring"
  /\ owned' = owned \union S
  /\ UNCHANGED <<phase, world, abandoned>>

Appear(r) ==
  /\ phase = "acquiring"
  /\ r \in owned
  /\ world' = world \union {r}
  /\ UNCHANGED <<phase, owned, abandoned>>

BeginRelease ==
  /\ phase = "acquiring"
  /\ phase' = "releasing"
  /\ UNCHANGED <<owned, world, abandoned>>

\* A removal that succeeds, or that finds nothing to remove.
Vanish(r) ==
  /\ phase = "releasing"
  /\ r \in owned
  /\ owned' = owned \ {r}
  /\ world' = world \ {r}
  /\ UNCHANGED <<phase, abandoned>>

Abandon(r) ==
  /\ phase = "releasing"
  /\ r \in owned
  /\ owned' = owned \ {r}
  /\ abandoned' = abandoned \union {r}
  /\ UNCHANGED <<phase, world>>

Finish ==
  /\ phase # "released"
  /\ owned = {}
  /\ phase' = "released"
  /\ UNCHANGED <<owned, world, abandoned>>

Next ==
  \/ \E S \in SUBSET Resource : Claim(S)
  \/ \E r \in Resource : Appear(r) \/ Vanish(r) \/ Abandon(r)
  \/ BeginRelease
  \/ Finish

Spec == Init /\ [][Next]_ownedVars
===============================================================================
