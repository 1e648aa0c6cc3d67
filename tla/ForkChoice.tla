----------------------------- MODULE ForkChoice -----------------------------
(***************************************************************************)
(* What the chain store promises its callers: a node holds a growing set of*)
(* blocks and follows one of them, its best tip.  It moves to a child of   *)
(* the tip, to a heavier block it holds down to genesis, or one block back *)
(* to let a rival of its tip's height take the place.  A restart may leave *)
(* it on any block it holds down to genesis.                               *)
(***************************************************************************)
EXTENDS Integers

CONSTANTS Blocks, Genesis, Parent, Height, Chain, Weight

VARIABLES held, best, restarts

choice == <<held, best, restarts>>

Complete(b) == \A h \in 0..Height[b] : Chain[b][h] \in held

Init == held = {Genesis} /\ best = Genesis /\ restarts = 0

Hold == \E b \in Blocks : held' = held \cup {b} /\ UNCHANGED <<best, restarts>>

Adopt ==
  \E b \in held :
    /\ Complete(b)
    /\ Parent[b] = best \/ Weight[b] > Weight[best]
    /\ best' = b
    /\ UNCHANGED <<held, restarts>>

GiveWay ==
  /\ \E rival \in Blocks \ {best} : Height[rival] = Height[best]
  /\ best' = Parent[best]
  /\ UNCHANGED <<held, restarts>>

Recover ==
  /\ best' \in {b \in held : Complete(b)}
  /\ restarts' = restarts + 1
  /\ UNCHANGED held

Next == Hold \/ Adopt \/ GiveWay \/ Recover

Spec == Init /\ [][Next]_choice
=============================================================================
