--------------------------- MODULE FormationGate ---------------------------
(***************************************************************************)
(* The solo-block formation gate of a node (src/node/formation_gate.rs).   *)
(* Three sites may form a block; each first asks allow_formation.  The     *)
(* gate is a handful of relaxed atomics and one mutex-protected map, so    *)
(* calls of note_peer_height (one per handshake) and allow_formation (one  *)
(* per forming site) interleave between any two of those accesses.         *)
(*                                                                         *)
(* Time is kept as three saturating ages rather than a clock: how long the *)
(* process has run, how long ago the first handshake was recorded, and how *)
(* long the corroboration hold has lasted.  Like the source, the last two  *)
(* are stored "+1", 0 meaning that the clock is not running.               *)
(***************************************************************************)
EXTENDS Integers, FiniteSets

CONSTANTS
  Peers,                  \* peer identities
  Formers,                \* formation sites: the ticker, the RPC layer, the router
  MaxHeight,              \* bound: highest chain height considered
  Grace,                  \* FORMATION_GRACE_SECS, in ticks
  MaxHold,                \* CORROBORATION_MAX_HOLD, in ticks
  FORM_BEHIND_TOLERANCE,
  CORROBORATING_PEERS,
  MAX_TRACKED_PEERS

ASSUME GateConstants ==
  /\ IsFiniteSet(Peers)
  /\ MaxHeight \in Nat
  /\ Grace \in Nat
  /\ MaxHold \in Nat
  /\ FORM_BEHIND_TOLERANCE \in Nat
  /\ CORROBORATING_PEERS \in Nat
  /\ MAX_TRACKED_PEERS \in Nat

VARIABLES
  open,           \* the sticky flag
  seenPeer,       \* some handshake has been observed
  bestPeerHeight, \* highest height any handshake advertised
  peerHeights,    \* newest claim of each tracked peer
  bestBlock,      \* highest block validated and stored, canonical or not
  ourHeight,      \* height of the canonical chain (owned by the chain store)
  uptime,         \* age of the process, saturating at Grace
  firstPeer,      \* 0, or 1 + age of the first recorded handshake
  holdClock,      \* 0, or 1 + age of the corroboration hold
  note,           \* note_peer_height calls: peer -> [pc, height]
  form            \* allow_formation calls: site -> [pc, ours, best, ...]

claims == <<seenPeer, bestPeerHeight, peerHeights>>
gate == <<open, claims, bestBlock, holdClock>>
time == <<uptime, firstPeer>>
vars == <<open, seenPeer, bestPeerHeight, peerHeights, bestBlock, holdClock,
          uptime, firstPeer, ourHeight, note, form>>

Heights == 0..MaxHeight
Larger(a, b) == IF a > b THEN a ELSE b
Smaller(a, b) == IF a < b THEN a ELSE b

NotePC == {"idle", "max", "map", "offset"}
FormPC == {"idle", "brake", "sticky", "best", "parity", "grace", "count",
           "hold", "clear", "opening", "yes", "no"}

Init ==
  /\ open = FALSE
  /\ seenPeer = FALSE
  /\ bestPeerHeight = 0
  /\ peerHeights = [p \in {} |-> 0]
  /\ bestBlock = 0
  /\ ourHeight \in Heights
  /\ uptime = 0
  /\ firstPeer = 0
  /\ holdClock = 0
  /\ note = [p \in Peers |-> [pc |-> "idle", height |-> 0]]
  /\ form = [f \in Formers |-> [pc |-> "idle", ours |-> 0, best |-> 0,
                                adv |-> {}, wasOpen |-> FALSE]]

-----------------------------------------------------------------------------
(* note_peer_height, called once per completed VERSION handshake. *)

NoteStep(p, from, to) ==
  /\ note[p].pc = from
  /\ note' = [note EXCEPT ![p].pc = to]

NoteSeen(p, h) ==
  /\ note[p].pc = "idle"
  /\ note' = [note EXCEPT ![p] = [pc |-> "max", height |-> h]]
  /\ seenPeer' = TRUE
  /\ UNCHANGED <<open, bestPeerHeight, peerHeights, bestBlock, holdClock, time,
                 ourHeight, form>>

NoteMax(p) ==
  /\ NoteStep(p, "max", "map")
  /\ bestPeerHeight' = Larger(bestPeerHeight, note[p].height)
  /\ UNCHANGED <<open, seenPeer, peerHeights, bestBlock, holdClock, time,
                 ourHeight, form>>

Tracked(p) ==
  \/ p \in DOMAIN peerHeights
  \/ Cardinality(DOMAIN peerHeights) < MAX_TRACKED_PEERS

NoteMap(p) ==
  /\ note[p].pc = "map"
  /\ note' = [note EXCEPT ![p] = [pc |-> "offset", height |-> 0]]
  /\ peerHeights' = IF Tracked(p)
                    THEN [q \in DOMAIN peerHeights \cup {p} |->
                            IF q = p THEN note[p].height ELSE peerHeights[q]]
                    ELSE peerHeights
  /\ UNCHANGED <<open, seenPeer, bestPeerHeight, bestBlock, holdClock, time,
                 ourHeight, form>>

NoteOffset(p) ==
  /\ NoteStep(p, "offset", "idle")
  /\ firstPeer' = IF firstPeer = 0 THEN 1 ELSE firstPeer
  /\ UNCHANGED <<gate, uptime, ourHeight, form>>

-----------------------------------------------------------------------------
(* The block paths, as far as the gate sees them. *)

\* A block is validated and stored.  It extends or replaces the canonical
\* chain, or only lands on a fork; note_validated_block follows the store.
StoreBlock(h, newTip) ==
  /\ bestBlock' = Larger(bestBlock, h)
  /\ ourHeight' = IF newTip THEN h ELSE ourHeight
  /\ UNCHANGED <<open, claims, holdClock, time, note, form>>

\* A parked block connects once its parent arrives: process_orphan_block_data
\* stores it without telling the gate.
ConnectOrphan(h) ==
  /\ h > ourHeight
  /\ ourHeight' = h
  /\ UNCHANGED <<gate, time, note, form>>

\* Variant: rolling back below height 0.
RollbackAlways ==
  /\ ourHeight' = ourHeight - 1
  /\ UNCHANGED <<gate, time, note, form>>

\* A lost tip-level race rolls the canonical chain back by one block.
Rollback ==
  /\ ourHeight > 0
  /\ ourHeight' = ourHeight - 1
  /\ UNCHANGED <<gate, time, note, form>>

Older(clock, bound) == IF clock = 0 THEN 0 ELSE Smaller(clock + 1, bound + 1)

Tick ==
  /\ uptime' = Smaller(uptime + 1, Grace)
  /\ firstPeer' = Older(firstPeer, Grace)
  /\ holdClock' = Older(holdClock, MaxHold)
  /\ UNCHANGED <<open, claims, bestBlock, ourHeight, note, form>>

-----------------------------------------------------------------------------
(* allow_formation(our_height), one atomic access per step.  The calling    *)
(* site reads the chain height first and passes it by value.                *)

\* History, recorded by Call for the properties: the heights claimed by the
\* handshakes observed so far (the maximum of the finished ones and those
\* under way), and whether the gate was open.
Advertised ==
  {bestPeerHeight} \cup {note[p].height : p \in {q \in Peers : note[q].pc = "max"}}

FormStep(f, from, to) ==
  /\ form[f].pc = from
  /\ form' = [form EXCEPT ![f].pc = to]

Call(f) ==
  /\ form[f].pc \in {"idle", "yes", "no"}
  /\ form' = [form EXCEPT ![f] =
                [pc |-> "brake", ours |-> ourHeight, best |-> 0,
                 adv |-> Advertised, wasOpen |-> open]]
  /\ UNCHANGED <<gate, time, ourHeight, note>>

\* Behind a chain we have validated: refuse, before looking at the sticky flag.
Behind(h) == bestBlock > h + FORM_BEHIND_TOLERANCE

\* Variant: every call that clears the brake also clears the hold clock.
BrakeRestartsHold(f) ==
  /\ FormStep(f, "brake", IF Behind(form[f].ours) THEN "no" ELSE "sticky")
  /\ holdClock' = IF Behind(form[f].ours) THEN holdClock ELSE 0
  /\ UNCHANGED <<open, claims, bestBlock, time, ourHeight, note>>

Brake(f) ==
  /\ FormStep(f, "brake", IF Behind(form[f].ours) THEN "no" ELSE "sticky")
  /\ UNCHANGED <<gate, time, ourHeight, note>>

\* Variant: the sticky flag is not consulted, every call starts over.
StickyIgnored(f) ==
  /\ FormStep(f, "sticky", "best")
  /\ UNCHANGED <<gate, time, ourHeight, note>>

Sticky(f) ==
  /\ FormStep(f, "sticky", IF open THEN "yes" ELSE "best")
  /\ UNCHANGED <<gate, time, ourHeight, note>>

LoadBest(f) ==
  /\ form[f].pc = "best"
  /\ form' = [form EXCEPT ![f] =
                [pc |-> "parity", ours |-> @.ours, best |-> bestPeerHeight,
                 adv |-> @.adv, wasOpen |-> @.wasOpen]]
  /\ UNCHANGED <<gate, time, ourHeight, note>>

\* Variant: parity without a handshake.
AtParityAlone(f) == form[f].ours >= form[f].best

AtParity(f) == seenPeer /\ form[f].ours >= form[f].best

Parity(f) ==
  /\ form[f].pc = "parity"
  /\ form' = [form EXCEPT ![f] =
                [pc |-> IF AtParity(f) THEN "clear" ELSE "grace", ours |-> @.ours,
                 best |-> 0, adv |-> {}, wasOpen |-> @.wasOpen]]
  /\ UNCHANGED <<gate, time, ourHeight, note>>

GraceOver == IF firstPeer = 0 THEN uptime >= Grace ELSE firstPeer - 1 >= Grace

GraceCheck(f) ==
  /\ FormStep(f, "grace", IF GraceOver THEN "count" ELSE "no")
  /\ UNCHANGED <<gate, time, ourHeight, note>>

Claiming(h) == {p \in DOMAIN peerHeights : peerHeights[p] > h}

\* Variant: one peer is enough.
CorroboratedByOne(h) == Claiming(h + FORM_BEHIND_TOLERANCE) # {}

Corroborated(h) ==
  Cardinality(Claiming(h + FORM_BEHIND_TOLERANCE)) >= CORROBORATING_PEERS

Count(f) ==
  /\ FormStep(f, "count", IF Corroborated(form[f].ours) THEN "hold" ELSE "clear")
  /\ UNCHANGED <<gate, time, ourHeight, note>>

HeldLongEnough == IF holdClock = 0 THEN MaxHold = 0 ELSE holdClock - 1 >= MaxHold

\* Start the hold clock, or read it; claims may delay but not veto.
Hold(f) ==
  /\ FormStep(f, "hold", IF HeldLongEnough THEN "opening" ELSE "no")
  /\ holdClock' = IF holdClock = 0 THEN 1 ELSE holdClock
  /\ UNCHANGED <<open, claims, bestBlock, time, ourHeight, note>>

\* At parity, or not corroborated: the hold is over.
ClearHold(f) ==
  /\ FormStep(f, "clear", "opening")
  /\ holdClock' = 0
  /\ UNCHANGED <<open, claims, bestBlock, time, ourHeight, note>>

Open(f) ==
  /\ FormStep(f, "opening", "yes")
  /\ open' = TRUE
  /\ UNCHANGED <<claims, bestBlock, holdClock, time, ourHeight, note>>

\* The site that was allowed stores its own block; unlike the receive paths it
\* does not call note_validated_block.
FormBlock(f) ==
  /\ FormStep(f, "yes", "idle")
  /\ ourHeight < MaxHeight
  /\ ourHeight' = ourHeight + 1
  /\ UNCHANGED <<gate, time, note>>

AllowFormation(f) ==
  \/ Brake(f) \/ Sticky(f) \/ LoadBest(f) \/ Parity(f) \/ GraceCheck(f)
  \/ Count(f) \/ Hold(f) \/ ClearHold(f) \/ Open(f)

Handshake(p) ==
  \/ \E h \in Heights : NoteSeen(p, h)
  \/ NoteMax(p) \/ NoteMap(p) \/ NoteOffset(p)

Chain ==
  \/ \E h \in Heights, newTip \in BOOLEAN : StoreBlock(h, newTip)
  \/ \E h \in Heights : ConnectOrphan(h)
  \/ Rollback

Next ==
  \/ \E p \in Peers : Handshake(p)
  \/ \E f \in Formers : Call(f) \/ AllowFormation(f) \/ FormBlock(f)
  \/ Chain
  \/ Tick

Spec == Init /\ [][Next]_vars

\* The sites keep asking (a ticker and every submitted action), a call that
\* has begun runs to its end, and time passes.  Nothing is assumed of peers:
\* no handshake, no block and no rollback has to happen.
Fairness ==
  /\ \A f \in Formers : WF_vars(Call(f)) /\ WF_vars(AllowFormation(f))
  /\ WF_vars(Tick)

FairSpec == Spec /\ Fairness

-----------------------------------------------------------------------------
(* Properties *)

\* Every variable of the gate stays in its range: the ages saturate, the map
\* holds heights, each call is at one of its accesses.
TypeOK ==
  /\ open \in BOOLEAN
  /\ seenPeer \in BOOLEAN
  /\ bestPeerHeight \in Heights
  /\ bestBlock \in Heights
  /\ ourHeight \in Heights
  /\ DOMAIN peerHeights \subseteq Peers
  /\ peerHeights \in [DOMAIN peerHeights -> Heights]
  /\ uptime \in 0..Grace
  /\ firstPeer \in 0..(Grace + 1)
  /\ holdClock \in 0..(MaxHold + 1)
  /\ note \in [Peers -> [pc : NotePC, height : Heights]]
  /\ form \in [Formers -> [pc : FormPC, ours : Heights, best : Heights,
                           adv : SUBSET Heights, wasOpen : BOOLEAN]]

\* A node that has heard of no peer never opens its gate, and so never mints
\* alone, before a full grace window has passed since process start
\* (allow_formation: parity needs a handshake, the deadline is never earlier
\* than the grace window).
NoEarlySoloFormation == open => seenPeer \/ uptime = Grace

\* Once the gate was open when a site asked, the only thing that can refuse
\* the site is a validated block more than the tolerance above its height:
\* no handshake claim can close the gate again.
OpenGateYieldsOnlyToWork ==
  \A f \in Formers :
    form[f].pc = "no" /\ form[f].wasOpen
      => bestBlock > form[f].ours + FORM_BEHIND_TOLERANCE

\* The corroboration hold never runs on fewer distinct peers than
\* CORROBORATING_PEERS, and the table it counts never outgrows its cap.
HoldNeedsCorroboration ==
  /\ holdClock > 0 => Cardinality(DOMAIN peerHeights) >= CORROBORATING_PEERS
  /\ Cardinality(DOMAIN peerHeights) <= MAX_TRACKED_PEERS

\* Claims may delay, not veto: if from some point on no validated block stands
\* more than the tolerance above our tip, the gate opens whatever heights the
\* peers keep advertising (the hold clock is not restarted by each call).
ClaimsDelayNotVeto ==
  (<>[](bestBlock <= ourHeight + FORM_BEHIND_TOLERANCE)) => <>open

\* Peer-tip parity, as the module documentation states it: a site that takes
\* the parity branch has reached the highest height advertised by any
\* handshake observed before it asked.
ParityMeansCaughtUp ==
  [][\A f \in Formers :
       (form[f].pc = "parity" /\ form'[f].pc = "clear")
         => \A h \in form[f].adv : form[f].ours >= h]_vars
=============================================================================
