------------------------ MODULE FormationGateProofs ------------------------
(***************************************************************************)
(* What the formation gate guarantees for any number of peers and forming  *)
(* sites, any heights and any of its tuning constants.                     *)
(***************************************************************************)
EXTENDS FormationGate, FiniteSetTheorems, TLAPS

USE GateConstants DEF GateConstants, Heights, NotePC, FormPC

\* The ages and maxima stay inside their ranges.
LEMMA LargerInHeights ==
  ASSUME NEW a \in Heights, NEW b \in Heights
  PROVE  Larger(a, b) \in Heights /\ Larger(a, b) >= a /\ Larger(a, b) >= b
BY DEF Larger

LEMMA OlderInRange ==
  ASSUME NEW bound \in Nat, NEW clock \in 0..(bound + 1)
  PROVE  Older(clock, bound) \in 0..(bound + 1) /\ (clock > 0 <=> Older(clock, bound) > 0)
BY DEF Older, Smaller

\* A step of allow_formation that only moves the program counter.
LEMMA FormStepFrame ==
  ASSUME TypeOK, NEW f \in Formers, NEW from, NEW to, FormStep(f, from, to)
  PROVE  /\ form[f].pc = from
         /\ \A g \in Formers :
              /\ form'[g].pc = IF g = f THEN to ELSE form[g].pc
              /\ form'[g].ours = form[g].ours
              /\ form'[g].wasOpen = form[g].wasOpen
BY DEF TypeOK, FormStep

\* Every step of the gate keeps every variable in its range.
THEOREM TypeCorrect == Spec => []TypeOK
<1>1. Init => TypeOK
  <2> SUFFICES ASSUME Init PROVE TypeOK
    OBVIOUS
  <2>1. DOMAIN peerHeights = {} /\ peerHeights \in [DOMAIN peerHeights -> Heights]
    BY DEF Init
  <2>2. form \in [Formers -> [pc : FormPC, ours : Heights, best : Heights,
                             adv : SUBSET Heights, wasOpen : BOOLEAN]]
    BY DEF Init
  <2>3. note \in [Peers -> [pc : NotePC, height : Heights]]
    BY DEF Init
  <2>4. /\ 0 \in Heights /\ 0 \in 0..Grace /\ 0 \in 0..(Grace + 1)
        /\ 0 \in 0..(MaxHold + 1)
    OBVIOUS
  <2> QED BY ONLY <2>1, <2>2, <2>3, <2>4, Init, ZenonT(60) DEF Init, TypeOK
<1>2. TypeOK /\ [Next]_vars => TypeOK'
  <2> SUFFICES ASSUME TypeOK, [Next]_vars PROVE TypeOK'
    OBVIOUS
  <2> USE DEF TypeOK, claims, gate, time
  <2>1. ASSUME NEW p \in Peers, NEW h \in Heights, NoteSeen(p, h) PROVE TypeOK'
    BY <2>1 DEF NoteSeen
  <2>2. ASSUME NEW p \in Peers, NoteMax(p) PROVE TypeOK'
    BY <2>2, LargerInHeights DEF NoteMax, NoteStep
  <2>3. ASSUME NEW p \in Peers, NoteMap(p) PROVE TypeOK'
    BY <2>3 DEF NoteMap
  <2>4. ASSUME NEW p \in Peers, NoteOffset(p) PROVE TypeOK'
    BY <2>4 DEF NoteOffset, NoteStep
  <2>5. ASSUME NEW h \in Heights, NEW newTip \in BOOLEAN, StoreBlock(h, newTip) PROVE TypeOK'
    BY <2>5, LargerInHeights, ZenonT(60) DEF StoreBlock
  <2>6. CASE Rollback \/ \E h \in Heights : ConnectOrphan(h)
    BY <2>6 DEF Rollback, ConnectOrphan
  <2>7. CASE Tick
    BY <2>7, OlderInRange DEF Tick, Smaller
  <2>8. ASSUME NEW f \in Formers, Call(f) PROVE TypeOK'
    <3>1. Advertised \in SUBSET Heights
      BY DEF Advertised
    <3> QED BY <2>8, <3>1 DEF Call
  <2>9. ASSUME NEW f \in Formers, AllowFormation(f) PROVE TypeOK'
    <3> DEFINE Site == [pc : FormPC, ours : Heights, best : Heights,
                        adv : SUBSET Heights, wasOpen : BOOLEAN]
               Sites == [Formers -> Site]
    <3>1. ASSUME NEW from, NEW to \in FormPC, FormStep(f, from, to)
          PROVE  form' \in Sites
      BY <3>1, ZenonT(60) DEF FormStep
    <3>2. CASE Brake(f) \/ Sticky(f) \/ GraceCheck(f) \/ Count(f)
      BY <3>1, <3>2, ZenonT(60) DEF Brake, Sticky, GraceCheck, Count
    <3>3. CASE LoadBest(f)
      <4>1. form' \in Sites  BY <3>3, ZenonT(60) DEF LoadBest
      <4> QED BY <3>3, <4>1, ZenonT(60) DEF LoadBest
    <3>4. CASE Parity(f)
      <4>1. form' \in Sites  BY <3>4 DEF Parity
      <4> QED BY <3>4, <4>1, ZenonT(60) DEF Parity
    <3>5. CASE Hold(f)
      BY <3>1, <3>5 DEF Hold
    <3>6. CASE ClearHold(f)
      BY <3>1, <3>6 DEF ClearHold
    <3>7. CASE Open(f)
      BY <3>1, <3>7, ZenonT(60) DEF Open
    <3> QED BY <2>9, <3>2, <3>3, <3>4, <3>5, <3>6, <3>7, ZenonT(60) DEF AllowFormation
  <2>10. ASSUME NEW f \in Formers, FormBlock(f) PROVE TypeOK'
    <3>1. form' \in [Formers -> [pc : FormPC, ours : Heights, best : Heights,
                                 adv : SUBSET Heights, wasOpen : BOOLEAN]]
      BY <2>10, ZenonT(60) DEF FormBlock, FormStep
    <3>2. ourHeight' \in Heights  BY <2>10, GateConstants DEF FormBlock
    <3> QED BY <2>10, <3>1, <3>2 DEF FormBlock
  <2>11. CASE UNCHANGED vars
    BY <2>11 DEF vars
  <2> QED
    BY <2>1, <2>2, <2>3, <2>4, <2>5, <2>6, <2>7, <2>8, <2>9, <2>10, <2>11, ZenonT(60)
       DEF Next, Handshake, Chain
<1> QED BY <1>1, <1>2, PTL DEF Spec

-----------------------------------------------------------------------------
(* NoEarlySoloFormation.  The gate opens in several steps, so the fact that  *)
(* the wait is over must be carried through the program counters between     *)
(* the check and the opening; a running first-handshake clock implies that   *)
(* seen_peer was stored before it.                                           *)

Waited == seenPeer \/ uptime = Grace

WaitInv ==
  /\ \A p \in Peers : note[p].pc # "idle" => seenPeer
  /\ firstPeer > 0 => seenPeer
  /\ \A f \in Formers :
       form[f].pc \in {"count", "hold", "clear", "opening"} => Waited
  /\ open => Waited

\* A node that has met no peer opens its gate only after the grace window,
\* however calls of note_peer_height and allow_formation interleave.
THEOREM NoEarlySolo == Spec => []NoEarlySoloFormation
<1>1. Init => WaitInv
  BY DEF Init, WaitInv
<1>2. TypeOK /\ WaitInv /\ [Next]_vars => WaitInv'
  <2> SUFFICES ASSUME TypeOK, WaitInv, [Next]_vars PROVE WaitInv'
    OBVIOUS
  <2> USE DEF TypeOK, WaitInv, Waited, claims, gate, time
  <2>1. ASSUME NEW p \in Peers, NEW h \in Heights, NoteSeen(p, h) PROVE WaitInv'
    BY <2>1 DEF NoteSeen
  <2>2. ASSUME NEW p \in Peers, NoteMax(p) \/ NoteMap(p) PROVE WaitInv'
    BY <2>2 DEF NoteMax, NoteMap, NoteStep
  <2>3. ASSUME NEW p \in Peers, NoteOffset(p) PROVE WaitInv'
    BY <2>3 DEF NoteOffset, NoteStep
  <2>4. CASE Chain
    BY <2>4 DEF Chain, StoreBlock, ConnectOrphan, Rollback
  <2>5. CASE Tick
    BY <2>5, OlderInRange DEF Tick, Smaller
  <2>6. ASSUME NEW f \in Formers, Call(f) \/ FormBlock(f) PROVE WaitInv'
    BY <2>6 DEF Call, FormBlock, FormStep
  <2>7. ASSUME NEW f \in Formers, AllowFormation(f) PROVE WaitInv'
    <3>1. CASE Brake(f) \/ Sticky(f)
      BY <3>1, FormStepFrame DEF Brake, Sticky
    <3>2. CASE LoadBest(f) \/ Parity(f)
      BY <3>2 DEF LoadBest, Parity, AtParity
    <3>3. CASE GraceCheck(f)
      <4>1. GraceOver => Waited
        <5>0. uptime \in 0..Grace
          OBVIOUS
        <5>1. ASSUME firstPeer = 0, GraceOver PROVE uptime = Grace
          <6>1. uptime >= Grace
            BY <5>1, ZenonT(60) DEF GraceOver
          <6> QED BY ONLY <5>0, <6>1, Grace \in Nat
        <5>2. firstPeer # 0 => firstPeer > 0
          OBVIOUS
        <5> QED BY <5>1, <5>2, ZenonT(60)
      <4> QED BY <3>3, <4>1, FormStepFrame DEF GraceCheck
    <3>4. CASE Count(f) \/ Hold(f) \/ ClearHold(f)
      BY <3>4 DEF Count, Hold, ClearHold, FormStep
    <3>5. CASE Open(f)
      BY <3>5, ZenonT(60) DEF Open, FormStep
    <3> QED BY <2>7, <3>1, <3>2, <3>3, <3>4, <3>5, ZenonT(60) DEF AllowFormation
  <2>8. CASE UNCHANGED vars
    BY <2>8 DEF vars
  <2> QED
    BY <2>1, <2>2, <2>3, <2>4, <2>5, <2>6, <2>7, <2>8 DEF Next, Handshake
<1>3. WaitInv => NoEarlySoloFormation
  BY ZenonT(60) DEF WaitInv, Waited, NoEarlySoloFormation
<1> QED BY <1>1, <1>2, <1>3, TypeCorrect, PTL DEF Spec

-----------------------------------------------------------------------------
(* OpenGateYieldsOnlyToWork.  The flag is never cleared, so a call that      *)
(* began with the gate open finds it open at its sticky check and never gets *)
(* further; the only refusal left is the brake, and bestBlock only grows.    *)

YieldInv ==
  \A f \in Formers :
    /\ form[f].wasOpen => open
    /\ form[f].pc \in {"best", "parity", "grace", "count", "hold", "clear",
                       "opening"} => ~form[f].wasOpen
    /\ form[f].pc = "no" /\ form[f].wasOpen
         => bestBlock > form[f].ours + FORM_BEHIND_TOLERANCE

\* An open gate refuses a site only on account of validated work, whatever
\* heights peers advertise meanwhile.
THEOREM OpenYieldsOnlyToWork == Spec => []OpenGateYieldsOnlyToWork
<1>1. Init => YieldInv
  BY DEF Init, YieldInv
<1>2. TypeOK /\ YieldInv /\ [Next]_vars => YieldInv'
  <2> SUFFICES ASSUME TypeOK, YieldInv, [Next]_vars PROVE YieldInv'
    OBVIOUS
  <2> USE DEF TypeOK, YieldInv, claims, gate, time
  <2>1. ASSUME NEW p \in Peers, Handshake(p) PROVE YieldInv'
    BY <2>1, ZenonT(60) DEF Handshake, NoteSeen, NoteMax, NoteMap, NoteOffset, NoteStep
  <2>2. CASE Chain
    BY <2>2, LargerInHeights DEF Chain, StoreBlock, ConnectOrphan, Rollback
  <2>3. CASE Tick
    BY <2>3 DEF Tick
  <2>4. ASSUME NEW f \in Formers, Call(f) \/ FormBlock(f) PROVE YieldInv'
    BY <2>4 DEF Call, FormBlock, FormStep
  <2>5. ASSUME NEW f \in Formers, AllowFormation(f) PROVE YieldInv'
    <3>1. CASE Brake(f)
      BY <3>1, ZenonT(60) DEF Brake, Behind, FormStep
    <3>2. CASE Sticky(f)
      BY <3>2, FormStepFrame DEF Sticky
    <3>3. CASE LoadBest(f) \/ Parity(f)
      BY <3>3 DEF LoadBest, Parity
    <3>4. CASE GraceCheck(f) \/ Count(f) \/ Hold(f) \/ ClearHold(f)
      BY <3>4 DEF GraceCheck, Count, Hold, ClearHold, FormStep
    <3>5. CASE Open(f)
      BY <3>5 DEF Open, FormStep
    <3> QED BY <2>5, <3>1, <3>2, <3>3, <3>4, <3>5, ZenonT(60) DEF AllowFormation
  <2>6. CASE UNCHANGED vars
    BY <2>6 DEF vars
  <2> QED
    BY <2>1, <2>2, <2>3, <2>4, <2>5, <2>6, ZenonT(60) DEF Next
<1>3. YieldInv => OpenGateYieldsOnlyToWork
  BY ZenonT(60) DEF YieldInv, OpenGateYieldsOnlyToWork
<1> QED BY <1>1, <1>2, <1>3, TypeCorrect, PTL DEF Spec

-----------------------------------------------------------------------------
(* HoldNeedsCorroboration.  Peers may lower their claims between the count   *)
(* and the hold, but no peer leaves the table.                               *)

CountInv ==
  /\ IsFiniteSet(DOMAIN peerHeights)
  /\ Cardinality(DOMAIN peerHeights) <= MAX_TRACKED_PEERS
  /\ holdClock > 0 => Cardinality(DOMAIN peerHeights) >= CORROBORATING_PEERS
  /\ \A f \in Formers :
       form[f].pc = "hold" => Cardinality(DOMAIN peerHeights) >= CORROBORATING_PEERS

\* The corroboration hold only ever runs on enough distinct peers, and the
\* table of claims respects its cap.
THEOREM HoldIsCorroborated == Spec => []HoldNeedsCorroboration
<1>1. Init => CountInv
  BY FS_EmptySet DEF Init, CountInv
<1>2. TypeOK /\ CountInv /\ [Next]_vars => CountInv'
  <2> SUFFICES ASSUME TypeOK, CountInv, [Next]_vars PROVE CountInv'
    OBVIOUS
  <2> USE DEF TypeOK, CountInv, claims, gate, time
  <2>1. Cardinality(DOMAIN peerHeights) \in Nat
    BY FS_CardinalityType, ZenonT(60)
  <2>2. ASSUME NEW p \in Peers, NoteMap(p) PROVE CountInv'
    <3> DEFINE D == DOMAIN peerHeights
    <3>1. CASE ~Tracked(p)
      BY <2>2, <3>1 DEF NoteMap
    <3>2. CASE Tracked(p)
      <4>1. DOMAIN peerHeights' = D \cup {p}
        BY <2>2, <3>2 DEF NoteMap
      <4>2. /\ IsFiniteSet(D \cup {p})
            /\ Cardinality(D \cup {p}) = IF p \in D THEN Cardinality(D)
                                        ELSE Cardinality(D) + 1
        BY FS_AddElement, ZenonT(60)
      <4>3. Cardinality(D \cup {p}) >= Cardinality(D)
        BY <2>1, <4>2
      <4>4. Cardinality(D \cup {p}) <= MAX_TRACKED_PEERS
        BY <2>1, <3>2, <4>2 DEF Tracked
      <4>5. Cardinality(D \cup {p}) \in Nat
        BY <4>2, FS_CardinalityType
      <4>6. UNCHANGED <<holdClock, form>>
        BY <2>2 DEF NoteMap
      <4>7. \A c \in Nat : Cardinality(D) >= c => Cardinality(D \cup {p}) >= c
        BY <2>1, <4>3, <4>5
      <4> HIDE DEF TypeOK
      <4> QED BY <4>1, <4>2, <4>4, <4>6, <4>7, ZenonT(60)
    <3> QED BY <3>1, <3>2, ZenonT(60)
  <2>3. ASSUME NEW p \in Peers, NEW h \in Heights, NoteSeen(p, h) PROVE CountInv'
    BY <2>3, ZenonT(60) DEF NoteSeen
  <2>4. ASSUME NEW p \in Peers, NoteMax(p) \/ NoteOffset(p) PROVE CountInv'
    BY <2>4 DEF NoteMax, NoteOffset
  <2>5. CASE Chain
    BY <2>5 DEF Chain, StoreBlock, ConnectOrphan, Rollback
  <2>6. CASE Tick
    BY <2>6, OlderInRange DEF Tick
  <2>7. ASSUME NEW f \in Formers, Call(f) \/ FormBlock(f) PROVE CountInv'
    BY <2>7 DEF Call, FormBlock, FormStep
  <2>8. ASSUME NEW f \in Formers, AllowFormation(f) PROVE CountInv'
    <3>1. CASE Brake(f) \/ Sticky(f) \/ GraceCheck(f) \/ Open(f)
      BY <3>1, FormStepFrame DEF Brake, Sticky, GraceCheck, Open
    <3>2. CASE LoadBest(f) \/ Parity(f)
      BY <3>2 DEF LoadBest, Parity
    <3>3. CASE Count(f)
      <4> DEFINE C == Claiming(form[f].ours + FORM_BEHIND_TOLERANCE)
      <4>1. /\ C \subseteq DOMAIN peerHeights
            /\ Cardinality(C) <= Cardinality(DOMAIN peerHeights)
            /\ Cardinality(C) \in Nat
        BY FS_Subset, FS_CardinalityType, ZenonT(60) DEF Claiming
      <4>2. Corroborated(form[f].ours)
              => Cardinality(DOMAIN peerHeights) >= CORROBORATING_PEERS
        BY <2>1, <4>1 DEF Corroborated
      <4> QED BY <3>3, <4>2 DEF Count, FormStep
    <3>4. CASE Hold(f)
      BY <3>4 DEF Hold, FormStep
    <3>5. CASE ClearHold(f)
      BY <3>5 DEF ClearHold, FormStep
    <3> QED BY <2>8, <3>1, <3>2, <3>3, <3>4, <3>5, ZenonT(60) DEF AllowFormation
  <2>9. CASE UNCHANGED vars
    BY <2>9 DEF vars
  <2> QED
    BY <2>2, <2>3, <2>4, <2>5, <2>6, <2>7, <2>8, <2>9, ZenonT(60) DEF Next, Handshake
<1>3. CountInv => HoldNeedsCorroboration
  BY DEF CountInv, HoldNeedsCorroboration
<1> QED BY <1>1, <1>2, <1>3, TypeCorrect, PTL DEF Spec
=============================================================================
