-------------------------- MODULE OfferBookProofs --------------------------
(***************************************************************************)
(* CountCoversGrants, PeersNeverOvercount and the types for any nodes,     *)
(* offers, claimants and number of slots, and that an offer is             *)
(* over-claimed only after it has refused someone.  The counter of the     *)
(* sponsor's node is safe only because nothing but the sponsor's own       *)
(* cancellation can take an offer away there: an offer that came back      *)
(* through gossip would start again at 0.  So the invariant follows the    *)
(* offer through the messages and the handlers under way.                  *)
(***************************************************************************)
EXTENDS OfferBook, FiniteSetTheorems, TLAPS

\* The counters, and the two properties about them.
Slots ==
  /\ offers \in [Nodes -> SUBSET Offers]
  /\ claimed_counts \in [Nodes -> [Offers -> Counts]]
  /\ created \subseteq Offers
  /\ granted \in [Offers -> 0..(max_sponsees + 1)]
  /\ peak \in [Offers -> 0..max_sponsees]
  /\ \A n \in Nodes : offers[n] \subseteq created
  /\ created \ withdrawn \subseteq offers[SponsorNode]
  /\ \A o \in Offers \ created : granted[o] = 0
  /\ CountCoversGrants
  /\ PeersNeverOvercount

\* Messages and handlers that store or delete an offer concern one that was
\* created; a deletion is the echo of the sponsor's; a count on its way was once
\* the sponsor's.
Mail ==
  /\ \A m \in net :
       /\ m.kind # "claim" => m.offer \in created
       /\ m.kind = "cancel" => m.offer \in withdrawn
  /\ \A t \in tasks :
       /\ t.op # "claim" => t.offer \in created
       /\ t.op = "tombstone" => t.offer \in withdrawn
       /\ t.op = "seed" => t.count \in 0..peak[t.offer]

\* Approvals concern offers that were created, and the second look at an absent
\* counter is one at an offer whose counter is lost.
Calls ==
  /\ job \in [Workers -> Jobs]
  /\ \A w \in Workers :
       job[w] # Idle =>
         /\ job[w].offer \in created
         /\ job[w].pc = "recheck" => job[w].offer \in refused \cup withdrawn
  /\ sweep \subseteq created \X Claimants

OInv == Slots /\ Mail /\ Calls

-----------------------------------------------------------------------------
(* The counter *)

\* bump_claimed_count_to never lowers a count, nor raises it past both.
LEMMA BumpedIsMax ==
  ASSUME NEW k \in Counts, NEW n \in 0..max_sponsees
  PROVE  /\ Bumped(k, n) \in 0..max_sponsees
         /\ Bumped(k, n) >= k
         /\ \A p \in 0..max_sponsees : k <= p /\ n <= p => Bumped(k, n) <= p
BY OfferConstants DEF Bumped, Larger, Current, Counts, NoKey

\* increment_claimed_count adds one slot, or loses the key when it is full.
LEMMA IncrementedBound ==
  ASSUME NEW k \in Counts
  PROVE  /\ Incremented(k) \in Counts
         /\ k # NoKey /\ k + 1 <= max_sponsees => Incremented(k) = k + 1
BY OfferConstants DEF Incremented, Current, Counts, NoKey

\* Mail stands while the histories grow and what is added is in order.
LEMMA MailFrame ==
  ASSUME Mail,
         created \subseteq created', withdrawn \subseteq withdrawn',
         created \subseteq Offers,
         peak \in [Offers -> 0..max_sponsees], peak' \in [Offers -> 0..max_sponsees],
         \A o \in Offers : peak[o] <= peak'[o],
         \A m \in net' \ net :
           /\ m.kind # "claim" => m.offer \in created'
           /\ m.kind = "cancel" => m.offer \in withdrawn',
         \A t \in tasks' \ tasks :
           /\ t.op # "claim" => t.offer \in created'
           /\ t.op = "tombstone" => t.offer \in withdrawn'
           /\ t.op = "seed" => t.count \in 0..peak'[t.offer]
  PROVE  Mail'
<1>1. \A m \in net' : /\ m.kind # "claim" => m.offer \in created'
                      /\ m.kind = "cancel" => m.offer \in withdrawn'
  BY DEF Mail
<1>2. ASSUME NEW t \in tasks', t \in tasks
      PROVE  /\ t.op # "claim" => t.offer \in created'
             /\ t.op = "tombstone" => t.offer \in withdrawn'
             /\ t.op = "seed" => t.count \in 0..peak'[t.offer]
  <2>1. CASE t.op = "seed"
    <3>1. t.offer \in Offers /\ peak[t.offer] <= peak'[t.offer]
      BY <1>2, <2>1 DEF Mail
    <3>2. t.count \in 0..peak[t.offer]
      BY <1>2, <2>1 DEF Mail
    <3>3. peak[t.offer] \in Nat /\ peak'[t.offer] \in Nat
      BY <3>1, OfferConstants
    <3>4. t.count \in 0..peak'[t.offer]
      BY <3>1, <3>2, <3>3
    <3> QED BY <1>2, <2>1, <3>4 DEF Mail
  <2>2. CASE t.op # "seed"
    BY <1>2, <2>2 DEF Mail
  <2> QED BY <2>1, <2>2
<1> QED BY <1>1, <1>2 DEF Mail

\* The broadcast of an offer adds copies of one message.
LEMMA OfferCopies ==
  ASSUME NEW n, NEW skip, NEW o, NEW ttl, BroadcastExcept(n, skip, OfferMsg(n, o, ttl))
  PROVE  \A m \in net' \ net : m.offer = o /\ m.kind = "offer"
<1> TAKE m \in net' \ net
<1>1. PICK x : m = [OfferMsg(n, o, ttl) EXCEPT !.to = x]
  BY DEF BroadcastExcept
<1> QED BY <1>1 DEF OfferMsg

\* The same for a claim...
LEMMA ClaimCopies ==
  ASSUME NEW n, NEW skip, NEW o, NEW c, BroadcastExcept(n, skip, ClaimMsg(n, o, c))
  PROVE  \A m \in net' \ net : m.offer = o /\ m.kind = "claim"
<1> TAKE m \in net' \ net
<1>1. PICK x : m = [ClaimMsg(n, o, c) EXCEPT !.to = x]
  BY DEF BroadcastExcept
<1> QED BY <1>1 DEF ClaimMsg

\* ...and for a cancellation.
LEMMA CancelCopies ==
  ASSUME NEW n, NEW skip, NEW o, BroadcastExcept(n, skip, CancelMsg(n, o))
  PROVE  \A m \in net' \ net : m.offer = o /\ m.kind = "cancel"
<1> TAKE m \in net' \ net
<1>1. PICK x : m = [CancelMsg(n, o) EXCEPT !.to = x]
  BY DEF BroadcastExcept
<1> QED BY <1>1 DEF CancelMsg

\* Slots depends on the offers, the counters and their histories only.
LEMMA SlotsFrame ==
  ASSUME Slots, UNCHANGED <<offers, claimed_counts, created, withdrawn, slotHistory>>
  PROVE  Slots'
BY DEF Slots, CountCoversGrants, PeersNeverOvercount, slotHistory

\* Calls depends on the approvals and the sweep, and the histories may grow.
LEMMA CallsFrame ==
  ASSUME Calls, UNCHANGED <<job, sweep>>,
         created \subseteq created', refused \subseteq refused', withdrawn \subseteq withdrawn'
  PROVE  Calls'
BY DEF Calls

\* What MailFrame asks of the histories, when they stand still.
LEMMA MailStays ==
  ASSUME Slots, Mail,
         UNCHANGED <<created, withdrawn, peak>>,
         \A m \in net' \ net : m.kind # "cancel" /\ (m.kind # "claim" => m.offer \in created),
         \A t \in tasks' \ tasks : t.op = "claim" \/ (t.op = "create" /\ t.offer \in created)
  PROVE  Mail'
<1>1. \A o \in Offers : peak[o] <= peak'[o]
  BY OfferConstants DEF Slots
<1> QED BY <1>1, MailFrame DEF Slots

-----------------------------------------------------------------------------
(* Gossip *)

\* The first halves of the offer and claim handlers only start a task.
LEMMA ReceiveKeeps ==
  ASSUME OInv, NEW m \in net, ReceiveOffer(m) \/ ReceiveClaim(m)
  PROVE  OInv'
<1> USE DEF history, store
<1>1. Slots' /\ Calls'
  <2>1. UNCHANGED <<offers, claimed_counts, created, withdrawn, slotHistory, job, sweep>>
    BY ZenonT(60) DEF ReceiveOffer, ReceiveClaim
  <2> QED BY <2>1, SlotsFrame, CallsFrame, ZenonT(60) DEF OInv, slotHistory
<1>2. \A t \in tasks' \ tasks : \/ t.op = "create" /\ t.offer = m.offer /\ m.kind = "offer"
                               \/ t.op = "claim"
  BY DEF ReceiveOffer, ReceiveClaim, Begin
<1>3. net' = net /\ UNCHANGED <<created, withdrawn, peak>>
  BY DEF ReceiveOffer, ReceiveClaim, slotHistory
<1>4. Mail'
  <2>1. \A t \in tasks' \ tasks : t.op = "claim" \/ (t.op = "create" /\ t.offer \in created)
    BY <1>2 DEF OInv, Mail
  <2>2. \A x \in net' \ net : x.kind # "cancel" /\ (x.kind # "claim" => x.offer \in created)
    BY <1>3
  <2>3. Slots /\ Mail
    BY DEF OInv
  <2> QED BY <1>3, <2>1, <2>2, <2>3, MailStays
<1> QED BY <1>1, <1>4 DEF OInv

\* Their second halves: an offer is created anew only where it is not stored, so
\* at the sponsor's only once it is withdrawn.
LEMMA FinishOfferKeeps ==
  ASSUME OInv, NEW t \in tasks, FinishOffer(t)
  PROVE  OInv'
<1> USE DEF history
<1>1. t.offer \in created /\ t.offer \in Offers
  BY DEF OInv, Mail, Slots, FinishOffer
<1>2. Slots'
  <2>1. UNCHANGED <<created, withdrawn, refused, granted, peak>>
    BY DEF FinishOffer, slotHistory
  <2>2. CASE t.offer \in offers[t.at]
    BY <2>1, <2>2, SlotsFrame DEF FinishOffer, OInv, slotHistory
  <2>3. CASE t.offer \notin offers[t.at]
    <3>1. StoreOffer(t.at, t.offer, 0)
      BY <2>3 DEF FinishOffer
    <3>2. t.at = SponsorNode => t.offer \in withdrawn
      BY <1>1, <2>3 DEF OInv, Slots
    <3>3. 0 \in Counts /\ peak[t.offer] >= 0
      BY <1>1, OfferConstants DEF Counts, OInv, Slots
    <3> QED
      BY <1>1, <2>1, <3>1, <3>2, <3>3, OfferConstants, ZenonT(60)
         DEF OInv, Slots, CountCoversGrants, PeersNeverOvercount, StoreOffer, SetCount
  <2> QED BY <2>2, <2>3, ZenonT(60)
<1>3. Calls'
  BY CallsFrame DEF FinishOffer, OInv, slotHistory
<1>4. \A m \in net' \ net : m.offer \in created /\ m.kind # "cancel"
  <2>1. CASE t.ttl > 0
    <3>1. BroadcastExcept(t.at, t.from, OfferMsg(t.at, t.offer, t.ttl - 1))
      BY <2>1 DEF FinishOffer
    <3>2. \A m \in net' \ net : m.offer = t.offer /\ m.kind = "offer"
      BY <3>1, OfferCopies
    <3> QED BY <1>1, <3>2
  <2>2. CASE ~(t.ttl > 0)
    BY <2>2 DEF FinishOffer
  <2> QED BY <2>1, <2>2
<1>5. tasks' \subseteq tasks /\ UNCHANGED <<created, withdrawn, peak>>
  BY DEF FinishOffer, Finish, slotHistory
<1>6. Mail'
  BY <1>4, <1>5, MailStays DEF OInv
<1> QED BY <1>2, <1>3, <1>6, ZenonT(60) DEF OInv

\* The offer-list merge raises a count to one the sponsor's has reached.
LEMMA SyncOfferKeeps ==
  ASSUME OInv, NEW n \in Nodes, NEW m \in Nodes, NEW o \in Offers, SyncOffer(n, m, o)
  PROVE  OInv'
<1> USE DEF history
<1> DEFINE count == Current(claimed_counts[n][o])
           bumped == Bumped(claimed_counts[m][o], count)
<1>1. count \in 0..max_sponsees /\ count <= peak[o] /\ peak[o] \in 0..max_sponsees
  BY OfferConstants DEF OInv, Slots, PeersNeverOvercount, Counts, Current, NoKey
<1>2. claimed_counts[m][o] \in Counts /\ claimed_counts[m][o] <= peak[o]
  BY DEF OInv, Slots, PeersNeverOvercount
<1>3. /\ bumped \in 0..max_sponsees /\ bumped \in Counts
      /\ bumped >= claimed_counts[m][o] /\ bumped <= peak[o]
  BY <1>1, <1>2, BumpedIsMax, ZenonT(60) DEF Counts
<1>4. /\ claimed_counts' = [claimed_counts EXCEPT ![m][o] = bumped]
      /\ UNCHANGED <<offers, created, withdrawn, refused, granted, peak, net, job, sweep>>
      /\ o \in offers[n]
      /\ \A t \in tasks' \ tasks : /\ t.op = "seed" /\ t.offer = o /\ t.count = count
  BY DEF SyncOffer, SetCount, slotHistory, Begin
<1> HIDE DEF count, bumped
<1>5. Slots'
  <2>1. CountCoversGrants'
    <3> SUFFICES ASSUME NEW x \in created \ (refused \cup withdrawn)
                 PROVE  granted[x] <= claimed_counts'[SponsorNode][x]
      BY <1>4 DEF CountCoversGrants
    <3>1. /\ granted[x] <= claimed_counts[SponsorNode][x]
          /\ granted[x] \in Int /\ claimed_counts[SponsorNode][x] \in Int
      BY OfferConstants DEF OInv, Slots, CountCoversGrants, Counts, NoKey
    <3>2. claimed_counts[SponsorNode][x] <= claimed_counts'[SponsorNode][x]
      BY <1>3, <1>4, <3>1, OfferConstants DEF OInv, Slots
    <3>3. claimed_counts'[SponsorNode][x] \in Int
      BY <1>3, <1>4, <3>1, OfferConstants DEF OInv, Slots
    <3> QED BY <3>1, <3>2, <3>3
  <2>2. PeersNeverOvercount'
    BY <1>3, <1>4, ZenonT(60) DEF OInv, Slots, PeersNeverOvercount
  <2>3. claimed_counts' \in [Nodes -> [Offers -> Counts]]
    BY <1>3, <1>4, ZenonT(60) DEF OInv, Slots
  <2> QED BY <1>4, <2>1, <2>2, <2>3, ZenonT(60) DEF OInv, Slots
<1>6. Mail'
  <2>1. o \in created
    BY <1>4 DEF OInv, Slots
  <2>2. \A t \in tasks' \ tasks : t.offer = o /\ t.op = "seed" /\ t.count \in 0..peak'[t.offer]
    BY <1>1, <1>4
  <2>3. \A x \in Offers : peak[x] <= peak'[x]
    BY <1>4, OfferConstants DEF OInv, Slots
  <2>4. created \subseteq Offers /\ peak \in [Offers -> 0..max_sponsees]
    BY DEF OInv, Slots
  <2> QED BY <1>4, <2>1, <2>2, <2>3, <2>4, MailFrame, ZenonT(60) DEF OInv
<1>7. Calls'
  BY <1>4, CallsFrame DEF OInv
<1> QED BY <1>5, <1>6, <1>7 DEF OInv

\* A synced offer is stored with the count it came with.
LEMMA FinishListKeeps ==
  ASSUME OInv, NEW t \in tasks, FinishList(t)
  PROVE  OInv'
<1> USE DEF history
<1>1. /\ t.offer \in created /\ t.offer \in Offers
      /\ t.count \in 0..peak[t.offer] /\ peak[t.offer] \in 0..max_sponsees
  BY ZenonT(60) DEF OInv, Mail, Slots, FinishList
<1>2. Bumped(0, t.count) \in Counts /\ Bumped(0, t.count) <= peak[t.offer]
  <2>1. 0 \in Counts /\ t.count \in 0..max_sponsees /\ t.count <= peak[t.offer] /\ 0 <= peak[t.offer]
    BY <1>1, OfferConstants, SMTT(60) DEF Counts
  <2> QED BY <1>1, <2>1, BumpedIsMax, ZenonT(60) DEF Counts
<1>3. UNCHANGED <<created, withdrawn, refused, granted, peak, net, job, sweep>>
      /\ tasks' \subseteq tasks
  BY ZenonT(60) DEF FinishList, Finish, slotHistory
<1>4. Slots'
  <2>1. CASE t.offer \in offers[t.at]
    BY <1>3, <2>1, SlotsFrame DEF FinishList, OInv, slotHistory
  <2>2. CASE t.offer \notin offers[t.at]
    <3>1. StoreOffer(t.at, t.offer, Bumped(0, t.count))
      BY <2>2 DEF FinishList
    <3>2. t.at = SponsorNode => t.offer \in withdrawn
      BY <1>1, <2>2 DEF OInv, Slots
    <3> QED
      BY <1>1, <1>2, <1>3, <3>1, <3>2, OfferConstants, ZenonT(60)
         DEF OInv, Slots, CountCoversGrants, PeersNeverOvercount, StoreOffer, SetCount
  <2> QED BY <2>1, <2>2, SMTT(60)
<1>5. Mail' /\ Calls'
  BY <1>3, MailStays, CallsFrame DEF OInv
<1> QED BY <1>4, <1>5, ZenonT(60) DEF OInv

\* A claim is stored and relayed.
LEMMA FinishClaimKeeps ==
  ASSUME OInv, NEW t \in tasks, FinishClaim(t)
  PROVE  OInv'
<1> USE DEF history
<1>1. /\ UNCHANGED <<offers, claimed_counts, created, withdrawn, slotHistory, job, sweep>>
      /\ tasks' \subseteq tasks
  BY DEF FinishClaim, Finish
<1>2. \A m \in net' \ net : m.kind = "claim"
  BY ClaimCopies DEF FinishClaim
<1>3. Mail'
  BY <1>1, <1>2, MailStays DEF OInv, slotHistory
<1> QED BY <1>1, <1>3, SlotsFrame, CallsFrame DEF OInv, slotHistory

\* delete_offer of an offer the sponsor has withdrawn.
LEMMA DeleteKeepsSlots ==
  ASSUME Slots, NEW n, NEW o, delete_offer(n, o),
         UNCHANGED <<created, slotHistory>>,
         withdrawn \subseteq withdrawn', o \in withdrawn'
  PROVE  Slots'
<1> USE DEF slotHistory
<1>1. CASE o \in offers[n]
  <2>1. /\ offers' = [offers EXCEPT ![n] = @ \ {o}]
        /\ claimed_counts' = [claimed_counts EXCEPT ![n][o] = NoKey]
    BY <1>1 DEF delete_offer, SetCount
  <2>2. NoKey \in Counts /\ \A x \in Offers : NoKey <= peak[x]
    BY OfferConstants DEF Slots, Counts, NoKey
  <2> QED
    BY <2>1, <2>2, OfferConstants, ZenonT(60) DEF Slots, CountCoversGrants, PeersNeverOvercount
<1>2. CASE o \notin offers[n]
  BY <1>2, OfferConstants DEF delete_offer, Slots, CountCoversGrants, PeersNeverOvercount
<1> QED BY <1>1, <1>2

\* The three halves of a cancellation.
LEMMA CancelKeeps ==
  ASSUME OInv,
         \/ \E m \in net : ReceiveCancel(m)
         \/ \E t \in tasks : FinishCancel(t)
         \/ \E o \in Offers : CancelOffer(o)
  PROVE  OInv'
<1> USE DEF history
<1>0. /\ created \subseteq Offers /\ peak \in [Offers -> 0..max_sponsees]
      /\ \A x \in Offers : peak[x] <= peak[x]
  BY OfferConstants DEF OInv, Slots
<1>1. ASSUME NEW m \in net, ReceiveCancel(m) PROVE OInv'
  <2>1. m.offer \in created /\ m.offer \in withdrawn
    BY <1>1, ZenonT(60) DEF OInv, Mail, ReceiveCancel
  <2>2. /\ delete_offer(m.to, m.offer)
        /\ UNCHANGED <<created, withdrawn, slotHistory, net, job, sweep>>
        /\ \A t \in tasks' \ tasks : t.op = "tombstone" /\ t.offer = m.offer
    BY <1>1 DEF ReceiveCancel, Begin
  <2>3. Slots' /\ Calls'
    BY <2>1, <2>2, DeleteKeepsSlots, CallsFrame, ZenonT(60) DEF OInv, slotHistory
  <2>4. Mail'
    BY <1>0, <2>1, <2>2, MailFrame DEF OInv, slotHistory
  <2> QED BY <2>3, <2>4, ZenonT(60) DEF OInv
<1>2. ASSUME NEW t \in tasks, FinishCancel(t) PROVE OInv'
  <2>1. t.offer \in created /\ t.offer \in withdrawn
    BY <1>2, ZenonT(60) DEF OInv, Mail, FinishCancel
  <2>2. /\ UNCHANGED <<offers, claimed_counts, created, withdrawn, slotHistory, job, sweep>>
        /\ tasks' \subseteq tasks
    BY <1>2, ZenonT(60) DEF FinishCancel, Finish
  <2>3. \A m \in net' \ net : m.offer = t.offer /\ m.kind = "cancel"
    BY <1>2, CancelCopies, ZenonT(60) DEF FinishCancel
  <2>4. Slots' /\ Calls'
    BY <2>2, SlotsFrame, CallsFrame, ZenonT(60) DEF OInv, slotHistory
  <2>5. Mail'
    BY <1>0, <2>1, <2>2, <2>3, MailFrame DEF OInv, slotHistory
  <2> QED BY <2>4, <2>5, ZenonT(60) DEF OInv
<1>3. ASSUME NEW o \in Offers, CancelOffer(o) PROVE OInv'
  <2>1. o \in created
    BY <1>3, OfferConstants, ZenonT(60) DEF OInv, Slots, CancelOffer
  <2>2. /\ delete_offer(SponsorNode, o)
        /\ UNCHANGED <<created, slotHistory, net, job, sweep>>
        /\ withdrawn' = withdrawn \cup {o}
        /\ \A t \in tasks' \ tasks : t.op = "tombstone" /\ t.offer = o
    BY <1>3 DEF CancelOffer, Begin
  <2>3. Slots' /\ Calls'
    BY <2>2, DeleteKeepsSlots, CallsFrame, ZenonT(60) DEF OInv, slotHistory
  <2>4. Mail'
    BY <1>0, <2>1, <2>2, MailFrame DEF OInv, slotHistory
  <2> QED BY <2>3, <2>4, ZenonT(60) DEF OInv
<1> QED BY <1>1, <1>2, <1>3

-----------------------------------------------------------------------------
(* RPC calls and background tasks *)

\* A new offer starts with no slot taken and no approval behind it.
LEMMA CreateOfferKeeps ==
  ASSUME OInv, NEW o \in Offers, CreateOffer(o)
  PROVE  OInv'
<1> USE DEF slotHistory
<1>1. /\ created' = created \cup {o} /\ o \notin created
      /\ StoreOffer(SponsorNode, o, 0)
      /\ UNCHANGED <<withdrawn, refused, granted, peak, tasks, job, sweep>>
      /\ BroadcastExcept(SponsorNode, SponsorNode, OfferMsg(SponsorNode, o, 3))
  BY DEF CreateOffer, Broadcast
<1>2. /\ offers' = [offers EXCEPT ![SponsorNode] = @ \cup {o}]
      /\ claimed_counts' = [claimed_counts EXCEPT ![SponsorNode][o] = 0]
  BY <1>1 DEF StoreOffer, SetCount
<1>3. 0 \in Counts /\ granted[o] = 0 /\ 0 <= peak[o]
  BY <1>1, OfferConstants DEF OInv, Slots, Counts
<1>4. Slots'
  <2>1. /\ offers' \in [Nodes -> SUBSET Offers]
        /\ claimed_counts' \in [Nodes -> [Offers -> Counts]]
        /\ \A n \in Nodes : offers'[n] \subseteq created'
        /\ created' \ withdrawn \subseteq offers'[SponsorNode]
        /\ created' \subseteq Offers
    BY <1>1, <1>2, <1>3, OfferConstants, ZenonT(60) DEF OInv, Slots
  <2>2. CountCoversGrants'
    BY <1>1, <1>2, <1>3, OfferConstants DEF OInv, Slots, CountCoversGrants
  <2>3. PeersNeverOvercount'
    BY <1>1, <1>2, <1>3 DEF OInv, Slots, PeersNeverOvercount
  <2>4. \A x \in Offers \ created' : granted'[x] = 0
    BY <1>1, ZenonT(60) DEF OInv, Slots
  <2> QED BY <1>1, <2>1, <2>2, <2>3, <2>4, ZenonT(60) DEF OInv, Slots
<1>5. Mail'
  <2>1. \A m \in net' \ net : m.offer = o /\ m.kind = "offer"
    BY <1>1, OfferCopies
  <2>2. /\ created \subseteq Offers /\ peak \in [Offers -> 0..max_sponsees]
        /\ \A x \in Offers : peak[x] <= peak[x]
    BY OfferConstants DEF OInv, Slots
  <2> QED BY <1>1, <2>1, <2>2, MailFrame DEF OInv
<1>6. Calls'
  BY <1>1, CallsFrame DEF OInv
<1> QED BY <1>4, <1>5, <1>6 DEF OInv

\* An idle caller starts an approval.
LEMMA StartJobKeeps ==
  ASSUME Calls, NEW w \in Workers, NEW o \in Offers, NEW c \in Claimants, StartJob(w, o, c),
         o \in created, sweep' \subseteq sweep, UNCHANGED <<created, refused, withdrawn>>
  PROVE  Calls'
<1>1. job' = [job EXCEPT ![w] = [pc |-> "slot", offer |-> o, claimant |-> c]]
  BY DEF StartJob
<1>2. [pc |-> "slot", offer |-> o, claimant |-> c] \in Jobs
  BY ZenonT(60) DEF Jobs
<1>3. job' \in [Workers -> Jobs]
  BY <1>1, <1>2, ZenonT(60) DEF Calls
<1>4. ASSUME NEW v \in Workers, job'[v] # Idle
      PROVE  /\ job'[v].offer \in created
             /\ job'[v].pc = "recheck" => job'[v].offer \in refused \cup withdrawn
  <2>1. CASE v = w
    BY <1>1, <2>1 DEF Calls
  <2>2. CASE v # w
    BY <1>1, <1>4, <2>2 DEF Calls
  <2> QED BY <2>1, <2>2
<1> QED BY <1>3, <1>4 DEF Calls

\* The RPC calls on claims.
LEMMA ClaimCallsKeep ==
  ASSUME OInv, NEW o \in Offers, NEW c \in Claimants,
         (\E n \in Nodes : ClaimOffer(n, o, c)) \/ ApproveClaim(o, c) \/ RejectClaim(o, c)
  PROVE  OInv'
<1> USE DEF history, store
<1>1. /\ UNCHANGED <<offers, claimed_counts, created, withdrawn, slotHistory, tasks, sweep>>
      /\ o \in created
  BY OfferConstants, ZenonT(60) DEF ClaimOffer, ApproveClaim, RejectClaim, OInv, Slots
<1>2. Slots'
  BY <1>1, SlotsFrame, ZenonT(60) DEF OInv
<1>3. Mail'
  <2>1. \A m \in net' \ net : m.offer = o /\ m.kind = "claim"
    <3>1. ASSUME NEW n \in Nodes, ClaimOffer(n, o, c)
          PROVE  \A m \in net' \ net : m.offer = o /\ m.kind = "claim"
      BY <3>1, ClaimCopies, ZenonT(60) DEF ClaimOffer, Broadcast
    <3>2. CASE ApproveClaim(o, c) \/ RejectClaim(o, c)
      BY <3>2, ZenonT(60) DEF ApproveClaim, RejectClaim
    <3> QED BY <3>1, <3>2, SMTT(60)
  <2> QED BY <1>1, <2>1, MailStays, ZenonT(60) DEF OInv, slotHistory
<1>4. Calls'
  <2>1. CASE StartJob("claim_rpc", o, c) \/ StartJob("approve_rpc", o, c)
    BY <1>1, <2>1, StartJobKeeps DEF OInv, Workers, slotHistory
  <2>2. CASE UNCHANGED job
    BY <1>1, <2>2, CallsFrame DEF OInv, slotHistory
  <2> QED BY <2>1, <2>2, ZenonT(60) DEF ClaimOffer, ApproveClaim, RejectClaim
<1> QED BY <1>2, <1>3, <1>4, ZenonT(60) DEF OInv

\* The auto-approve sweep.
LEMMA SweepKeeps ==
  ASSUME OInv, NEW o \in Offers,
         SweepOffer(o) \/ \E c \in Claimants : SweepNext(o, c)
  PROVE  OInv'
<1> USE DEF history, store
<1>1. UNCHANGED <<offers, claimed_counts, created, withdrawn, slotHistory, tasks, net>>
  BY ZenonT(60) DEF SweepOffer, SweepNext
<1>2. Slots' /\ Mail'
  BY <1>1, SlotsFrame, MailStays DEF OInv, slotHistory
<1>3. CASE SweepOffer(o)
  <2>1. sweep' \subseteq created \X Claimants /\ UNCHANGED job
    BY <1>3, OfferConstants DEF SweepOffer, OInv, Slots
  <2>2. Calls'
    BY <1>1, <2>1 DEF OInv, Calls, slotHistory
  <2> QED BY <1>2, <2>2, ZenonT(60) DEF OInv
<1>4. ASSUME NEW c \in Claimants, SweepNext(o, c) PROVE OInv'
  <2>1. o \in created /\ sweep' \subseteq sweep
    BY <1>4, ZenonT(60) DEF SweepNext, OInv, Calls
  <2>2. CASE c \in sponsored[SponsorNode]
    <3>1. UNCHANGED job
      BY <1>4, <2>2, ZenonT(60) DEF SweepNext
    <3>2. Calls'
      BY <1>1, <2>1, <3>1, ZenonT(60) DEF OInv, Calls, slotHistory
    <3> QED BY <1>2, <3>2, ZenonT(60) DEF OInv
  <2>3. CASE c \notin sponsored[SponsorNode]
    <3>1. StartJob("sweep", o, c)
      BY <1>4, <2>3, ZenonT(60) DEF SweepNext
    <3>2. Calls'
      BY <1>1, <2>1, <3>1, StartJobKeeps, ZenonT(60) DEF OInv, Workers, slotHistory
    <3> QED BY <1>2, <3>2, SMTT(60) DEF OInv
  <2> QED BY <2>2, <2>3, ZenonT(60)
<1> QED BY <1>3, <1>4, SMTT(60)

\* Re-broadcasts, clean-ups, applied blocks and expiries leave the counters alone.
LEMMA OthersKeep ==
  ASSUME OInv,
         \/ \E o \in Offers, c \in Claimants : Rebroadcast(o, c)
         \/ \E c \in Claimants : ClearOwnClaims(c)
         \/ \E n \in Nodes, c \in Claimants : ApplySponsor(n, c)
         \/ \E o \in Offers : Expire(o)
  PROVE  OInv'
<1> USE DEF history, store
<1>1. UNCHANGED <<offers, claimed_counts, created, withdrawn, slotHistory, tasks, sweep, job>>
  BY ZenonT(60) DEF Rebroadcast, ClearOwnClaims, ApplySponsor, Expire
<1>2. \A m \in net' \ net : m.kind = "claim"
  <2>1. ASSUME NEW o \in Offers, NEW c \in Claimants, Rebroadcast(o, c)
        PROVE  \A m \in net' \ net : m.kind = "claim"
    BY <2>1, ClaimCopies, ZenonT(60) DEF Rebroadcast, Broadcast
  <2>2. CASE UNCHANGED net
    BY <2>2, ZenonT(60)
  <2> QED BY <2>1, <2>2, ZenonT(60) DEF ClearOwnClaims, ApplySponsor, Expire
<1>3. Slots'
  BY <1>1, SlotsFrame, ZenonT(60) DEF OInv
<1>4. Calls'
  BY <1>1, CallsFrame, ZenonT(60) DEF OInv, slotHistory
<1>5. Mail'
  BY <1>1, <1>2, MailStays, SMTT(60) DEF OInv, slotHistory
<1> QED BY <1>3, <1>4, <1>5, ZenonT(60) DEF OInv

\* A kill ends the calls and tasks of the sponsor's process.
LEMMA CrashKeeps == OInv /\ Crash => OInv'
<1> SUFFICES ASSUME OInv, Crash PROVE OInv'
  OBVIOUS
<1> USE DEF store
<1>1. /\ UNCHANGED <<offers, claimed_counts, created, withdrawn, slotHistory, net>>
      /\ tasks' \subseteq tasks /\ sweep' = {} /\ job' = [w \in Workers |-> Idle]
  BY DEF Crash
<1>2. Calls'
  BY <1>1 DEF Calls, Jobs
<1> QED BY <1>1, <1>2, SlotsFrame, MailStays DEF OInv, slotHistory

-----------------------------------------------------------------------------
(* execute_claim_approval *)

\* A call moves on.
LEMMA JobStep ==
  ASSUME Calls, NEW w \in Workers, NEW j, job' = [job EXCEPT ![w] = j], UNCHANGED sweep,
         j = Idle \/ \E pc \in {"recheck", "mark", "post"} : j = [job[w] EXCEPT !.pc = pc],
         job[w] # Idle,
         j.pc = "recheck" => job[w].offer \in refused' \cup withdrawn',
         created' = created, refused \subseteq refused', withdrawn \subseteq withdrawn'
  PROVE  Calls'
<1>1. /\ job[w] \in [pc : {"slot", "recheck", "mark", "post"}, offer : Offers,
                     claimant : Claimants]
      /\ job[w].offer \in created
  BY DEF Calls, Jobs
<1>2. j = Idle \/ (j # Idle /\ j \in Jobs /\ j.offer = job[w].offer)
  BY <1>1 DEF Jobs, Idle
<1>3. job' \in [Workers -> Jobs]
  BY <1>2 DEF Calls, Jobs
<1>4. ASSUME NEW v \in Workers, job'[v] # Idle
      PROVE  /\ job'[v].offer \in created'
             /\ job'[v].pc = "recheck" => job'[v].offer \in refused' \cup withdrawn'
  <2>1. CASE v = w
    BY <1>1, <1>2, <1>4, <2>1 DEF Calls
  <2>2. CASE v # w
    BY <1>4, <2>2 DEF Calls
  <2> QED BY <2>1, <2>2
<1> QED BY <1>3, <1>4 DEF Calls

\* A granted slot is one more in the counter; a refusal is on record.
LEMMA TakeSlotKeeps ==
  ASSUME OInv, NEW w \in Workers, TakeSlot(w)
  PROVE  OInv'
<1> DEFINE o == job[w].offer
           old == claimed_counts[SponsorNode][o]
           new == Incremented(old)
<1>1. /\ job[w] # Idle /\ o \in created /\ o \in Offers
  BY DEF OInv, Calls, Slots, TakeSlot, Idle
<1>2. /\ old \in Counts /\ new \in Counts
      /\ old # NoKey /\ old + 1 <= max_sponsees => new = old + 1
  BY <1>1, IncrementedBound, OfferConstants DEF OInv, Slots
<1>3. /\ claimed_counts' = [claimed_counts EXCEPT ![SponsorNode][o] = new]
      /\ peak' = [peak EXCEPT ![o] = Larger(@, new)]
      /\ UNCHANGED <<offers, created, withdrawn, net, tasks, sweep>>
  BY ZenonT(60) DEF TakeSlot, SetCount, history
<1>4. \/ /\ old = NoKey
         /\ job' = [job EXCEPT ![w].pc = "recheck"]
         /\ UNCHANGED <<refused, granted>>
      \/ /\ old # NoKey /\ old + 1 > max_sponsees
         /\ job' = [job EXCEPT ![w] = Idle]
         /\ refused' = refused \cup {o} /\ UNCHANGED granted
      \/ /\ old # NoKey /\ ~(old + 1 > max_sponsees)
         /\ job' = [job EXCEPT ![w].pc = "mark"]
         /\ granted' = [granted EXCEPT ![o] = IF @ > max_sponsees THEN @ ELSE @ + 1]
         /\ UNCHANGED refused
  BY DEF TakeSlot, Refuse, Grant
<1>5. peak[o] \in 0..max_sponsees /\ granted[o] \in 0..(max_sponsees + 1)
  BY <1>1, ZenonT(60) DEF OInv, Slots
<1>6. o \in refused \cup withdrawn \/ (old # NoKey /\ granted[o] <= old)
  BY <1>1, <1>5, OfferConstants, SMTT(60) DEF OInv, Slots, CountCoversGrants, NoKey
<1> HIDE DEF o, old, new
<1>7. /\ Larger(peak[o], new) \in 0..max_sponsees
      /\ Larger(peak[o], new) >= peak[o] /\ Larger(peak[o], new) >= new
  BY <1>2, <1>5, OfferConstants DEF Larger, Counts, NoKey
<1>8. /\ peak' \in [Offers -> 0..max_sponsees]
      /\ \A x \in Offers : peak[x] <= peak'[x]
      /\ new <= peak'[o]
  BY <1>1, <1>3, <1>7, OfferConstants DEF OInv, Slots
<1>9. refused \subseteq refused' /\ granted' \in [Offers -> 0..(max_sponsees + 1)]
  BY <1>4, <1>5, OfferConstants DEF OInv, Slots
<1>10. Slots'
  <2>1. claimed_counts' \in [Nodes -> [Offers -> Counts]]
    BY <1>2, <1>3, ZenonT(60) DEF OInv, Slots
  <2>2. \A x \in Offers \ created' : granted'[x] = 0
    BY <1>1, <1>3, <1>4 DEF OInv, Slots
  <2>3. CountCoversGrants'
    <3> SUFFICES ASSUME NEW x \in created \ (refused' \cup withdrawn)
                 PROVE  granted'[x] <= claimed_counts'[SponsorNode][x]
      BY <1>3 DEF CountCoversGrants
    <3>1. CASE x # o
      BY <1>3, <1>4, <1>9, <3>1, OfferConstants, ZenonT(60) DEF OInv, Slots, CountCoversGrants
    <3>2. CASE x = o
      <4>1. /\ old # NoKey /\ granted[o] <= old /\ ~(old + 1 > max_sponsees)
            /\ granted'[o] = IF granted[o] > max_sponsees THEN granted[o] ELSE granted[o] + 1
        BY <1>1, <1>4, <1>6, <1>9, <3>2, ZenonT(60) DEF OInv, Slots
      <4>2. new = old + 1 /\ old \in Nat
        BY <1>2, <4>1, OfferConstants DEF Counts, NoKey
      <4>3. granted'[o] <= new
        BY <1>5, <4>1, <4>2
      <4>4. claimed_counts'[SponsorNode][o] = new
        BY <1>1, <1>3, OfferConstants DEF OInv, Slots
      <4> QED BY <3>2, <4>3, <4>4
    <3> QED BY <3>1, <3>2
  <2>4. PeersNeverOvercount'
    <3> SUFFICES ASSUME NEW n \in Nodes, NEW x \in Offers
                 PROVE  claimed_counts'[n][x] <= peak'[x]
      BY ZenonT(60) DEF PeersNeverOvercount
    <3>1. CASE n = SponsorNode /\ x = o
      BY <1>3, <1>8, <3>1, ZenonT(60) DEF OInv, Slots
    <3>2. CASE ~(n = SponsorNode /\ x = o)
      <4>1. claimed_counts'[n][x] = claimed_counts[n][x]
        BY <1>3, <3>2, ZenonT(60) DEF OInv, Slots
      <4>2. /\ claimed_counts[n][x] <= peak[x] /\ peak[x] <= peak'[x]
            /\ claimed_counts[n][x] \in Int /\ peak[x] \in Int /\ peak'[x] \in Int
        BY <1>8, OfferConstants DEF OInv, Slots, PeersNeverOvercount, Counts, NoKey
      <4> QED BY <4>1, <4>2
    <3> QED BY <3>1, <3>2
  <2> QED BY <1>3, <1>8, <1>9, <2>1, <2>2, <2>3, <2>4 DEF OInv, Slots
<1>11. Mail'
  <2>1. created \subseteq Offers /\ peak \in [Offers -> 0..max_sponsees]
    BY DEF OInv, Slots
  <2> QED BY <1>3, <1>8, <2>1, MailFrame DEF OInv
<1>12. Calls'
  <2>1. CASE old = NoKey
    <3>1. job' = [job EXCEPT ![w] = [job[w] EXCEPT !.pc = "recheck"]]
      BY <1>4, <2>1
    <3> QED BY <1>1, <1>3, <1>6, <1>9, <2>1, <3>1, JobStep, ZenonT(60) DEF OInv, o
  <2>2. CASE old # NoKey
    <3>1. \/ job' = [job EXCEPT ![w] = Idle]
          \/ job' = [job EXCEPT ![w] = [job[w] EXCEPT !.pc = "mark"]]
      BY <1>4, <2>2
    <3>2. "mark" # "recheck" /\ Idle.pc # "recheck"
      BY DEF Idle
    <3>3. job[w] \in Jobs /\ [job[w] EXCEPT !.pc = "mark"].pc = "mark"
      BY <1>1 DEF OInv, Calls, Jobs
    <3>4. CASE job' = [job EXCEPT ![w] = Idle]
      BY <1>1, <1>3, <1>9, <3>2, <3>4, JobStep, ZenonT(60) DEF OInv
    <3>5. CASE job' = [job EXCEPT ![w] = [job[w] EXCEPT !.pc = "mark"]]
      BY <1>1, <1>3, <1>9, <3>3, <3>5, JobStep, ZenonT(60) DEF OInv
    <3> QED BY <3>1, <3>4, <3>5
  <2> QED BY <2>1, <2>2
<1> QED BY <1>10, <1>11, <1>12, ZenonT(60) DEF OInv

\* A second look at an absent counter concerns an offer that is out already.
LEMMA RecheckKeeps ==
  ASSUME OInv, NEW w \in Workers, Recheck(w)
  PROVE  OInv'
<1> DEFINE o == job[w].offer
<1>1. job[w] # Idle /\ o \in created /\ o \in Offers /\ o \in refused \cup withdrawn
  BY SMTT(60) DEF OInv, Calls, Slots, Recheck, Idle
<1>2. UNCHANGED <<offers, claimed_counts, created, withdrawn, peak, net, tasks, sweep>>
  BY DEF Recheck, history
<1>3. \/ /\ job' = [job EXCEPT ![w] = Idle]
         /\ refused' = refused \cup {o} /\ UNCHANGED granted
      \/ /\ job' = [job EXCEPT ![w] = [job[w] EXCEPT !.pc = "mark"]]
         /\ granted' = [granted EXCEPT ![o] = IF @ > max_sponsees THEN @ ELSE @ + 1]
         /\ UNCHANGED refused
  BY DEF Recheck, Refuse, Grant
<1>4. granted[o] \in 0..(max_sponsees + 1)
  BY <1>1 DEF OInv, Slots
<1> HIDE DEF o
<1>5. refused \subseteq refused' /\ granted' \in [Offers -> 0..(max_sponsees + 1)]
  BY <1>3, <1>4, OfferConstants DEF OInv, Slots
<1>6. \A x \in Offers : x # o => granted'[x] = granted[x]
  BY <1>3, ZenonT(60) DEF OInv, Slots
<1>7. Slots'
  BY <1>1, <1>2, <1>5, <1>6 DEF OInv, Slots, CountCoversGrants, PeersNeverOvercount
<1>8. Mail'
  BY <1>2, MailStays DEF OInv
<1>9. Calls'
  <2>1. Idle.pc # "recheck" /\ [job[w] EXCEPT !.pc = "mark"].pc = "mark"
    BY <1>1 DEF OInv, Calls, Jobs, Idle
  <2>2. CASE job' = [job EXCEPT ![w] = Idle]
    BY <1>1, <1>2, <1>5, <2>1, <2>2, JobStep, ZenonT(60) DEF OInv
  <2>3. CASE job' = [job EXCEPT ![w] = [job[w] EXCEPT !.pc = "mark"]]
    BY <1>1, <1>2, <1>5, <2>1, <2>3, JobStep, ZenonT(60) DEF OInv
  <2> QED BY <1>3, <2>2, <2>3
<1> QED BY <1>7, <1>8, <1>9 DEF OInv

\* The steps of an approval past its slot.
LEMMA ApprovalEndsKeep ==
  ASSUME OInv, NEW w \in Workers, MarkApproved(w) \/ PostAction(w)
  PROVE  OInv'
<1>1. /\ UNCHANGED <<offers, claimed_counts, created, withdrawn, slotHistory, net, tasks, sweep>>
      /\ job[w] # Idle
      /\ \/ job' = [job EXCEPT ![w] = Idle]
         \/ job' = [job EXCEPT ![w] = [job[w] EXCEPT !.pc = "post"]]
  BY DEF MarkApproved, PostAction, history, store, Idle
<1>2. Slots' /\ Mail'
  BY <1>1, SlotsFrame, MailStays DEF OInv, slotHistory
<1>3. Idle.pc # "recheck" /\ [job[w] EXCEPT !.pc = "post"].pc = "post"
  BY <1>1 DEF OInv, Calls, Jobs, Idle
<1>4. CASE job' = [job EXCEPT ![w] = Idle]
  BY <1>1, <1>2, <1>3, <1>4, JobStep, ZenonT(60) DEF OInv, slotHistory
<1>5. CASE job' = [job EXCEPT ![w] = [job[w] EXCEPT !.pc = "post"]]
  BY <1>1, <1>2, <1>3, <1>5, JobStep, ZenonT(60) DEF OInv, slotHistory
<1> QED BY <1>1, <1>4, <1>5

-----------------------------------------------------------------------------

\* OInv holds of empty stores.
LEMMA OInvInit == Init => OInv
<1> SUFFICES ASSUME Init PROVE OInv
  OBVIOUS
<1> USE OfferConstants DEF Init
<1>1. NoKey \in Counts /\ 0 \in 0..max_sponsees /\ 0 \in 0..(max_sponsees + 1) /\ NoKey <= 0
  BY DEF Counts, NoKey
<1>2. Slots
  BY <1>1, ZenonT(60) DEF Slots, CountCoversGrants, PeersNeverOvercount
<1>3. Mail /\ Calls
  BY DEF Mail, Calls, Jobs
<1> QED BY <1>2, <1>3 DEF OInv

\* Every step of handlers, RPC calls, approvals and background tasks keeps OInv.
LEMMA OInvNext == OInv /\ [Next]_vars => OInv'
<1> SUFFICES ASSUME OInv, [Next]_vars PROVE OInv'
  OBVIOUS
<1>1. CASE Gossip
  BY <1>1, ReceiveKeeps, FinishOfferKeeps, FinishListKeeps, FinishClaimKeeps, CancelKeeps,
     SyncOfferKeeps, ZenonT(60) DEF Gossip
<1>2. CASE Rpc
  BY <1>2, CreateOfferKeeps, CancelKeeps, ClaimCallsKeep, ZenonT(60) DEF Rpc
<1>3. CASE Background
  BY <1>3, SweepKeeps, OthersKeep DEF Background
<1>4. ASSUME NEW w \in Workers, Approval(w) PROVE OInv'
  BY <1>4, TakeSlotKeeps, RecheckKeeps, ApprovalEndsKeep DEF Approval
<1>5. CASE (\E o \in Offers : Expire(o)) \/ Crash
  BY <1>5, OthersKeep, CrashKeeps, ZenonT(60)
<1>6. CASE UNCHANGED vars
  BY <1>6, SlotsFrame, MailStays, CallsFrame
     DEF OInv, vars, store, history, slotHistory
<1> QED BY <1>1, <1>2, <1>3, <1>4, <1>5, <1>6 DEF Next

\* OInv is an invariant of the nodes.
LEMMA OffersInvariant == Spec => []OInv
BY OInvInit, OInvNext, PTL DEF Spec

\* For any nodes, offers, claimants and number of slots: until an offer refuses
\* an approval or is cancelled, the sponsor's counter covers every approval that
\* increment_claimed_count let through, whatever gossip and kills do meanwhile.
THEOREM CountCoversGrantsAlways == Spec => []CountCoversGrants
<1>1. OInv => CountCoversGrants
  BY DEF OInv, Slots
<1> QED BY <1>1, OffersInvariant, PTL

\* For any of them: the offer-list max-merge never shows an offer as fuller than
\* the sponsor's own counter has been.
THEOREM PeersNeverOvercountAlways == Spec => []PeersNeverOvercount
<1>1. OInv => PeersNeverOvercount
  BY DEF OInv, Slots
<1> QED BY <1>1, OffersInvariant, PTL

-----------------------------------------------------------------------------
(* Types of what the counters do not depend on *)

\* The claims, the tombstones, the sponsorships and the histories.
Books ==
  /\ claims \in [Nodes -> [Offers -> [Claimants -> Status]]]
  /\ cancelled_offers \in [Nodes -> SUBSET Offers]
  /\ sponsored \in [Nodes -> SUBSET Claimants]
  /\ posted \subseteq Offers \X Claimants
  /\ expired \subseteq Offers
  /\ events \in 0..MaxEvents
  /\ crashed \in BOOLEAN
  /\ withdrawn \subseteq Offers
  /\ refused \subseteq Offers

Wires == net \subseteq Messages /\ tasks \subseteq Tasks

\* The fields of a message, and of a task.
LEMMA MessageFields ==
  ASSUME NEW m \in Messages
  PROVE  /\ m.to \in Nodes /\ m.from \in Nodes /\ m.offer \in Offers
         /\ m.kind = "offer" => m.ttl \in 0..3
         /\ m.kind = "claim" => m.claimant \in Claimants
BY DEF Messages

LEMMA TaskFields ==
  ASSUME NEW t \in Tasks
  PROVE  /\ t.at \in Nodes /\ t.offer \in Offers
         /\ t.op = "create" => t.ttl \in 0..3
         /\ t.op = "claim" => t.claimant \in Claimants
         /\ t.op = "seed" => t.count \in 0..max_sponsees
BY DEF Tasks

\* A broadcast adds messages.
LEMMA BroadcastType ==
  ASSUME net \subseteq Messages, NEW n \in Nodes, NEW skip, NEW o \in Offers
  PROVE  /\ \A ttl \in 0..3 :
              BroadcastExcept(n, skip, OfferMsg(n, o, ttl)) => net' \subseteq Messages
         /\ \A c \in Claimants :
              BroadcastExcept(n, skip, ClaimMsg(n, o, c)) => net' \subseteq Messages
         /\ BroadcastExcept(n, skip, CancelMsg(n, o)) => net' \subseteq Messages
<1>1. \A ttl \in 0..3, x \in Nodes : [OfferMsg(n, o, ttl) EXCEPT !.to = x] \in Messages
  BY DEF OfferMsg, Messages
<1>2. \A c \in Claimants, x \in Nodes : [ClaimMsg(n, o, c) EXCEPT !.to = x] \in Messages
  BY DEF ClaimMsg, Messages
<1>3. \A x \in Nodes : [CancelMsg(n, o) EXCEPT !.to = x] \in Messages
  BY DEF CancelMsg, Messages
<1>4. ASSUME NEW msg, \A x \in Nodes : [msg EXCEPT !.to = x] \in Messages,
             BroadcastExcept(n, skip, msg)
      PROVE  net' \subseteq Messages
  <2>1. PICK reach \in SUBSET Nodes : net' = net \cup {[msg EXCEPT !.to = x] : x \in reach}
    BY <1>4 DEF BroadcastExcept
  <2> QED
    BY <1>4, <2>1
<1> QED
  BY <1>1, <1>2, <1>3, <1>4

\* One claim's status, or all those of an offer, may change.
LEMMA ClaimsType ==
  ASSUME NEW f \in [Nodes -> [Offers -> [Claimants -> Status]]], NEW n, NEW o, NEW c,
         NEW s \in Status
  PROVE  /\ [f EXCEPT ![n][o][c] = s] \in [Nodes -> [Offers -> [Claimants -> Status]]]
         /\ [f EXCEPT ![n][o] = [x \in Claimants |-> s]]
              \in [Nodes -> [Offers -> [Claimants -> Status]]]
OBVIOUS

LEMMA SetClaimType ==
  ASSUME NEW f \in [Nodes -> [Offers -> [Claimants -> Status]]], NEW n, NEW o, NEW c, NEW g,
         g = f \/ \E s \in Status : g = [f EXCEPT ![n][o][c] = s]
  PROVE  g \in [Nodes -> [Offers -> [Claimants -> Status]]]
<1>1. \A s \in Status :
        [f EXCEPT ![n][o][c] = s] \in [Nodes -> [Offers -> [Claimants -> Status]]]
  BY ClaimsType, ZenonT(60)
<1> QED
  BY <1>1, ZenonT(60)

LEMMA DeleteClaims ==
  ASSUME Books, NEW n, NEW o, delete_offer(n, o)
  PROVE  claims' \in [Nodes -> [Offers -> [Claimants -> Status]]]
<1>1. "none" \in Status
  BY DEF Status
<1>2. claims' = claims \/ claims' = [claims EXCEPT ![n][o] = [c \in Claimants |-> "none"]]
  BY DEF delete_offer
<1>3. claims \in [Nodes -> [Offers -> [Claimants -> Status]]]
  BY DEF Books
<1>4. [claims EXCEPT ![n][o] = [c \in Claimants |-> "none"]]
        \in [Nodes -> [Offers -> [Claimants -> Status]]]
  BY <1>1, <1>3, ClaimsType, ZenonT(60)
<1> QED
  BY <1>2, <1>3, <1>4, ZenonT(60)

LEMMA BooksFrame ==
  ASSUME Books,
         UNCHANGED <<claims, cancelled_offers, sponsored, posted, expired, events, history, refused>>
  PROVE  Books'
BY DEF Books, history

\* The bound on events holds whenever one is counted.
LEMMA EventType ==
  ASSUME events \in 0..MaxEvents, Event
  PROVE  events' \in 0..MaxEvents
BY OfferConstants DEF Event

LEMMA GossipTypes ==
  ASSUME OInv, Books, Wires, Gossip
  PROVE  Books' /\ Wires'
<1> USE DEF store, slotHistory
<1>1. ASSUME NEW m \in net, ReceiveOffer(m) PROVE Books' /\ Wires'
  <2>1. Books' /\ net' = net
    BY <1>1, BooksFrame DEF ReceiveOffer
  <2>2. m.to \in Nodes /\ m.from \in Nodes /\ m.offer \in Offers /\ m.ttl \in 0..3
    BY <1>1, MessageFields, ZenonT(60) DEF ReceiveOffer, Wires
  <2>3. [op |-> "create", at |-> m.to, from |-> m.from, offer |-> m.offer, ttl |-> m.ttl] \in Tasks
    BY <2>2, ZenonT(60) DEF Tasks
  <2> QED BY <1>1, <2>1, <2>3 DEF ReceiveOffer, Begin, Wires
<1>2. ASSUME NEW m \in net, ReceiveClaim(m) PROVE Books' /\ Wires'
  <2>1. Books' /\ net' = net
    BY <1>2, BooksFrame, ZenonT(60) DEF ReceiveClaim
  <2>2. m.to \in Nodes /\ m.from \in Nodes /\ m.offer \in Offers /\ m.claimant \in Claimants
    BY <1>2, MessageFields, ZenonT(60) DEF ReceiveClaim, Wires
  <2>3. [op |-> "claim", at |-> m.to, from |-> m.from, offer |-> m.offer,
         claimant |-> m.claimant] \in Tasks
    BY <2>2 DEF Tasks
  <2> QED BY <1>2, <2>1, <2>3, ZenonT(60) DEF ReceiveClaim, Begin, Wires
<1>3. ASSUME NEW m \in net, ReceiveCancel(m) PROVE Books' /\ Wires'
  <2>1. m.to \in Nodes /\ m.from \in Nodes /\ m.offer \in Offers
    BY <1>3, MessageFields, ZenonT(60) DEF Wires
  <2>2. [op |-> "tombstone", at |-> m.to, from |-> m.from, offer |-> m.offer] \in Tasks
    BY <2>1, ZenonT(60) DEF Tasks
  <2>3. claims' \in [Nodes -> [Offers -> [Claimants -> Status]]]
    BY <1>3, DeleteClaims, ZenonT(60) DEF ReceiveCancel
  <2>4. Books'
    BY <1>3, <2>3, ZenonT(60) DEF ReceiveCancel, Books, history
  <2>5. net' = net /\ tasks' \subseteq Tasks
    BY <1>3, <2>2 DEF ReceiveCancel, Begin, Wires
  <2> QED BY <2>4, <2>5, ZenonT(60) DEF Wires
<1>4. ASSUME NEW t \in tasks, FinishOffer(t) PROVE Books' /\ Wires'
  <2>1. Books' /\ tasks' \subseteq tasks
    BY <1>4, BooksFrame, ZenonT(60) DEF FinishOffer, Finish
  <2>2. t.at \in Nodes /\ t.offer \in Offers /\ t.ttl \in 0..3
    BY <1>4, TaskFields DEF FinishOffer, Wires
  <2>3. net' \subseteq Messages
    <3>1. CASE t.ttl > 0
      <4>1. t.ttl - 1 \in 0..3
        BY <2>2, <3>1
      <4>2. BroadcastExcept(t.at, t.from, OfferMsg(t.at, t.offer, t.ttl - 1))
        BY <1>4, <3>1, ZenonT(60) DEF FinishOffer
      <4> QED BY <2>2, <4>1, <4>2, BroadcastType, ZenonT(60) DEF Wires
    <3>2. CASE ~(t.ttl > 0)
      BY <1>4, <3>2 DEF FinishOffer, Wires
    <3> QED BY <3>1, <3>2, ZenonT(60)
  <2> QED BY <2>1, <2>3, ZenonT(60) DEF Wires
<1>5. ASSUME NEW t \in tasks, FinishList(t) PROVE Books' /\ Wires'
  <2>1. Books' /\ tasks' \subseteq tasks /\ net' = net
    BY <1>5, BooksFrame, ZenonT(60) DEF FinishList, Finish
  <2> QED BY <2>1, ZenonT(60) DEF Wires
<1>6. ASSUME NEW t \in tasks, FinishClaim(t) PROVE Books' /\ Wires'
  <2>1. t.at \in Nodes /\ t.offer \in Offers /\ t.claimant \in Claimants
    BY <1>6, TaskFields DEF FinishClaim, Wires
  <2>2. tasks' \subseteq tasks /\ BroadcastExcept(t.at, t.from, ClaimMsg(t.at, t.offer, t.claimant))
    BY <1>6 DEF FinishClaim, Finish
  <2>3. claims' \in [Nodes -> [Offers -> [Claimants -> Status]]]
    BY <1>6, ClaimsType, ZenonT(60) DEF FinishClaim, SetClaim, Status, Books
  <2>4. Books'
    BY <1>6, <2>3 DEF FinishClaim, Books, history
  <2> QED BY <2>1, <2>2, <2>4, BroadcastType, ZenonT(60) DEF Wires
<1>7. ASSUME NEW t \in tasks, FinishCancel(t) PROVE Books' /\ Wires'
  <2>1. t.at \in Nodes /\ t.offer \in Offers
    BY <1>7, TaskFields DEF Wires
  <2>2. tasks' \subseteq tasks /\ BroadcastExcept(t.at, t.from, CancelMsg(t.at, t.offer))
    BY <1>7, ZenonT(60) DEF FinishCancel, Finish
  <2>3. cancelled_offers' \in [Nodes -> SUBSET Offers]
    BY <1>7, <2>1, ZenonT(60) DEF FinishCancel, Books
  <2>4. Books'
    BY <1>7, <2>3, ZenonT(60) DEF FinishCancel, Books, history
  <2> QED BY <2>1, <2>2, <2>4, BroadcastType DEF Wires
<1>8. ASSUME NEW n \in Nodes, NEW m \in Nodes, NEW o \in Offers, SyncOffer(n, m, o)
      PROVE  Books' /\ Wires'
  <2>1. Books' /\ net' = net
    BY <1>8, BooksFrame, ZenonT(60) DEF SyncOffer
  <2>2. Current(claimed_counts[n][o]) \in 0..max_sponsees
    <3>1. claimed_counts[n][o] \in Counts
      BY ZenonT(60) DEF OInv, Slots
    <3>2. \A k \in Counts : Current(k) \in 0..max_sponsees
      BY OfferConstants DEF Counts, Current, NoKey
    <3> QED
      BY <3>1, <3>2, ZenonT(60)
  <2>3. [op |-> "seed", at |-> m, offer |-> o, count |-> Current(claimed_counts[n][o])] \in Tasks
    BY <2>2 DEF Tasks
  <2> QED BY <1>8, <2>1, <2>3, ZenonT(60) DEF SyncOffer, Begin, Wires
<1> QED BY <1>1, <1>2, <1>3, <1>4, <1>5, <1>6, <1>7, <1>8 DEF Gossip

LEMMA RpcTypes ==
  ASSUME OInv, Books, Wires, Rpc
  PROVE  Books' /\ Wires'
<1> USE DEF store, slotHistory
<1>1. ASSUME NEW o \in Offers, CreateOffer(o) PROVE Books' /\ Wires'
  <2>1. Books' /\ tasks' = tasks
    BY <1>1 DEF CreateOffer, Books
  <2>2. BroadcastExcept(SponsorNode, SponsorNode, OfferMsg(SponsorNode, o, 3))
    BY <1>1 DEF CreateOffer, Broadcast
  <2>3. net' \subseteq Messages
    BY <2>2, OfferConstants, BroadcastType DEF Wires
  <2> QED BY <2>1, <2>3, ZenonT(60) DEF Wires
<1>2. ASSUME NEW o \in Offers, CancelOffer(o) PROVE Books' /\ Wires'
  <2>1. claims' \in [Nodes -> [Offers -> [Claimants -> Status]]]
    BY <1>2, DeleteClaims, ZenonT(60) DEF CancelOffer
  <2>2. events' \in 0..MaxEvents
    BY <1>2, EventType, ZenonT(60) DEF CancelOffer, Books
  <2>3. Books'
    BY <1>2, <2>1, <2>2, ZenonT(60) DEF CancelOffer, Books
  <2>4. [op |-> "tombstone", at |-> SponsorNode, from |-> SponsorNode, offer |-> o] \in Tasks
    BY OfferConstants, ZenonT(60) DEF Tasks
  <2>5. net' = net /\ tasks' \subseteq Tasks
    BY <1>2, <2>4 DEF CancelOffer, Begin, Wires
  <2> QED BY <2>3, <2>5, ZenonT(60) DEF Wires
<1>3. ASSUME NEW n \in Nodes, NEW o \in Offers, NEW c \in Claimants, ClaimOffer(n, o, c)
      PROVE  Books' /\ Wires'
  <2>1. claims' \in [Nodes -> [Offers -> [Claimants -> Status]]]
    BY <1>3, ClaimsType, ZenonT(60) DEF ClaimOffer, SetClaim, Status, Books
  <2>2. Books' /\ tasks' = tasks
    BY <1>3, <2>1, ZenonT(60) DEF ClaimOffer, Books, history
  <2>3. BroadcastExcept(n, n, ClaimMsg(n, o, c))
    BY <1>3, ZenonT(60) DEF ClaimOffer, Broadcast
  <2>4. net' \subseteq Messages
    BY <2>3, BroadcastType, ZenonT(60) DEF Wires
  <2> QED BY <2>2, <2>4, ZenonT(60) DEF Wires
<1>4. ASSUME NEW o \in Offers, NEW c \in Claimants, ApproveClaim(o, c) \/ RejectClaim(o, c)
      PROVE  Books' /\ Wires'
  <2>1. events' \in 0..MaxEvents
    BY <1>4, OfferConstants DEF ApproveClaim, RejectClaim, Event, Books
  <2>2. claims' \in [Nodes -> [Offers -> [Claimants -> Status]]]
    <3>1. claims \in [Nodes -> [Offers -> [Claimants -> Status]]] /\ "none" \in Status
      BY DEF Books, Status
    <3>2. claims' = claims \/ claims' = [claims EXCEPT ![SponsorNode][o][c] = "none"]
      BY <1>4 DEF ApproveClaim, RejectClaim, SetClaim
    <3> QED BY <3>1, <3>2, SetClaimType, ZenonT(60)
  <2>3. Books'
    BY <1>4, <2>1, <2>2 DEF ApproveClaim, RejectClaim, Books, history
  <2>4. net' = net /\ tasks' = tasks
    BY <1>4, ZenonT(60) DEF ApproveClaim, RejectClaim
  <2> QED BY <2>3, <2>4, ZenonT(60) DEF Wires
<1> QED BY <1>1, <1>2, <1>3, <1>4, ZenonT(60) DEF Rpc

LEMMA ApprovalTypes ==
  ASSUME OInv, Books, Wires, NEW w \in Workers, Approval(w)
  PROVE  Books' /\ Wires'
<1> USE DEF store, slotHistory
<1>1. net' = net /\ tasks' = tasks
  BY ZenonT(60) DEF Approval, TakeSlot, Recheck, MarkApproved, PostAction
<1>2. job[w].pc # "idle"
  BY ZenonT(60) DEF Approval, TakeSlot, Recheck, MarkApproved, PostAction
<1>3. job[w].offer \in Offers /\ job[w].claimant \in Claimants
  BY <1>2 DEF OInv, Calls, Jobs, Idle
<1>4. claims' \in [Nodes -> [Offers -> [Claimants -> Status]]]
  <2> DEFINE Set(s) == claims' = [claims EXCEPT ![SponsorNode][job[w].offer][job[w].claimant] = s]
  <2>1. TakeSlot(w) \/ Recheck(w) => claims' = claims \/ Set("none")
    BY DEF TakeSlot, Recheck, Refuse, Grant, SetClaim
  <2>2. MarkApproved(w) \/ PostAction(w) => claims' = claims \/ Set("approved")
    BY DEF MarkApproved, PostAction, SetClaim
  <2>3. claims' = claims \/ \E s \in Status : Set(s)
    BY <2>1, <2>2, ZenonT(60) DEF Approval, Status
  <2>4. claims \in [Nodes -> [Offers -> [Claimants -> Status]]]
    BY ZenonT(60) DEF Books
  <2> QED BY <2>3, <2>4, SetClaimType, ZenonT(60)
<1>5. refused' \subseteq Offers /\ posted' \subseteq Offers \X Claimants
  BY <1>3 DEF Approval, TakeSlot, Recheck, MarkApproved, PostAction, Refuse, Grant, Books
<1>6. UNCHANGED <<cancelled_offers, sponsored, expired, events, withdrawn, crashed>>
  BY ZenonT(60) DEF Approval, TakeSlot, Recheck, MarkApproved, PostAction, history
<1>7. Books'
  BY <1>4, <1>5, <1>6, ZenonT(60) DEF Books
<1> QED BY <1>1, <1>7, ZenonT(60) DEF Wires

LEMMA OtherTypes ==
  ASSUME OInv, Books, Wires,
         Background \/ (\E o \in Offers : Expire(o)) \/ Crash \/ UNCHANGED vars
  PROVE  Books' /\ Wires'
<1> USE DEF store, slotHistory
<1>1. ASSUME NEW o \in Offers, SweepOffer(o) PROVE Books' /\ Wires'
  BY <1>1, BooksFrame, ZenonT(60) DEF SweepOffer, Wires
<1>2. ASSUME NEW o \in Offers, NEW c \in Claimants, SweepNext(o, c) PROVE Books' /\ Wires'
  <2>1. claims' \in [Nodes -> [Offers -> [Claimants -> Status]]]
    <3>1. claims \in [Nodes -> [Offers -> [Claimants -> Status]]] /\ "none" \in Status
      BY DEF Books, Status
    <3>2. claims' = claims \/ claims' = [claims EXCEPT ![SponsorNode][o][c] = "none"]
      BY <1>2 DEF SweepNext, SetClaim
    <3> QED BY <3>1, <3>2, SetClaimType, ZenonT(60)
  <2> QED BY <1>2, <2>1, ZenonT(60) DEF SweepNext, Books, Wires, history
<1>3. ASSUME NEW o \in Offers, NEW c \in Claimants, Rebroadcast(o, c) PROVE Books' /\ Wires'
  <2>1. Books' /\ tasks' = tasks
    BY <1>3, BooksFrame DEF Rebroadcast
  <2>2. Home[c] \in Nodes
    BY OfferConstants, ZenonT(60)
  <2>3. BroadcastExcept(Home[c], Home[c], ClaimMsg(Home[c], o, c))
    BY <1>3, ZenonT(60) DEF Rebroadcast, Broadcast
  <2>4. net' \subseteq Messages
    BY <2>2, <2>3, BroadcastType, ZenonT(60) DEF Wires
  <2> QED BY <2>1, <2>4 DEF Wires
<1>4. ASSUME NEW c \in Claimants, ClearOwnClaims(c) PROVE Books' /\ Wires'
  <2>1. claims \in [Nodes -> [Offers -> [Claimants -> Status]]] /\ Home[c] \in Nodes
    BY OfferConstants DEF Books
  <2> DEFINE Cleared ==
        [o \in Offers |-> [x \in Claimants |->
           IF x = c /\ o \in OwnPending(c) THEN "none" ELSE claims[Home[c]][o][x]]]
  <2>2. claims' = [claims EXCEPT ![Home[c]] = Cleared]
    BY <1>4, ZenonT(60) DEF ClearOwnClaims
  <2>3. Cleared \in [Offers -> [Claimants -> Status]]
    BY <2>1 DEF Status
  <2> HIDE DEF Cleared
  <2>4. claims' \in [Nodes -> [Offers -> [Claimants -> Status]]]
    BY <2>1, <2>2, <2>3, ZenonT(60)
  <2> QED BY <1>4, <2>4 DEF ClearOwnClaims, Books, Wires, history
<1>5. ASSUME NEW n \in Nodes, NEW c \in Claimants, ApplySponsor(n, c) PROVE Books' /\ Wires'
  <2>1. sponsored' \in [Nodes -> SUBSET Claimants]
    BY <1>5, ZenonT(60) DEF ApplySponsor, Books
  <2> QED BY <1>5, <2>1, ZenonT(60) DEF ApplySponsor, Books, Wires, history
<1>6. ASSUME NEW o \in Offers, Expire(o) PROVE Books' /\ Wires'
  <2>1. events' \in 0..MaxEvents
    BY <1>6, EventType, ZenonT(60) DEF Expire, Books
  <2> QED BY <1>6, <2>1, ZenonT(60) DEF Expire, Books, Wires, history
<1>7. CASE Crash
  <2>1. events' \in 0..MaxEvents
    BY <1>7, OfferConstants DEF Crash, Event, Books
  <2> QED BY <1>7, <2>1, ZenonT(60) DEF Crash, Books, Wires
<1>8. CASE UNCHANGED vars
  BY <1>8, BooksFrame DEF vars, Wires
<1> QED BY <1>1, <1>2, <1>3, <1>4, <1>5, <1>6, <1>7, <1>8, ZenonT(60) DEF Background

\* Every tree, counter, message, handler and call of the offer book keeps its type
\* under every interleaving: a tombstone, a claim or a count is only ever written for
\* an offer, a claimant and a node there are, and no count leaves 0..max_sponsees.
THEOREM TypeCorrect == Spec => []TypeOK
<1>1. Init => Books /\ Wires
  <2> SUFFICES ASSUME Init PROVE Books /\ Wires
    OBVIOUS
  <2>1. claims \in [Nodes -> [Offers -> [Claimants -> Status]]]
    BY DEF Init, Status
  <2>2. /\ cancelled_offers \in [Nodes -> SUBSET Offers]
        /\ sponsored \in [Nodes -> SUBSET Claimants]
        /\ events \in 0..MaxEvents
    BY OfferConstants DEF Init
  <2> QED
    BY <2>1, <2>2, ZenonT(60) DEF Init, Books, Wires
<1>2. OInv /\ Books /\ Wires /\ [Next]_vars => Books' /\ Wires'
  BY GossipTypes, RpcTypes, ApprovalTypes, OtherTypes DEF Next
<1>3. OInv /\ Books /\ Wires => TypeOK
  BY DEF OInv, Slots, Calls, Books, Wires, TypeOK
<1> QED
  BY <1>1, <1>2, <1>3, OffersInvariant, PTL DEF Spec

-----------------------------------------------------------------------------
(* Over-claiming *)

\* Claimants of offer o whose Sponsor action is posted, or will be: their approval
\* has its slot.
Served(o) ==
  {c \in Claimants :
     \/ <<o, c>> \in posted
     \/ \E w \in Workers : /\ job[w].pc \in {"mark", "post"}
                           /\ job[w].offer = o
                           /\ job[w].claimant = c}

\* Each of them was counted.  The count of grants saturates past the last slot.
ServedAreGranted ==
  \A o \in Offers :
    /\ IsFiniteSet(Served(o))
    /\ granted[o] <= max_sponsees => Cardinality(Served(o)) <= granted[o]

\* execute_claim_approval: no offer has more than max_sponsees Sponsor actions posted
\* before it refuses an approval or its sponsor cancels it.
OverClaimNeedsRefusal ==
  \A o \in created \ (refused \cup withdrawn) :
    Cardinality({c \in Claimants : <<o, c>> \in posted}) <= max_sponsees

\* A call that is past its slot after the step was so before.
NoneJoins ==
  \A v \in Workers :
    job'[v].pc \in {"mark", "post"} =>
      /\ job[v].pc \in {"mark", "post"}
      /\ job'[v].offer = job[v].offer
      /\ job'[v].claimant = job[v].claimant

LEMMA ServedStay ==
  ASSUME ServedAreGranted, OInv, granted' = granted,
         \A o \in Offers : Served(o)' \subseteq Served(o)
  PROVE  ServedAreGranted'
<1> SUFFICES ASSUME NEW o \in Offers
             PROVE  /\ IsFiniteSet(Served(o)')
                    /\ granted[o] <= max_sponsees => Cardinality(Served(o)') <= granted[o]
  BY DEF ServedAreGranted
<1>1. /\ IsFiniteSet(Served(o))
      /\ granted[o] <= max_sponsees => Cardinality(Served(o)) <= granted[o]
  BY ZenonT(60) DEF ServedAreGranted
<1>2. IsFiniteSet(Served(o)') /\ Cardinality(Served(o)') <= Cardinality(Served(o))
  BY <1>1, FS_Subset, ZenonT(60)
<1>3. Cardinality(Served(o)') \in Nat /\ Cardinality(Served(o)) \in Nat
  BY <1>1, <1>2, FS_CardinalityType, ZenonT(60)
<1>4. granted[o] \in Nat
  BY DEF OInv, Slots
<1> QED
  BY <1>1, <1>2, <1>3, <1>4

LEMMA NoneJoinsStay ==
  ASSUME ServedAreGranted, OInv, granted' = granted, posted' = posted, NoneJoins
  PROVE  ServedAreGranted'
<1>1. \A o \in Offers : Served(o)' \subseteq Served(o)
  BY ZenonT(60) DEF Served, NoneJoins
<1> QED
  BY <1>1, ServedStay, ZenonT(60)

\* A call changes to j; the others stay as they are.
LEMMA OneCall ==
  ASSUME OInv, NEW w \in Workers, NEW j, job' = [job EXCEPT ![w] = j],
         j.pc \in {"mark", "post"} =>
           /\ job[w].pc \in {"mark", "post"}
           /\ j.offer = job[w].offer /\ j.claimant = job[w].claimant
  PROVE  NoneJoins
<1>1. \A v \in Workers : job'[v] = IF v = w THEN j ELSE job[v]
  BY DEF OInv, Calls
<1> QED
  BY <1>1 DEF NoneJoins

\* A granted slot serves one claimant more and is one more grant.
LEMMA GrantServes ==
  ASSUME ServedAreGranted, OInv, NEW w \in Workers, job[w] # Idle, Grant(w), posted' = posted
  PROVE  ServedAreGranted'
<1>1. /\ job \in [Workers -> Jobs]
      /\ job[w] \in [pc : {"slot", "recheck", "mark", "post"}, offer : Offers, claimant : Claimants]
  BY DEF OInv, Calls, Jobs
<1>a. PICK o \in Offers, c \in Claimants : o = job[w].offer /\ c = job[w].claimant
  BY <1>1
<1>2. /\ job' = [job EXCEPT ![w].pc = "mark"]
      /\ granted' = [granted EXCEPT ![o] = IF @ > max_sponsees THEN @ ELSE @ + 1]
  BY <1>a, ZenonT(60) DEF Grant
<1>3. granted \in [Offers -> 0..(max_sponsees + 1)]
  BY DEF OInv, Slots
<1>4. /\ job'[w].offer = o /\ job'[w].claimant = c
      /\ \A v \in Workers \ {w} : job'[v] = job[v]
  BY <1>a, <1>1, <1>2, ZenonT(60)
<1>5. ASSUME NEW x \in Offers, NEW y \in Served(x)'
      PROVE  y \in Served(x) \/ (x = o /\ y = c)
  <2>1. CASE <<x, y>> \in posted'
    BY <2>1, ZenonT(60) DEF Served
  <2>2. ASSUME NEW v \in Workers, job'[v].pc \in {"mark", "post"}, job'[v].offer = x,
               job'[v].claimant = y
        PROVE  y \in Served(x) \/ (x = o /\ y = c)
    BY <1>4, <2>2 DEF Served
  <2> QED BY <2>1, <2>2, ZenonT(60) DEF Served
<1>6. \A x \in Offers \ {o} : granted'[x] = granted[x]
  BY <1>2, <1>3
<1>7. granted'[o] = IF granted[o] > max_sponsees THEN granted[o] ELSE granted[o] + 1
  BY <1>2, <1>3, ZenonT(60)
<1> SUFFICES ASSUME NEW x \in Offers
             PROVE  /\ IsFiniteSet(Served(x)')
                    /\ granted'[x] <= max_sponsees => Cardinality(Served(x)') <= granted'[x]
  BY ZenonT(60) DEF ServedAreGranted
<1>8. /\ IsFiniteSet(Served(x)) /\ Cardinality(Served(x)) \in Nat
      /\ granted[x] <= max_sponsees => Cardinality(Served(x)) <= granted[x]
      /\ granted[x] \in Nat /\ max_sponsees \in Nat
  <2>1. /\ IsFiniteSet(Served(x))
        /\ granted[x] <= max_sponsees => Cardinality(Served(x)) <= granted[x]
    BY ZenonT(60) DEF ServedAreGranted
  <2>2. Cardinality(Served(x)) \in Nat
    BY <2>1, FS_CardinalityType, ZenonT(60)
  <2>3. granted[x] \in Nat /\ max_sponsees \in Nat
    BY <1>3, OfferConstants
  <2> QED
    BY <2>1, <2>2, <2>3, ZenonT(60)
<1>9. CASE x # o
  <2>1. IsFiniteSet(Served(x)') /\ Cardinality(Served(x)') <= Cardinality(Served(x))
    <3>1. Served(x)' \in SUBSET Served(x)
      BY <1>5, <1>9
    <3> QED BY <1>8, <3>1, FS_Subset, ZenonT(60)
  <2>2. Cardinality(Served(x)') \in Nat
    BY <2>1, FS_CardinalityType, ZenonT(60)
  <2> QED BY <1>6, <1>8, <1>9, <2>1, <2>2
<1>10. CASE x = o
  <2> DEFINE more == Served(o) \cup {c}
  <2>1. /\ IsFiniteSet(more)
        /\ Cardinality(more) = IF c \in Served(o) THEN Cardinality(Served(o))
                               ELSE Cardinality(Served(o)) + 1
    BY <1>8, <1>10, FS_AddElement, ZenonT(60)
  <2>2. Cardinality(more) \in Nat /\ Cardinality(more) <= Cardinality(Served(o)) + 1
    BY <1>8, <1>10, <2>1
  <2> HIDE DEF more
  <2>3. IsFiniteSet(Served(o)') /\ Cardinality(Served(o)') <= Cardinality(more)
    <3>1. Served(o)' \in SUBSET more
      BY <1>5, ZenonT(60) DEF more
    <3> QED BY <2>1, <3>1, FS_Subset, ZenonT(60)
  <2>4. Cardinality(Served(o)') \in Nat
    BY <2>3, FS_CardinalityType, ZenonT(60)
  <2>5. granted'[o] <= max_sponsees => Cardinality(Served(o)') <= granted'[o]
    BY <1>7, <1>8, <1>10, <2>2, <2>3, <2>4
  <2> QED BY <1>10, <2>3, <2>5, ZenonT(60)
<1> QED
  BY <1>9, <1>10, ZenonT(60)

LEMMA ApprovalServes ==
  ASSUME ServedAreGranted, OInv, NEW w \in Workers, Approval(w)
  PROVE  ServedAreGranted'
<1>1. /\ job[w] # Idle
      /\ job[w] \in [pc : {"slot", "recheck", "mark", "post"}, offer : Offers, claimant : Claimants]
  <2>1. job[w].pc # "idle"
    BY ZenonT(60) DEF Approval, TakeSlot, Recheck, MarkApproved, PostAction
  <2> QED BY <2>1 DEF OInv, Calls, Jobs, Idle
<1>2. Idle.pc = "idle"
  BY ZenonT(60) DEF Idle
<1>3. CASE Refuse(w) /\ posted' = posted
  BY <1>2, <1>3, OneCall, NoneJoinsStay, ZenonT(60) DEF Refuse
<1>4. CASE Grant(w) /\ posted' = posted
  BY <1>1, <1>4, GrantServes
<1>5. CASE job' = [job EXCEPT ![w].pc = "recheck"] /\ posted' = posted /\ granted' = granted
  <2>1. job' = [job EXCEPT ![w] = [job[w] EXCEPT !.pc = "recheck"]]
    BY <1>5
  <2>2. [job[w] EXCEPT !.pc = "recheck"].pc = "recheck"
    BY <1>1
  <2> QED BY <1>5, <2>1, <2>2, OneCall, NoneJoinsStay, ZenonT(60)
<1>6. CASE MarkApproved(w)
  <2>1. /\ job' = [job EXCEPT ![w] = [job[w] EXCEPT !.pc = "post"]]
        /\ job[w].pc = "mark" /\ posted' = posted /\ granted' = granted
    BY <1>6 DEF MarkApproved, slotHistory
  <2>2. /\ [job[w] EXCEPT !.pc = "post"].offer = job[w].offer
        /\ [job[w] EXCEPT !.pc = "post"].claimant = job[w].claimant
    BY <1>1
  <2> QED BY <2>1, <2>2, OneCall, NoneJoinsStay, ZenonT(60)
<1>7. CASE PostAction(w)
  <2>1. /\ job' = [job EXCEPT ![w] = Idle] /\ granted' = granted /\ job[w].pc = "post"
        /\ posted' = posted \cup {<<job[w].offer, job[w].claimant>>}
    BY <1>7 DEF PostAction, slotHistory
  <2>2. NoneJoins
    BY <1>2, <2>1, OneCall, ZenonT(60)
  <2>3. ASSUME NEW o \in Offers, NEW c \in Served(o)'
        PROVE  c \in Served(o)
    <3>1. CASE <<o, c>> \in posted \/ \E v \in Workers : /\ job'[v].pc \in {"mark", "post"}
                                                        /\ job'[v].offer = o /\ job'[v].claimant = c
      BY <2>2, <3>1, ZenonT(60) DEF Served, NoneJoins
    <3>2. CASE o = job[w].offer /\ c = job[w].claimant
      BY <2>1, <3>2, ZenonT(60) DEF Served
    <3> QED BY <2>1, <3>1, <3>2 DEF Served
  <2> QED BY <2>1, <2>3, ServedStay
<1>8. TakeSlot(w) => /\ posted' = posted
                     /\ \/ Refuse(w) \/ Grant(w)
                        \/ job' = [job EXCEPT ![w].pc = "recheck"] /\ granted' = granted
  BY ZenonT(60) DEF TakeSlot
<1>9. Recheck(w) => posted' = posted /\ (Refuse(w) \/ Grant(w))
  BY DEF Recheck
<1> QED
  BY <1>3, <1>4, <1>5, <1>6, <1>7, <1>8, <1>9, ZenonT(60) DEF Approval

LEMMA ServedStep == ServedAreGranted /\ OInv /\ [Next]_vars => ServedAreGranted'
<1> SUFFICES ASSUME ServedAreGranted, OInv, [Next]_vars
             PROVE  ServedAreGranted'
  OBVIOUS
<1> USE DEF slotHistory
<1>1. ASSUME UNCHANGED <<job, posted, granted>>
      PROVE  ServedAreGranted'
  BY <1>1, NoneJoinsStay, ZenonT(60) DEF NoneJoins
<1>2. ASSUME UNCHANGED <<posted, granted>>,
             NEW w \in Workers, NEW o, NEW c, StartJob(w, o, c)
      PROVE  ServedAreGranted'
  <2>1. job' = [job EXCEPT ![w] = [pc |-> "slot", offer |-> o, claimant |-> c]]
    BY <1>2 DEF StartJob
  <2> QED BY <1>2, <2>1, OneCall, NoneJoinsStay, ZenonT(60)
<1>3. CASE Gossip
  BY <1>1, <1>3, ZenonT(60) DEF Gossip, ReceiveOffer, ReceiveClaim, ReceiveCancel, FinishOffer, FinishList,
                    FinishClaim, FinishCancel, SyncOffer
<1>4. CASE Rpc
  <2>1. \/ UNCHANGED <<job, posted, granted>>
        \/ /\ UNCHANGED <<posted, granted>>
           /\ \E w \in Workers, o \in Offers, c \in Claimants : StartJob(w, o, c)
    BY <1>4, ZenonT(60) DEF Rpc, CreateOffer, CancelOffer, ClaimOffer, ApproveClaim, RejectClaim, Workers
  <2> QED BY <1>1, <1>2, <2>1, ZenonT(60)
<1>5. CASE Background
  <2>1. \/ UNCHANGED <<job, posted, granted>>
        \/ /\ UNCHANGED <<posted, granted>>
           /\ \E w \in Workers, o \in Offers, c \in Claimants : StartJob(w, o, c)
    BY <1>5, ZenonT(60) DEF Background, SweepOffer, SweepNext, Rebroadcast, ClearOwnClaims, ApplySponsor, Workers
  <2> QED BY <1>1, <1>2, <2>1
<1>6. CASE Crash
  BY <1>6, NoneJoinsStay, ZenonT(60) DEF Crash, NoneJoins, Idle
<1>7. CASE UNCHANGED vars \/ \E o \in Offers : Expire(o)
  BY <1>1, <1>7 DEF vars, Expire
<1> QED
  BY <1>3, <1>4, <1>5, <1>6, <1>7, ApprovalServes, ZenonT(60) DEF Next

\* "Concurrent claims cannot over-claim an offer" (claim_sponsorship_offer) is true of
\* every offer until it refuses an approval or is cancelled, whatever runs concurrently
\* and wherever the sponsor's process is killed: only the refusal, which deletes the
\* counter, opens it to more claims than it has slots.
THEOREM OverClaimOnlyAfterRefusal == Spec => []OverClaimNeedsRefusal
<1>1. Init => ServedAreGranted
  <2> SUFFICES ASSUME Init PROVE ServedAreGranted
    OBVIOUS
  <2>1. \A o \in Offers : Served(o) = {} /\ granted[o] = 0
    BY DEF Init, Served, Idle
  <2> QED BY <2>1, FS_EmptySet DEF ServedAreGranted
<1>2. OInv /\ ServedAreGranted => OverClaimNeedsRefusal
  <2> SUFFICES ASSUME OInv, ServedAreGranted, NEW o \in created \ (refused \cup withdrawn)
               PROVE  Cardinality({c \in Claimants : <<o, c>> \in posted}) <= max_sponsees
    BY ZenonT(60) DEF OverClaimNeedsRefusal
  <2> DEFINE P == {c \in Claimants : <<o, c>> \in posted}
  <2>1. o \in Offers /\ granted[o] \in Nat /\ max_sponsees \in Nat
    BY OfferConstants DEF OInv, Slots
  <2>2. granted[o] <= max_sponsees
    <3>1. granted[o] <= claimed_counts[SponsorNode][o]
      BY ZenonT(60) DEF OInv, Slots, CountCoversGrants
    <3>2. claimed_counts[SponsorNode][o] \in Counts
      BY <2>1, OfferConstants DEF OInv, Slots
    <3> QED BY <2>1, <3>1, <3>2 DEF Counts, NoKey
  <2>3. IsFiniteSet(Served(o)) /\ Cardinality(Served(o)) <= granted[o]
    BY <2>1, <2>2, ZenonT(60) DEF ServedAreGranted
  <2>4. P \in SUBSET Served(o)
    BY ZenonT(60) DEF Served
  <2> HIDE DEF P
  <2>5. /\ IsFiniteSet(P) /\ Cardinality(P) <= Cardinality(Served(o))
        /\ Cardinality(P) \in Nat /\ Cardinality(Served(o)) \in Nat
    BY <2>3, <2>4, FS_Subset, FS_CardinalityType, ZenonT(60)
  <2>6. Cardinality(P) <= max_sponsees
    BY <2>1, <2>2, <2>3, <2>5
  <2> QED BY <2>6 DEF P
<1> QED
  BY <1>1, <1>2, ServedStep, OffersInvariant, PTL DEF Spec
=============================================================================
