----------------------------- MODULE OfferBook -----------------------------
(***************************************************************************)
(* Public sponsorship offers: the per-node OfferStore                      *)
(* (src/sponsorship/offer_store.rs), the gossip handlers that fill it      *)
(* (src/node/router/router.rs), the claimant's re-broadcast and sponsor's  *)
(* auto-approve sweep (src/node/tasks.rs), the sponsor's RPC calls         *)
(* (src/rpc/methods.rs) and the shared approval path                       *)
(* (src/sponsorship/auto_approve.rs).                                      *)
(*                                                                         *)
(* One sponsor identity, held by SponsorNode, makes the offers.  Handlers  *)
(* run on several runtime threads and the store takes no lock across two   *)
(* sled calls, so a handler that checks and then writes is two steps, and  *)
(* an approval is one step per store call.  A broadcast reaches any subset *)
(* of the other nodes; what reached one may be handled late, twice, or out *)
(* of order.  Signatures and proofs of work are valid: the calls that fail *)
(* them change nothing.                                                    *)
(***************************************************************************)
EXTENDS Integers, FiniteSets

CONSTANTS
  Nodes,
  SponsorNode,    \* the node that holds the sponsor's key
  Offers,         \* offer ids the sponsor may create
  AutoApprove,    \* those created with auto_approve (and a space scope)
  Claimants,
  Home,           \* claimant -> the node that runs under its identity
  max_sponsees,   \* slots of an offer
  MaxTasks,       \* bound: handlers between their check and their write
  MaxEvents       \* bound: cancellations, approve and reject calls, expiries and
                  \* kills of the sponsor's process

ASSUME OfferConstants ==
  /\ SponsorNode \in Nodes
  /\ AutoApprove \subseteq Offers
  /\ Home \in [Claimants -> Nodes]
  /\ max_sponsees \in Nat \ {0}
  /\ MaxEvents \in Nat

VARIABLES
  offers,            \* node -> offers stored there
  claimed_counts,    \* node -> offer -> slots taken, NoKey when absent
  claims,            \* node -> offer -> claimant -> status of the claim
  cancelled_offers,  \* node -> tombstones
  sponsored,         \* node -> claimants with a StoredSponsorship
  posted,            \* <<offer, claimant>> with a Sponsor action in the mempool
  expired,           \* offers whose expires_at has passed
  net,               \* messages that reached a node
  tasks,             \* handlers between their check and their write
  sweep,             \* claims the running auto-approve sweep still holds
  job,               \* execute_claim_approval calls in progress
  events,            \* how much of MaxEvents is used up
  crashed,           \* history: the sponsor's process was killed
  created,           \* history: offers ever created
  withdrawn,         \* history: offers the sponsor cancelled
  refused,           \* history: offers that refused an approval
  granted,           \* history: approvals that got a slot, saturating
  peak               \* history: highest count the sponsor's counter reached

store == <<offers, claimed_counts, claims, cancelled_offers>>
history == <<created, withdrawn, crashed>>
slotHistory == <<refused, granted, peak>>
vars == <<store, sponsored, posted, expired, net, tasks, sweep, job, events,
          history, slotHistory>>

NoKey == -1
Counts == {NoKey} \cup 0..max_sponsees
Status == {"none", "pending", "approved"}
\* The three callers of execute_claim_approval.
Workers == {"sweep", "approve_rpc", "claim_rpc"}
Idle == [pc |-> "idle", offer |-> "-", claimant |-> "-"]
Others(n) == Nodes \ {n}
Larger(a, b) == IF a > b THEN a ELSE b

Messages ==
  [kind : {"offer"}, to : Nodes, from : Nodes, offer : Offers, ttl : 0..3]
    \cup [kind : {"claim"}, to : Nodes, from : Nodes, offer : Offers,
          claimant : Claimants]
    \cup [kind : {"cancel"}, to : Nodes, from : Nodes, offer : Offers]

Tasks ==
  [op : {"create"}, at : Nodes, from : Nodes, offer : Offers, ttl : 0..3]
    \cup [op : {"seed"}, at : Nodes, offer : Offers, count : 0..max_sponsees]
    \cup [op : {"claim"}, at : Nodes, from : Nodes, offer : Offers,
          claimant : Claimants]
    \cup [op : {"tombstone"}, at : Nodes, from : Nodes, offer : Offers]

Jobs ==
  {Idle} \cup [pc : {"slot", "recheck", "mark", "post"}, offer : Offers,
               claimant : Claimants]

Init ==
  /\ offers = [n \in Nodes |-> {}]
  /\ claimed_counts = [n \in Nodes |-> [o \in Offers |-> NoKey]]
  /\ claims = [n \in Nodes |-> [o \in Offers |-> [c \in Claimants |-> "none"]]]
  /\ cancelled_offers = [n \in Nodes |-> {}]
  /\ sponsored = [n \in Nodes |-> {}]
  /\ posted = {}
  /\ expired = {}
  /\ net = {}
  /\ tasks = {}
  /\ sweep = {}
  /\ job = [w \in Workers |-> Idle]
  /\ events = 0
  /\ crashed = FALSE
  /\ created = {}
  /\ withdrawn = {}
  /\ refused = {}
  /\ granted = [o \in Offers |-> 0]
  /\ peak = [o \in Offers |-> 0]

-----------------------------------------------------------------------------
(* OfferStore. *)

Event ==
  /\ events < MaxEvents
  /\ events' = events + 1

Current(k) == IF k = NoKey THEN 0 ELSE k

SetCount(n, o, k) ==
  claimed_counts' = [claimed_counts EXCEPT ![n][o] = k]

SetClaim(n, o, c, s) ==
  claims' = [claims EXCEPT ![n][o][c] = s]

\* create_offer past its checks: the offer is stored and its count starts at k.
StoreOffer(n, o, k) ==
  /\ offers' = [offers EXCEPT ![n] = @ \cup {o}]
  /\ SetCount(n, o, k)

\* The offer, its count and every claim on it go; the tombstone comes later.
delete_offer(n, o) ==
  IF o \in offers[n]
  THEN /\ offers' = [offers EXCEPT ![n] = @ \ {o}]
       /\ SetCount(n, o, NoKey)
       /\ claims' = [claims EXCEPT ![n][o] = [c \in Claimants |-> "none"]]
  ELSE UNCHANGED <<offers, claimed_counts, claims>>

\* Variant: the peer's count replaces the local one.
BumpedBlindly(k, atLeast) == atLeast

\* Variant: the counts are added up.
BumpedBySum(k, atLeast) ==
  IF Current(k) + atLeast > max_sponsees THEN max_sponsees ELSE Current(k) + atLeast

\* The value bump_claimed_count_to leaves: a max-merge.
Bumped(k, atLeast) == Larger(Current(k), atLeast)

\* Variant: one slot too many.
IncrementOverOne(k) == IF Current(k) > max_sponsees THEN NoKey ELSE Current(k) + 1

\* The closure of increment_claimed_count.  sled's fetch_and_update stores what
\* the closure returns, and None removes the key.
Incremented(k) == IF Current(k) >= max_sponsees THEN NoKey ELSE Current(k) + 1

-----------------------------------------------------------------------------
(* Gossip. *)

\* A pool broadcast of msg by node n that skips one peer: it reaches those of
\* the other nodes that are connected.
BroadcastExcept(n, skip, msg) ==
  \E reach \in SUBSET (Nodes \ {n, skip}) :
    net' = net \cup {[msg EXCEPT !.to = m] : m \in reach}

Broadcast(n, msg) == BroadcastExcept(n, n, msg)

OfferMsg(n, o, ttl) ==
  [kind |-> "offer", to |-> n, from |-> n, offer |-> o, ttl |-> ttl]
ClaimMsg(n, o, c) ==
  [kind |-> "claim", to |-> n, from |-> n, offer |-> o, claimant |-> c]
CancelMsg(n, o) == [kind |-> "cancel", to |-> n, from |-> n, offer |-> o]

Begin(t) ==
  /\ Cardinality(tasks) < MaxTasks
  /\ tasks' = tasks \cup {t}
Finish(t) == t \in tasks /\ tasks' = tasks \ {t}

\* handle_sponsorship_offer: the tombstone, duplicate and expiry checks...
ReceiveOffer(m) ==
  /\ m \in net /\ m.kind = "offer"
  /\ m.offer \notin cancelled_offers[m.to] \cup offers[m.to] \cup expired
  /\ Begin([op |-> "create", at |-> m.to, from |-> m.from, offer |-> m.offer,
            ttl |-> m.ttl])
  /\ UNCHANGED <<store, sponsored, posted, expired, net, sweep, job,
                 events, history, slotHistory>>

\* ...and then create_offer, whose "already exists" is not an error, and the
\* relay while hops remain.
FinishOffer(t) ==
  /\ t.op = "create"
  /\ Finish(t)
  /\ IF t.offer \in offers[t.at]
     THEN UNCHANGED <<offers, claimed_counts>>
     ELSE StoreOffer(t.at, t.offer, 0)
  /\ IF t.ttl > 0
     THEN BroadcastExcept(t.at, t.from, OfferMsg(t.at, t.offer, t.ttl - 1))
     ELSE UNCHANGED net
  /\ UNCHANGED <<claims, cancelled_offers, sponsored, posted,
                 expired, sweep, job, events, history, slotHistory>>

\* spawn_sponsorship_offer_sync asks a peer, handle_sponsorship_offer_query
\* answers with its active offers and their counts, and
\* handle_sponsorship_offer_list handles the answer, here one entry of it: the
\* count is merged whether or not the offer is stored; an unknown offer is then
\* created...
SyncOffer(n, m, o) ==
  LET count == Current(claimed_counts[n][o])
  IN /\ m # n
     /\ o \in offers[n] \ (expired \cup cancelled_offers[m])
     /\ count < max_sponsees
     /\ SetCount(m, o, Bumped(claimed_counts[m][o], count))
     /\ IF o \in offers[m]
        THEN UNCHANGED tasks
        ELSE Begin([op |-> "seed", at |-> m, offer |-> o, count |-> count])
     /\ UNCHANGED <<offers, claims, cancelled_offers, sponsored,
                    posted, expired, net, sweep, job, events, history,
                    slotHistory>>

\* ...with its count reset to 0 by create_offer and merged again.
FinishList(t) ==
  /\ t.op = "seed"
  /\ Finish(t)
  /\ IF t.offer \in offers[t.at]
     THEN UNCHANGED <<offers, claimed_counts>>
     ELSE StoreOffer(t.at, t.offer, Bumped(0, t.count))
  /\ UNCHANGED <<claims, cancelled_offers, sponsored, posted,
                 expired, net, sweep, job, events, history, slotHistory>>

\* handle_sponsorship_claim up to submit_claim's duplicate check.
ReceiveClaim(m) ==
  /\ m \in net /\ m.kind = "claim"
  /\ m.offer \in offers[m.to]
  /\ claims[m.to][m.offer][m.claimant] = "none"
  /\ Begin([op |-> "claim", at |-> m.to, from |-> m.from, offer |-> m.offer,
            claimant |-> m.claimant])
  /\ UNCHANGED <<store, sponsored, posted, expired, net, sweep, job,
                 events, history, slotHistory>>

\* The insert, and the relay on first sight.
FinishClaim(t) ==
  /\ t.op = "claim"
  /\ Finish(t)
  /\ SetClaim(t.at, t.offer, t.claimant, "pending")
  /\ BroadcastExcept(t.at, t.from, ClaimMsg(t.at, t.offer, t.claimant))
  /\ UNCHANGED <<offers, claimed_counts, cancelled_offers,
                 sponsored, posted, expired, sweep, job, events, history,
                 slotHistory>>

\* handle_sponsorship_offer_cancel: a first sight deletes the offer...
ReceiveCancel(m) ==
  /\ m \in net /\ m.kind = "cancel"
  /\ m.offer \notin cancelled_offers[m.to]
  /\ delete_offer(m.to, m.offer)
  /\ Begin([op |-> "tombstone", at |-> m.to, from |-> m.from, offer |-> m.offer])
  /\ UNCHANGED <<cancelled_offers, sponsored, posted, expired, net,
                 sweep, job, events, history, slotHistory>>

\* ...and then tombstones it and relays.  The RPC cancellation ends the same way.
FinishCancel(t) ==
  /\ t.op = "tombstone"
  /\ Finish(t)
  /\ cancelled_offers' = [cancelled_offers EXCEPT ![t.at] = @ \cup {t.offer}]
  /\ BroadcastExcept(t.at, t.from, CancelMsg(t.at, t.offer))
  /\ UNCHANGED <<offers, claimed_counts, claims, sponsored, posted,
                 expired, sweep, job, events, history, slotHistory>>

-----------------------------------------------------------------------------
(* The RPC calls. *)

\* create_sponsorship_offer: the id is a hash of the creation time, so new.
CreateOffer(o) ==
  /\ o \notin created
  /\ created' = created \cup {o}
  /\ StoreOffer(SponsorNode, o, 0)
  /\ Broadcast(SponsorNode, OfferMsg(SponsorNode, o, 3))
  /\ UNCHANGED <<claims, cancelled_offers, sponsored, posted,
                 expired, tasks, sweep, job, events, withdrawn, crashed,
                 slotHistory>>

\* cancel_sponsorship_offer.
CancelOffer(o) ==
  /\ Event
  /\ o \in offers[SponsorNode]
  /\ delete_offer(SponsorNode, o)
  /\ Begin([op |-> "tombstone", at |-> SponsorNode, from |-> SponsorNode,
            offer |-> o])
  /\ withdrawn' = withdrawn \cup {o}
  /\ UNCHANGED <<cancelled_offers, sponsored, posted, expired, net,
                 sweep, job, created, crashed, slotHistory>>

StartJob(w, o, c) ==
  /\ job[w] = Idle
  /\ job' = [job EXCEPT ![w] = [pc |-> "slot", offer |-> o, claimant |-> c]]

\* claim_sponsorship_offer, called on any node: checks, submit_claim, broadcast;
\* on the sponsor's node an auto-approve offer is approved in the same call.
ClaimOffer(n, o, c) ==
  /\ o \in offers[n] \ expired
  /\ c \notin sponsored[n]
  /\ claims[n][o][c] = "none"
  /\ SetClaim(n, o, c, "pending")
  /\ Broadcast(n, ClaimMsg(n, o, c))
  /\ IF n = SponsorNode /\ o \in AutoApprove
     THEN StartJob("claim_rpc", o, c)
     ELSE UNCHANGED job
  /\ UNCHANGED <<offers, claimed_counts, cancelled_offers,
                 sponsored, posted, expired, tasks, sweep, events, history,
                 slotHistory>>

\* approve_sponsorship_claim: the claim must exist, pending or not.
ApproveClaim(o, c) ==
  /\ Event
  /\ o \in offers[SponsorNode]
  /\ claims[SponsorNode][o][c] # "none"
  /\ StartJob("approve_rpc", o, c)
  /\ UNCHANGED <<store, sponsored, posted, expired, net, tasks,
                 sweep, history, slotHistory>>

\* reject_sponsorship_claim removes the claim, approved or not.
RejectClaim(o, c) ==
  /\ Event
  /\ o \in offers[SponsorNode]
  /\ SetClaim(SponsorNode, o, c, "none")
  /\ UNCHANGED <<offers, claimed_counts, cancelled_offers,
                 sponsored, posted, expired, net, tasks, sweep, job, history,
                 slotHistory>>

-----------------------------------------------------------------------------
(* execute_claim_approval, for each of its three callers. *)

\* A call that got no slot: the sweep and the claim RPC drop the claim.
Refuse(w) ==
  /\ job' = [job EXCEPT ![w] = Idle]
  /\ refused' = refused \cup {job[w].offer}
  /\ IF w = "approve_rpc"
     THEN UNCHANGED claims
     ELSE SetClaim(SponsorNode, job[w].offer, job[w].claimant, "none")
  /\ UNCHANGED granted

Grant(w) ==
  /\ job' = [job EXCEPT ![w].pc = "mark"]
  /\ granted' = [granted EXCEPT ![job[w].offer] =
                   IF @ > max_sponsees THEN @ ELSE @ + 1]
  /\ UNCHANGED <<claims, refused>>

\* The fetch_and_update of increment_claimed_count.  It returns the old value:
\* present, it decides; absent, the count is read again.
TakeSlot(w) ==
  LET o == job[w].offer
      old == claimed_counts[SponsorNode][o]
  IN /\ job[w].pc = "slot"
     /\ SetCount(SponsorNode, o, Incremented(old))
     /\ peak' = [peak EXCEPT ![o] = Larger(@, Incremented(old))]
     /\ IF old = NoKey
        THEN /\ job' = [job EXCEPT ![w].pc = "recheck"]
             /\ UNCHANGED <<claims, refused, granted>>
        ELSE IF old + 1 > max_sponsees THEN Refuse(w) ELSE Grant(w)
     /\ UNCHANGED <<offers, cancelled_offers, sponsored, posted,
                    expired, net, tasks, sweep, events, history>>

Recheck(w) ==
  /\ job[w].pc = "recheck"
  /\ IF Current(claimed_counts[SponsorNode][job[w].offer]) >= max_sponsees
     THEN Refuse(w)
     ELSE Grant(w)
  /\ UNCHANGED <<offers, claimed_counts, cancelled_offers,
                 sponsored, posted, expired, net, tasks, sweep, events, history,
                 peak>>

\* update_claim; a claim removed meanwhile stays removed, the error is ignored.
MarkApproved(w) ==
  LET o == job[w].offer
      c == job[w].claimant
  IN /\ job[w].pc = "mark"
     /\ IF claims[SponsorNode][o][c] = "none"
        THEN UNCHANGED claims
        ELSE SetClaim(SponsorNode, o, c, "approved")
     /\ job' = [job EXCEPT ![w].pc = "post"]
     /\ UNCHANGED <<offers, claimed_counts, cancelled_offers,
                    sponsored, posted, expired, net, tasks, sweep, events,
                    history, slotHistory>>

\* The Sponsor action enters the mempool and is announced.
PostAction(w) ==
  /\ job[w].pc = "post"
  /\ posted' = posted \cup {<<job[w].offer, job[w].claimant>>}
  /\ job' = [job EXCEPT ![w] = Idle]
  /\ UNCHANGED <<store, sponsored, expired, net, tasks, sweep,
                 events, history, slotHistory>>

-----------------------------------------------------------------------------
(* Background tasks. *)

\* spawn_sponsorship_auto_approve: the pending claims of one own offer...
SweepOffer(o) ==
  LET pending == {c \in Claimants : claims[SponsorNode][o][c] = "pending"}
  IN /\ sweep = {} /\ job["sweep"] = Idle
     /\ o \in (offers[SponsorNode] \cap AutoApprove) \ expired
     /\ pending # {}
     /\ sweep' = {<<o, c>> : c \in pending}
     /\ UNCHANGED <<store, sponsored, posted, expired, net, tasks,
                    job, events, history, slotHistory>>

\* ...are dropped when their claimant is sponsored by now, else approved.
SweepNext(o, c) ==
  /\ <<o, c>> \in sweep
  /\ job["sweep"] = Idle
  /\ sweep' = sweep \ {<<o, c>>}
  /\ IF c \in sponsored[SponsorNode]
     THEN SetClaim(SponsorNode, o, c, "none") /\ UNCHANGED job
     ELSE StartJob("sweep", o, c) /\ UNCHANGED claims
  /\ UNCHANGED <<offers, claimed_counts, cancelled_offers,
                 sponsored, posted, expired, net, tasks, events, history,
                 slotHistory>>

OwnPending(c) == {o \in Offers : claims[Home[c]][o][c] = "pending"}

\* Variant: the one broadcast at submit time has to do.
NoRebroadcast(o, c) ==
  /\ c \notin sponsored[Home[c]]
  /\ o \in OwnPending(c)
  /\ UNCHANGED vars

\* spawn_sponsorship_claim_rebroadcast for a claimant that is still waiting...
Rebroadcast(o, c) ==
  /\ c \notin sponsored[Home[c]]
  /\ o \in OwnPending(c)
  /\ Broadcast(Home[c], ClaimMsg(Home[c], o, c))
  /\ UNCHANGED <<store, sponsored, posted, expired, tasks, sweep,
                 job, events, history, slotHistory>>

\* ...and its clean-up once the claimant is sponsored.
ClearOwnClaims(c) ==
  /\ c \in sponsored[Home[c]]
  /\ OwnPending(c) # {}
  /\ claims' = [claims EXCEPT ![Home[c]] =
                  [o \in Offers |-> [x \in Claimants |->
                     IF x = c /\ o \in OwnPending(c) THEN "none" ELSE @[o][x]]]]
  /\ UNCHANGED <<offers, claimed_counts, cancelled_offers,
                 sponsored, posted, expired, net, tasks, sweep, job, events,
                 history, slotHistory>>

\* A block with the claimant's Sponsor action is applied on a node.
ApplySponsor(n, c) ==
  /\ \E o \in Offers : <<o, c>> \in posted
  /\ c \notin sponsored[n]
  /\ sponsored' = [sponsored EXCEPT ![n] = @ \cup {c}]
  /\ UNCHANGED <<store, posted, expired, net, tasks, sweep, job,
                 events, history, slotHistory>>

Expire(o) ==
  /\ Event
  /\ o \in created \ expired
  /\ expired' = expired \cup {o}
  /\ UNCHANGED <<store, sponsored, posted, net, tasks, sweep, job,
                 history, slotHistory>>

\* The sponsor's process is killed: the trees stay, every call in progress ends
\* where it is, a slot already taken included.
Crash ==
  /\ Event
  /\ crashed' = TRUE
  /\ tasks' = {t \in tasks : t.at # SponsorNode}
  /\ sweep' = {}
  /\ job' = [w \in Workers |-> Idle]
  /\ UNCHANGED <<store, sponsored, posted, expired, net, created,
                 withdrawn, slotHistory>>

-----------------------------------------------------------------------------
Gossip ==
  \/ \E m \in net : ReceiveOffer(m) \/ ReceiveClaim(m) \/ ReceiveCancel(m)
  \/ \E t \in tasks : FinishOffer(t) \/ FinishList(t) \/ FinishClaim(t)
                        \/ FinishCancel(t)
  \/ \E n, m \in Nodes, o \in Offers : SyncOffer(n, m, o)

Rpc ==
  \/ \E o \in Offers : CreateOffer(o) \/ CancelOffer(o)
  \/ \E o \in Offers, c \in Claimants :
       \/ \E n \in Nodes : ClaimOffer(n, o, c)
       \/ ApproveClaim(o, c) \/ RejectClaim(o, c)

Approval(w) == TakeSlot(w) \/ Recheck(w) \/ MarkApproved(w) \/ PostAction(w)

Background ==
  \/ \E o \in Offers : SweepOffer(o)
  \/ \E o \in Offers, c \in Claimants : SweepNext(o, c) \/ Rebroadcast(o, c)
  \/ \E c \in Claimants : ClearOwnClaims(c)
  \/ \E n \in Nodes, c \in Claimants : ApplySponsor(n, c)

Next ==
  \/ Gossip \/ Rpc \/ Background
  \/ \E w \in Workers : Approval(w)
  \/ \E o \in Offers : Expire(o)
  \/ Crash

Spec == Init /\ [][Next]_vars

\* The claimant's re-broadcast or relay of others brings its claim to the sponsor.
ReachSponsor(o, c) ==
  Rebroadcast(o, c) /\ [ClaimMsg(Home[c], o, c) EXCEPT !.to = SponsorNode] \in net'
DeliverClaim(o, c) ==
  \E m \in net : /\ m.kind = "claim" /\ m.to = SponsorNode
                 /\ m.offer = o /\ m.claimant = c
                 /\ ReceiveClaim(m)
RunTask == \E t \in tasks : FinishOffer(t) \/ FinishList(t) \/ FinishClaim(t)
                              \/ FinishCancel(t)
RunSweep(o) ==
  \/ SweepOffer(o)
  \/ \E c \in Claimants : SweepNext(o, c)
  \/ job["sweep"].offer = o /\ Approval("sweep")

\* The intervals tick for ever (MissedTickBehavior::Skip); a started handler or
\* approval runs on; the claimant's link to the sponsor is up at some tick; a
\* posted action is mined and every node applies the block.
FairSpec ==
  /\ Spec
  /\ WF_vars(RunTask)
  /\ \A w \in Workers \ {"sweep"} : WF_vars(Approval(w))
  /\ \A o \in Offers : WF_vars(RunSweep(o))
  /\ \A o \in Offers, c \in Claimants :
       /\ WF_vars(ReachSponsor(o, c))
       /\ WF_vars(DeliverClaim(o, c))
  /\ \A n \in Nodes, c \in Claimants : WF_vars(ApplySponsor(n, c))

-----------------------------------------------------------------------------
\* The types of the trees, the messages and the tasks.
TypeOK ==
  /\ offers \in [Nodes -> SUBSET Offers]
  /\ claimed_counts \in [Nodes -> [Offers -> Counts]]
  /\ claims \in [Nodes -> [Offers -> [Claimants -> Status]]]
  /\ cancelled_offers \in [Nodes -> SUBSET Offers]
  /\ sponsored \in [Nodes -> SUBSET Claimants]
  /\ posted \subseteq Offers \X Claimants
  /\ expired \subseteq Offers
  /\ net \subseteq Messages
  /\ tasks \subseteq Tasks
  /\ sweep \subseteq Offers \X Claimants
  /\ job \in [Workers -> Jobs]
  /\ events \in 0..MaxEvents
  /\ crashed \in BOOLEAN
  /\ created \subseteq Offers
  /\ withdrawn \subseteq Offers
  /\ refused \subseteq Offers
  /\ granted \in [Offers -> 0..(max_sponsees + 1)]
  /\ peak \in [Offers -> 0..max_sponsees]

\* increment_claimed_count and bump_claimed_count_to under every interleaving of
\* the sweep, both RPC approvals, the offer-list gossip and a kill: until an
\* approval of the offer is refused, or its sponsor cancels it, the counter of
\* the sponsor's node covers every approval that got a slot.
CountCoversGrants ==
  \A o \in created \ (refused \cup withdrawn) :
    granted[o] <= claimed_counts[SponsorNode][o]

\* The offer-list max-merge: no node ever shows an offer as fuller than the
\* sponsor's own counter has been, so no node hides an offer that has slots.
PeersNeverOvercount ==
  \A n \in Nodes, o \in Offers : claimed_counts[n][o] <= peak[o]

\* The claimant's re-broadcast and the sponsor's sweep: a claim that waits for an
\* auto-approve offer ends with its claimant sponsored at home, whatever
\* broadcasts were lost.  The exceptions are a claim refused or rejected where its
\* claimant can see it, an offer cancelled or expired, and a sponsor's process
\* killed after update_claim and before the action is posted.
ClaimIsAnswered ==
  \A o \in AutoApprove, c \in Claimants :
    (claims[Home[c]][o][c] = "pending")
      ~> \/ c \in sponsored[Home[c]]
         \/ claims[Home[c]][o][c] = "none"
         \/ o \in withdrawn \cup expired
         \/ crashed /\ claims[SponsorNode][o][c] = "approved"

\* What execute_claim_approval's caller documents: "concurrent claims cannot
\* over-claim an offer".
NoOverClaim ==
  \A o \in Offers :
    Cardinality({c \in Claimants : <<o, c>> \in posted}) <= max_sponsees
=============================================================================
