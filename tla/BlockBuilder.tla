---------------------------- MODULE BlockBuilder ----------------------------
(***************************************************************************)
(* The mempool of a node (src/blocks/builder.rs) with its callers: actions *)
(* arrive from RPC and gossip, leave in a block the node forms, in a block *)
(* of the network, by eviction or by replacement, and come back after a    *)
(* reorganisation or a restart.                                            *)
(*                                                                         *)
(* A pending thread is a vector whose indices matter (Replace-In-Mempool   *)
(* looks actions up by index), so a slot is a record with its thread, its  *)
(* index and its action.  Eviction and replacement do not remove a slot:   *)
(* they leave a tombstone (pow_work 0, no content hash), here dead = TRUE. *)
(* An action stands for its dedup hash; a tombstone has another hash and   *)
(* is never looked up.                                                     *)
(***************************************************************************)
EXTENDS Integers, FiniteSets

CONSTANTS
  Actions,       \* signed, mined actions, named by their dedup hash
  Threads,
  Spaces,
  NoAction,      \* replaces_pending = None
  Actor,         \* action -> author
  Outsiders,     \* authors whose sponsorship may be missing when a block is formed
  Pow,           \* action -> pow_work
  ThreadOf,      \* action -> thread it is submitted to
  SpaceOf,       \* thread -> space
  Replaces,      \* action -> replaces_pending
  Creates,       \* actions submitted through add_create_space_action
  NetworkBlocks, \* sets of actions that blocks of the network may carry
  MAX_MEMPOOL_ACTIONS,
  MAX_ACTIONS_PER_SPACE,
  MaxSlots       \* bound: slots, tombstones included, the instance explores

ASSUME BuilderConstants ==
  /\ IsFiniteSet(Actions)
  /\ IsFiniteSet(Threads)
  /\ NoAction \notin Actions
  /\ Pow \in [Actions -> Nat]
  /\ ThreadOf \in [Actions -> Threads]
  /\ SpaceOf \in [Threads -> Spaces]
  /\ Replaces \in [Actions -> Actions \cup {NoAction}]
  /\ Creates \subseteq Actions
  /\ NetworkBlocks \subseteq SUBSET Actions
  /\ MAX_MEMPOOL_ACTIONS \in Nat \ {0}
  /\ MAX_ACTIONS_PER_SPACE \in Nat \ {0}
  /\ MaxSlots \in Nat

VARIABLES
  slots,      \* threads: the pending actions and tombstones
  seen,       \* seen_actions
  locations,  \* action_locations: action -> [thread, idx]
  counts,     \* space_action_counts
  total,      \* total_action_count
  disk,       \* the slots last persisted
  formed,     \* slots drained into a block that is not stored yet
  raced,      \* a network block became the tip since formed was drained
  finalized,  \* actions of canonical blocks (owned by the chain store)
  arriving,   \* announced actions that passed is_action_finalized
  kept        \* history: accepted actions no policy decision has dropped

mempool == <<slots, seen, locations, counts, total>>
chain == <<finalized, raced>>
vars == <<slots, seen, locations, counts, total, disk, formed, raced,
          finalized, arriving, kept>>

Slot == [thread : Threads, idx : Nat, act : Actions, dead : BOOLEAN]

Live(S) == {x.act : x \in {y \in S : ~y.dead}}
InThread(S, t) == {x \in S : x.thread = t}
InSpace(S, s) == {x \in S : SpaceOf[x.thread] = s}
Minus(a, b) == IF a > b THEN a - b ELSE 0
PowAt(x) == IF x.dead THEN 0 ELSE Pow[x.act]
Dead(x) == [thread |-> x.thread, idx |-> x.idx, act |-> x.act, dead |-> TRUE]
Place(x) == [thread |-> x.thread, idx |-> x.idx]

Init ==
  /\ slots = {}
  /\ seen = {}
  /\ locations = [a \in {} |-> 0]
  /\ counts = [s \in Spaces |-> 0]
  /\ total = 0
  /\ disk = {}
  /\ formed = {}
  /\ raced = FALSE
  /\ finalized = {}
  /\ arriving = {}
  /\ kept = {}

-----------------------------------------------------------------------------
(* Adding an action: add_action, add_create_space_action *)

\* The slots one of which is evicted: lowest positive PoW, the first such of
\* its thread (between threads the hash map's order decides).
Lowest(S) ==
  LET E == {x \in S : PowAt(x) > 0}
  IN  {x \in E : \A y \in E :
         /\ PowAt(x) <= PowAt(y)
         /\ (y.thread = x.thread /\ PowAt(y) = PowAt(x)) => x.idx <= y.idx}

\* The eviction a limit asks for: none below it or when nothing is evictable.
Victims(full, S) == IF full /\ Lowest(S) # {} THEN {{x} : x \in Lowest(S)} ELSE {{}}

\* Variant: the limit is off by one.
SpaceFullLate(s) == counts[s] > MAX_ACTIONS_PER_SPACE

SpaceFull(s) == counts[s] >= MAX_ACTIONS_PER_SPACE
PoolFull(n) == n >= MAX_MEMPOOL_ACTIONS
TooWeak(a, V) == \E x \in V : Pow[a] <= PowAt(x)

Without(f, A) == [a \in DOMAIN f \ A |-> f[a]]
Tombstoned(V) == (slots \ V) \cup {Dead(x) : x \in V}

\* Variant: every space is charged, without saturation.
CountsWithoutCare(V) == [s \in Spaces |-> counts[s] - Cardinality(V)]

CountsWithout(V) == [s \in Spaces |-> Minus(counts[s], Cardinality(InSpace(V, s)))]

NewSlot(a, S) ==
  [thread |-> ThreadOf[a], idx |-> Cardinality(InThread(S, ThreadOf[a])) + 1,
   act |-> a, dead |-> FALSE]

\* Located(f, a, x): f with a's location, which add_create_space_action omits.
Located(f, a, x) ==
  IF a \in Creates THEN f
  ELSE [b \in DOMAIN f \cup {a} |-> IF b = a THEN Place(x) ELSE f[b]]

\* The victims are gone even though the incoming action is then refused, and
\* that is not persisted.
Refuse(V) ==
  /\ slots' = Tombstoned(V)
  /\ seen' = seen \ Live(V)
  /\ locations' = Without(locations, Live(V))
  /\ counts' = CountsWithout(V)
  /\ total' = Minus(total, Cardinality(V))
  /\ kept' = kept \ Live(V)
  /\ UNCHANGED disk

\* Variant: an accepted action is not persisted.
AcceptUnsaved(a, V) ==
  LET S == Tombstoned(V)
      x == NewSlot(a, S)
  IN  /\ slots' = S \cup {x}
      /\ seen' = (seen \ Live(V)) \cup {a}
      /\ locations' = Located(Without(locations, Live(V)), a, x)
      /\ counts' = [CountsWithout(V) EXCEPT ![SpaceOf[ThreadOf[a]]] = @ + 1]
      /\ total' = Minus(total, Cardinality(V)) + 1
      /\ kept' = (kept \ Live(V)) \cup {a}
      /\ UNCHANGED disk

Accept(a, V) ==
  LET S == Tombstoned(V)
      x == NewSlot(a, S)
  IN  /\ slots' = S \cup {x}
      /\ seen' = (seen \ Live(V)) \cup {a}
      /\ locations' = Located(Without(locations, Live(V)), a, x)
      /\ counts' = [CountsWithout(V) EXCEPT ![SpaceOf[ThreadOf[a]]] = @ + 1]
      /\ total' = Minus(total, Cardinality(V)) + 1
      /\ kept' = (kept \ Live(V)) \cup {a}
      /\ disk' = slots'

AddAction(a) ==
  LET s == SpaceOf[ThreadOf[a]] IN
  /\ a \notin seen
  /\ Replaces[a] = NoAction
  /\ Cardinality(slots) < MaxSlots
  /\ \E V \in Victims(SpaceFull(s), InSpace(slots, s)) :
       IF TooWeak(a, V) THEN Refuse(V)
       ELSE \E W \in Victims(PoolFull(Minus(total, Cardinality(V))), slots \ V) :
              IF TooWeak(a, W) THEN Refuse(V \cup W) ELSE Accept(a, V \cup W)

\* Replace-In-Mempool: the target is found by its recorded place, and only the
\* author of whatever stands there is checked.
Targets(a) ==
  {x \in slots : /\ Replaces[a] \in DOMAIN locations
                 /\ Place(x) = locations[Replaces[a]]
                 /\ Actor[x.act] = Actor[a]}

\* The limits are not consulted, the counters keep their values, and nothing is
\* persisted.
ReplaceAction(a) ==
  LET target == Replaces[a] IN
  /\ a \notin seen
  /\ target # NoAction
  /\ Cardinality(slots) < MaxSlots
  /\ \E old \in Targets(a) :
       LET S == Tombstoned({old})
           x == NewSlot(a, S)
       IN  /\ slots' = S \cup {x}
           /\ locations' = Located(Without(locations, {target}), a, x)
  /\ seen' = (seen \ {target}) \cup {a}
  /\ kept' = (kept \ {target}) \cup {a}
  /\ UNCHANGED <<counts, total, disk>>

\* A duplicate, or a replacement whose target is not found.
RejectAction(a) ==
  /\ a \in seen \/ (Replaces[a] # NoAction /\ Targets(a) = {})
  /\ UNCHANGED <<mempool, disk, kept>>

OfferAction(a) == AddAction(a) \/ ReplaceAction(a) \/ RejectAction(a)

\* handle_action_announce reads is_action_finalized before it takes the
\* builder's lock; submissions over RPC take the same route.
Announce(a) ==
  /\ a \notin finalized
  /\ arriving' = arriving \cup {a}
  /\ UNCHANGED <<mempool, disk, formed, chain, kept>>

Submit(a) ==
  /\ a \in arriving
  /\ arriving' = arriving \ {a}
  /\ OfferAction(a)
  /\ UNCHANGED <<formed, chain>>

-----------------------------------------------------------------------------
(* Forming a block: build_root_block, then the task's checks and the store *)

\* Variant: stale actions reach the block.
MineableAlways(x) == TRUE

Mineable(x) == x.dead \/ x.act \notin finalized

\* The threads are drained.  Left out of the block: what an author who is not
\* authorized signed (such an action stays in seen_actions), and actions
\* already finalized.  Tombstones go along with the rest.
BuildRootBlock(unauthorized) ==
  LET excluded == {x \in slots : Actor[x.act] \in unauthorized} IN
  /\ formed = {}
  /\ slots # {}
  /\ formed' = {x \in slots \ excluded : Mineable(x)}
  /\ slots' = {}
  /\ seen' = seen \cup Live(excluded)
  /\ locations' = [a \in {} |-> 0]
  /\ counts' = [s \in Spaces |-> 0]
  /\ total' = 0
  /\ disk' = {}
  /\ raced' = FALSE
  /\ kept' = kept \ Live(excluded)
  /\ UNCHANGED <<finalized, arriving>>

\* The task checks the formed block again: its authors' sponsorship, and the
\* backstop against actions finalized meanwhile.
Discard(unauthorized) ==
  /\ \/ \E x \in formed : Actor[x.act] \in unauthorized
     \/ Live(formed) \cap finalized # {}
  /\ formed' = {}
  /\ UNCHANGED <<mempool, disk, chain, arriving, kept>>

\* The block is stored.  It extends the tip, unless a network block got there
\* first: then fork resolution may leave it on a side branch.
StoreFormed(canonical) ==
  /\ formed # {}
  /\ Live(formed) \cap finalized = {}
  /\ canonical \/ raced
  /\ finalized' = IF canonical THEN finalized \cup Live(formed) ELSE finalized
  /\ formed' = {}
  /\ UNCHANGED <<mempool, disk, raced, arriving, kept>>

-----------------------------------------------------------------------------
(* Blocks of the network, reorganisations and restarts *)

\* Variant: a block with a pending action clears the pool.
RetainedNone(A) == IF Live(slots) \cap A = {} THEN slots ELSE {}

\* Surviving slots close ranks; recorded locations are not updated.
Retained(A) ==
  LET S == {x \in slots : x.dead \/ x.act \notin A}
  IN  {[thread |-> x.thread, act |-> x.act, dead |-> x.dead,
        idx |-> Cardinality({y \in InThread(S, x.thread) : y.idx <= x.idx})] : x \in S}

Removed(A) == {x \in slots : ~x.dead /\ x.act \in A}

\* A network block becomes the tip: clear_finalized_actions.
ReceiveBlock(A) ==
  /\ A \cap finalized = {}
  /\ finalized' = finalized \cup A
  /\ raced' = TRUE
  /\ slots' = Retained(A)
  /\ seen' = seen \ A
  /\ locations' = Without(locations, A)
  /\ counts' = CountsWithout(Removed(A))
  /\ total' = Minus(total, Cardinality(Removed(A)))
  /\ disk' = IF Removed(A) = {} THEN disk ELSE slots'
  /\ UNCHANGED <<formed, arriving, kept>>

\* The same by way of block sync: handle_blocks leaves the mempool alone.
SyncBlock(A) ==
  /\ A \cap finalized = {}
  /\ finalized' = finalized \cup A
  /\ raced' = TRUE
  /\ UNCHANGED <<mempool, disk, formed, arriving, kept>>

\* A reorganisation displaces the block that carried a: its mark is removed
\* and requeue_and_regossip_orphans offers it to the mempool again.
Reorg(a) ==
  /\ a \in finalized
  /\ finalized' = finalized \ {a}
  /\ raced' = TRUE
  /\ OfferAction(a)
  /\ UNCHANGED <<formed, arriving>>

\* Variant: the dedup set is not rebuilt.
RestoredNone(S) == {}

Restored(S) == Live(S)

\* The process dies and load_persisted rebuilds the indexes, counting
\* tombstones with the rest.
Restart ==
  /\ slots' = disk
  /\ seen' = Restored(disk)
  /\ locations' = [a \in Live(disk) |->
                     Place(CHOOSE x \in disk : ~x.dead /\ x.act = a)]
  /\ counts' = [s \in Spaces |-> Cardinality(InSpace(disk, s))]
  /\ total' = Cardinality(disk)
  /\ formed' = {}
  /\ raced' = FALSE
  /\ arriving' = {}
  /\ UNCHANGED <<disk, finalized, kept>>

Next ==
  \/ \E a \in Actions : Announce(a) \/ Submit(a) \/ Reorg(a)
  \/ \E U \in SUBSET Outsiders : BuildRootBlock(U) \/ Discard(U)
  \/ \E c \in BOOLEAN : StoreFormed(c)
  \/ \E A \in NetworkBlocks : ReceiveBlock(A) \/ SyncBlock(A)
  \/ Restart

Spec == Init /\ [][Next]_vars

-----------------------------------------------------------------------------
(* Properties *)

\* Slots, the disk image and the block being formed hold slots; the counters
\* are naturals; locations are recorded for actions only.
TypeOK ==
  /\ slots \subseteq Slot
  /\ disk \subseteq Slot
  /\ formed \subseteq Slot
  /\ seen \subseteq Actions
  /\ DOMAIN locations \subseteq Actions
  /\ counts \in [Spaces -> Nat]
  /\ total \in Nat
  /\ raced \in BOOLEAN
  /\ finalized \subseteq Actions
  /\ arriving \subseteq Actions
  /\ kept \subseteq Actions

\* No action is pending twice, in one thread or across threads, and whatever
\* is pending is known to the dedup set (add_action, load_persisted).
NoDuplicatePending ==
  /\ Live(slots) \subseteq seen
  /\ \A x, y \in slots : ~x.dead /\ ~y.dead /\ x.act = y.act => x = y

\* Tombstones aside, the pool never holds more actions than its counters say,
\* nor (all PoW being positive) more than its two limits allow, through
\* evictions, refused additions, network blocks and restarts, and through
\* replacements that find their target at its recorded place.
CapsHold ==
  LET alive == {x \in slots : ~x.dead} IN
  /\ Cardinality(alive) <= total
  /\ Cardinality(alive) <= MAX_MEMPOOL_ACTIONS
  /\ \A s \in Spaces :
       /\ Cardinality(InSpace(alive, s)) <= counts[s]
       /\ Cardinality(InSpace(alive, s)) <= MAX_ACTIONS_PER_SPACE

\* Every mutation is persisted: a pending action is on disk, so a restart at
\* any moment finds it (set_persistence).  Replacements are the exception.
DurableMempool == {a \in Live(slots) : Replaces[a] = NoAction} \subseteq Live(disk)

\* A block that was just drained holds nothing finalized: only a network block
\* that arrives between the drain and the store can make the backstop fire.
OnlyARaceDiscards == Live(formed) \cap finalized # {} => raced

\* An accepted action that was not evicted, replaced or excluded is pending,
\* in the block being formed, or finalized (persist_path: pending actions
\* "survive restart and keep propagating until mined").
AcceptedNotLost == kept \subseteq Live(slots) \cup Live(formed) \cup finalized

\* The accepted actions, replacements aside, that are nowhere any more.
Lost ==
  {a \in kept : Replaces[a] = NoAction} \ (Live(slots) \cup Live(formed) \cup finalized)

\* Where AcceptedNotLost can fail, and nowhere else: an accepted action goes missing
\* with the block being formed (discarded, left on a side branch, or in memory when the
\* process dies), or when a reorganisation displaces it and add_action refuses it.  No
\* eviction, drain, network block or restart loses anything else.
LossesAccountedFor ==
  [][Lost' \ Lost \subseteq Live(formed) \cup (finalized \ finalized')]_vars

\* A replacement removes the action it names and nothing else.
ReplacesOnlyItsTarget ==
  [][\A a \in Actions :
       Submit(a) /\ Replaces[a] # NoAction
         => Live(slots) \ Live(slots') \subseteq {Replaces[a]}]_vars
=============================================================================
