----------------------------- MODULE ChainStore -----------------------------
(***************************************************************************)
(* The canonical chain in the store (src/storage/chain.rs): the raw blocks,*)
(* the height index and the best tip, under the callers that move them:    *)
(* the block handlers of the router, the node's own formation, the         *)
(* periodic adoption pass, and repair_chain at startup.                    *)
(*                                                                         *)
(* The trees of the store are written one key at a time, without a         *)
(* transaction and without a lock around a call, so every write is a step  *)
(* of its own and a process may die between any two of them.               *)
(*                                                                         *)
(* Blocks form a tree given by constants.  Chain[b] is the ancestry of b   *)
(* as a function from heights to blocks, and Weight[b] its total work: what*)
(* the walks over prev_root_hash compute when every ancestor is stored.    *)
(***************************************************************************)
EXTENDS Integers, FiniteSets

CONSTANTS
  Blocks, Genesis, NoBlock,
  Parent,      \* prev_root_hash
  Height,
  Chain,       \* block -> [0..Height[b] -> Blocks]
  Weight,      \* block -> work of its chain, saturation aside
  Load,        \* block -> number of actions it carries
  Rank,        \* block -> its place in the order of hashes
  Writers,     \* tasks that may be inside the store at once
  MAX_FORK_LOCATOR_TIPS,
  MaxOffers,   \* bound: blocks delivered to the node
  MaxRejects,  \* bound: blocks a handler rejects after its early checks
  MaxCrashes   \* bound: restarts

ASSUME ChainConstants ==
  /\ Genesis \in Blocks
  /\ NoBlock \notin Blocks
  /\ Parent \in [Blocks -> Blocks \cup {NoBlock}]
  /\ Height \in [Blocks -> Nat]
  /\ Weight \in [Blocks -> Nat]
  /\ Load \in [Blocks -> Nat]
  /\ Rank \in [Blocks -> Nat]
  /\ MAX_FORK_LOCATOR_TIPS \in Nat
  /\ MaxOffers \in Nat
  /\ MaxRejects \in Nat
  /\ MaxCrashes \in Nat

\* Height counts the parents down to the genesis block all nodes share, and a
\* chain is its parent's with the block on top.
ASSUME ChainShape ==
  /\ \A b \in Blocks : Height[b] = 0 <=> b = Genesis
  /\ \A b \in Blocks : b = Genesis <=> Parent[b] = NoBlock
  /\ \A b \in Blocks \ {Genesis} : Height[b] = Height[Parent[b]] + 1
  /\ \A b \in Blocks : Chain[b] \in [0..Height[b] -> Blocks]
  /\ \A b \in Blocks : Chain[b][Height[b]] = b
  /\ \A b \in Blocks \ {Genesis} : \A h \in 0..Height[Parent[b]] :
       Chain[b][h] = Chain[Parent[b]][h]
  /\ \A b \in Blocks : \A h \in 0..Height[b] :
       /\ Height[Chain[b][h]] = h
       /\ \A k \in 0..h : Chain[Chain[b][h]][k] = Chain[b][k]

VARIABLES
  stored,   \* root_blocks
  index,    \* height_index: height -> block, on the heights it holds
  tip,      \* best_tip
  weighed,  \* chain_weight_cache: blocks whose weight is memoized
  task,     \* writer -> its call: where it is, for whom, and its locals
  orphans,  \* orphan_blocks: blocks waiting for their parent
  todo,     \* writer -> orphans it has taken and not yet processed
  offers, rejects, crashes   \* how often so far

pool == <<orphans, todo>>
counts == <<offers, rejects, crashes>>
vars == <<stored, index, tip, weighed, task, pool, counts>>

PCs == {"idle", "admit", "raw", "put", "tip", "weigh", "walk", "top", "cut",
        "assign", "settip", "rollback", "detach", "retreat", "stored", "next"}

\* Who called: handle_headers or formation, handle_block_data, handle_blocks,
\* process_orphan_block_data, adopt_heaviest_fork_if_any.
Callers == {"none", "header", "data", "blocks", "orphan", "adopt"}

Calls == [pc : PCs, via : Callers, blk : Blocks \cup {NoBlock},
          tip : Blocks \cup {NoBlock}, at : Nat, fork : Nat, top : Nat]
Call(pc, via, b, t, at, fork, top) ==
  [pc |-> pc, via |-> via, blk |-> b, tip |-> t, at |-> at, fork |-> fork, top |-> top]
Idle == Call("idle", "none", NoBlock, NoBlock, 0, 0, 0)

Init ==
  /\ stored = {Genesis}
  /\ index = [h \in {0} |-> Genesis]
  /\ tip = Genesis
  /\ weighed = {}
  /\ task = [w \in Writers |-> Idle]
  /\ orphans = {}
  /\ todo = [w \in Writers |-> {}]
  /\ offers = 0
  /\ rejects = 0
  /\ crashes = 0

-----------------------------------------------------------------------------
(* Reading the store *)

Latest == CHOOSE h \in DOMAIN index : \A k \in DOMAIN index : k <= h
IndexedAt(h, b) == h \in DOMAIN index /\ index[h] = b
Canonical(b) == IndexedAt(Height[b], b)
Ancestors(b) == {Chain[b][h] : h \in 0..Height[b]}

\* chain_weight(b) is Some: walking down from b meets a memoized block or
\* genesis before it meets a block that is not stored.
Weighable(b) ==
  \/ b \in weighed
  \/ \E k \in 0..Height[b] :
       /\ \A h \in k..(Height[b] - 1) : Chain[b][h] \in stored
       /\ k = 0 \/ Chain[b][k - 1] \in weighed

\* The memo after chain_weight was asked for the blocks of B.
Memo(B) == weighed \cup UNION {Ancestors(b) : b \in {c \in B : Weighable(c)}}

\* Variant: a fork needs only equal work.
HeavierOrEqual(b, t) ==
  IF Parent[b] = t THEN {TRUE}
  ELSE IF Weighable(b) /\ ~Weighable(t) THEN BOOLEAN
  ELSE {Weighable(b) /\ Weight[b] >= Weight[t]}

\* is_heavier_than_best_tip against tip t: the verdicts possible.  When only
\* the tip's weight is unknown the headers' own claims decide.
Heavier(b, t) ==
  IF Parent[b] = t THEN {TRUE}
  ELSE IF Weighable(b) /\ ~Weighable(t) THEN BOOLEAN
  ELSE {Weighable(b) /\ Weight[b] > Weight[t]}

HashWins(b, c) == Rank[b] < Rank[c]
ContentAwareWins(b, c) ==
  IF Load[b] # Load[c] THEN Load[b] > Load[c] ELSE HashWins(b, c)

\* same_height_verdict and its tiebreak.  A weight that cannot be computed
\* counts as a tie; without the content of both blocks the hash decides.
WinsHeight(b, c, counted) ==
  IF Weighable(b) /\ Weighable(c) /\ Weight[b] # Weight[c]
    THEN Weight[b] > Weight[c]
    ELSE IF counted THEN ContentAwareWins(b, c) ELSE HashWins(b, c)

DeepForkBlocked(h) == h < Latest

-----------------------------------------------------------------------------
(* Callers.  A handler's checks are one step; what it writes comes after. *)

Goto(w, pc, b, t, at, fork, top) ==
  task' = [task EXCEPT ![w] = Call(pc, task[w].via, b, t, at, fork, top)]
Begin(w, via, pc, b) ==
  /\ task[w].pc = "idle"
  /\ task' = [task EXCEPT ![w] = Call(pc, via, b, NoBlock, 0, 0, 0)]
Return(w) == task' = [task EXCEPT ![w] = Idle]

\* The router's handlers look for orphans of what they stored; an orphan that
\* is not stored only gives way to the next.
Stored(w) ==
  IF task[w].via \in {"data", "blocks", "orphan"}
    THEN Goto(w, "stored", task[w].blk, NoBlock, 0, 0, 0) ELSE Return(w)
Abandon(w) ==
  IF task[w].via = "orphan" THEN Goto(w, "next", NoBlock, NoBlock, 0, 0, 0) ELSE Return(w)

\* A block that arrives with its header checked (handle_headers) or that the
\* node formed itself goes straight to fork resolution.
StoreHeader(w, b) ==
  /\ offers < MaxOffers
  /\ offers' = offers + 1
  /\ b \in stored => Height[b] > Latest
  /\ Begin(w, "header", "put", b)
  /\ UNCHANGED <<stored, index, tip, weighed, pool, rejects, crashes>>

\* Both action counts are known when the block comes with its content, or in
\* handle_blocks when the content is already stored.
CanCount(b, via) == via = "data" \/ b \in stored

\* handle_block_data puts off a block beyond the next height and asks for the
\* blocks between; handle_blocks takes it.
PutOff(b, via) == via = "data" /\ Height[b] > Latest + 1

\* handle_block_data (via "data") and handle_blocks (via "blocks") up to their
\* first write.  A block that loses its height is only stored; one that wins
\* at the tip displaces the tip first; a known one goes on only to complete
\* its content.
ReceiveBlock(w, b, via, counted) ==
  LET h == Height[b]
      contested == h \in DOMAIN index /\ index[h] # b
      wins == contested /\ WinsHeight(b, index[h], counted) /\ ~DeepForkBlocked(h)
  IN  /\ offers < MaxOffers
      /\ offers' = offers + 1
      /\ b # Genesis
      /\ counted => CanCount(b, via)
      /\ weighed' = IF contested THEN Memo({b, index[h]}) ELSE weighed
      /\ \/ contested /\ ~wins /\ Begin(w, via, "raw", b)
         \/ wins /\ Begin(w, via, "rollback", b)
         \/ /\ ~contested
            /\ ~PutOff(b, via)
            /\ Begin(w, via, "admit", b)
      /\ UNCHANGED <<stored, index, tip, pool, rejects, crashes>>

\* The rest of the handler: a block without its parent waits in the orphan
\* pool; handle_block_data weighs it against the tip (the marks it clears
\* then are not modelled); its content may still be rejected.
Admit(w) ==
  LET b == task[w].blk IN
  /\ task[w].pc = "admit"
  /\ \/ /\ Parent[b] \notin stored
        /\ orphans' = orphans \cup {b}
        /\ Abandon(w)
        /\ UNCHANGED <<weighed, rejects>>
     \/ /\ Parent[b] \in stored
        /\ weighed' = IF task[w].via = "data" THEN Memo({b, tip}) ELSE weighed
        /\ \/ /\ Goto(w, "put", b, NoBlock, 0, 0, 0)
              /\ UNCHANGED rejects
           \/ /\ task[w].via \in {"data", "blocks"}
              /\ rejects < MaxRejects
              /\ rejects' = rejects + 1
              /\ Return(w)
        /\ UNCHANGED orphans
  /\ UNCHANGED <<stored, index, tip, todo, offers, crashes>>

OffIndex == {b \in stored : ~Canonical(b)}
Before(b, c) ==
  Height[b] > Height[c] \/ (Height[b] = Height[c] /\ Rank[b] < Rank[c])

\* The stored branches' ends, highest first, as many as the locator carries.
ForkBranchTips ==
  LET ends == {b \in OffIndex : \A c \in OffIndex : Parent[c] # b}
  IN  {b \in ends : Cardinality({c \in ends : Before(c, b)}) < MAX_FORK_LOCATOR_TIPS}

TipWeight == IF Weighable(tip) THEN Weight[tip] ELSE 0

\* heaviest_adoptable_fork_tip: none, or the first of the heaviest.
HeaviestAdoptable ==
  LET C == {b \in ForkBranchTips : Weighable(b) /\ Weight[b] > TipWeight}
  IN  {b \in C : \A c \in C \ {b} :
         Weight[b] > Weight[c] \/ (Weight[b] = Weight[c] /\ Before(b, c))}

\* Variant: nobody asks.
NobodyAsks(w) == task[w].pc = "idle" /\ UNCHANGED vars

\* The sync loop asks whether a stored branch should be adopted.
AdoptHeaviestFork(w) ==
  /\ task[w].pc = "idle"
  /\ weighed' = Memo(ForkBranchTips \cup {tip})
  /\ \/ \E b \in HeaviestAdoptable : Begin(w, "adopt", "put", b)
     \/ HeaviestAdoptable = {} /\ UNCHANGED task
  /\ UNCHANGED <<stored, index, tip, pool, counts>>

-----------------------------------------------------------------------------
(* put_root_block_with_fork_resolution_reporting and make_canonical *)

\* put_root_block alone.
PutRaw(w) ==
  /\ task[w].pc = "raw"
  /\ stored' = stored \cup {task[w].blk}
  /\ Stored(w)
  /\ UNCHANGED <<index, tip, weighed, pool, counts>>

PutRootBlock(w) ==
  /\ task[w].pc = "put"
  /\ stored' = stored \cup {task[w].blk}
  /\ Goto(w, "tip", task[w].blk, NoBlock, 0, 0, 0)
  /\ UNCHANGED <<index, tip, weighed, pool, counts>>

ReadTip(w) ==
  /\ task[w].pc = "tip"
  /\ Goto(w, "weigh", task[w].blk, tip, 0, 0, 0)
  /\ UNCHANGED <<stored, index, tip, weighed, pool, counts>>

\* The rest of is_heavier_than_best_tip.
Weigh(w) ==
  LET b == task[w].blk IN
  /\ task[w].pc = "weigh"
  /\ \E heavier \in Heavier(b, task[w].tip) :
       IF heavier THEN Goto(w, "walk", b, NoBlock, Height[b], 0, 0) ELSE Stored(w)
  /\ weighed' = IF Parent[b] = task[w].tip THEN weighed ELSE Memo({b, task[w].tip})
  /\ UNCHANGED <<stored, index, tip, pool, counts>>

\* make_canonical, phase 1: down the ancestry to a canonical block; a missing
\* ancestor ends it.
Walk(w) ==
  LET b == task[w].blk
      h == task[w].at
  IN  /\ task[w].pc = "walk"
      /\ \/ /\ IndexedAt(h, Chain[b][h]) \/ h = 0
            /\ Goto(w, "top", b, NoBlock, 0, h, 0)
         \/ /\ ~IndexedAt(h, Chain[b][h])
            /\ h > 0
            /\ Chain[b][h - 1] \in stored
            /\ Goto(w, "walk", b, NoBlock, h - 1, 0, 0)
         \/ /\ ~IndexedAt(h, Chain[b][h])
            /\ h > 0
            /\ Chain[b][h - 1] \notin stored
            /\ Stored(w)
      /\ UNCHANGED <<stored, index, tip, weighed, pool, counts>>

\* Phase 2: index entries above the new tip go, lowest first.
ReadTop(w) ==
  LET me == task[w] IN
  /\ me.pc = "top"
  /\ Goto(w, "cut", me.blk, NoBlock, Height[me.blk] + 1, me.fork, Latest)
  /\ UNCHANGED <<stored, index, tip, weighed, pool, counts>>

Without(h) == [k \in DOMAIN index \ {h} |-> index[k]]
With(h, b) == [k \in DOMAIN index \cup {h} |-> IF k = h THEN b ELSE index[k]]

\* Variant: the entries above the new tip stay.
CutNothing(w) ==
  LET me == task[w] IN
  /\ me.pc = "cut"
  /\ Goto(w, "assign", me.blk, NoBlock, Height[me.blk], me.fork, 0)
  /\ UNCHANGED <<stored, index, tip, weighed, pool, counts>>

Cut(w) ==
  LET me == task[w] IN
  /\ me.pc = "cut"
  /\ IF me.at <= me.top
       THEN /\ index' = Without(me.at)
            /\ Goto(w, "cut", me.blk, NoBlock, me.at + 1, me.fork, me.top)
       ELSE /\ Goto(w, "assign", me.blk, NoBlock, Height[me.blk], me.fork, 0)
            /\ UNCHANGED index
  /\ UNCHANGED <<stored, tip, weighed, pool, counts>>

\* The new chain is entered from its tip down to above the common ancestor.
Assign(w) ==
  LET me == task[w] IN
  /\ me.pc = "assign"
  /\ IF me.at > me.fork
       THEN /\ index' = With(me.at, Chain[me.blk][me.at])
            /\ Goto(w, "assign", me.blk, NoBlock, me.at - 1, me.fork, 0)
       ELSE /\ Goto(w, "settip", me.blk, NoBlock, 0, 0, 0)
            /\ UNCHANGED index
  /\ UNCHANGED <<stored, tip, weighed, pool, counts>>

SetBestTip(w) ==
  /\ task[w].pc = "settip"
  /\ tip' = task[w].blk
  /\ Stored(w)
  /\ UNCHANGED <<stored, index, weighed, pool, counts>>

-----------------------------------------------------------------------------
(* rollback_block_at_height, then the rest of the handler *)

Rollback(w) ==
  /\ task[w].pc = "rollback"
  /\ Goto(w, "detach", task[w].blk, NoBlock, Latest, 0, 0)
  /\ UNCHANGED <<stored, index, tip, weighed, pool, counts>>

\* Variant: the loop runs on past the contested height.
DetachAll(w) ==
  LET me == task[w] IN
  /\ me.pc = "detach"
  /\ IF me.at < 0
       THEN /\ Goto(w, "admit", me.blk, NoBlock, 0, 0, 0)
            /\ UNCHANGED index
       ELSE /\ index' = Without(me.at)
            /\ Goto(w, "detach", me.blk, NoBlock, me.at - 1, 0, 0)
  /\ UNCHANGED <<stored, tip, weighed, pool, counts>>

\* One height at a time, from the top: the entry goes first.
Detach(w) ==
  LET me == task[w] IN
  /\ me.pc = "detach"
  /\ IF me.at < Height[me.blk]
       THEN /\ Goto(w, "admit", me.blk, NoBlock, 0, 0, 0)
            /\ UNCHANGED index
       ELSE IF me.at \in DOMAIN index /\ index[me.at] \in stored
         THEN /\ index' = Without(me.at)
              /\ Goto(w, "retreat", me.blk, index[me.at], me.at, 0, 0)
         ELSE /\ Goto(w, "detach", me.blk, NoBlock, me.at - 1, 0, 0)
              /\ UNCHANGED index
  /\ UNCHANGED <<stored, tip, weighed, pool, counts>>

\* Variant: the tip is left on the detached block.
RetreatNot(w) ==
  /\ task[w].pc = "retreat"
  /\ Goto(w, "detach", task[w].blk, NoBlock, task[w].at - 1, 0, 0)
  /\ UNCHANGED <<stored, index, tip, weighed, pool, counts>>

\* The tip follows if it was the block detached.
Retreat(w) ==
  LET me == task[w] IN
  /\ me.pc = "retreat"
  /\ tip' = IF tip = me.tip /\ me.at - 1 \in DOMAIN index THEN index[me.at - 1] ELSE tip
  /\ Goto(w, "detach", me.blk, NoBlock, me.at - 1, 0, 0)
  /\ UNCHANGED <<stored, index, weighed, pool, counts>>

-----------------------------------------------------------------------------
(* process_orphans_for_block and process_orphan_block_data *)

\* The orphans waiting for the block just stored leave the pool; those older
\* than five minutes are dropped.
TakeOrphans(w) ==
  LET waiting == {o \in orphans : Parent[o] = task[w].blk} IN
  /\ task[w].pc = "stored"
  /\ \E fresh \in SUBSET waiting :
       todo' = [todo EXCEPT ![w] = @ \cup fresh]
  /\ orphans' = orphans \ waiting
  /\ Goto(w, "next", NoBlock, NoBlock, 0, 0, 0)
  /\ UNCHANGED <<stored, index, tip, weighed, counts>>

\* An orphan contests its height by the hash alone, and is not stored if it
\* loses.
ProcessOrphan(w) ==
  LET handle(o) == /\ todo' = [todo EXCEPT ![w] = @ \ {o}]
                   /\ UNCHANGED <<stored, index, tip, weighed, orphans, counts>>
      go(pc, o) == task' = [task EXCEPT ![w] = Call(pc, "orphan", o, NoBlock, 0, 0, 0)]
  IN  /\ task[w].pc = "next"
      /\ \E o \in todo[w] :
           /\ handle(o)
           /\ \/ Canonical(o) /\ UNCHANGED task
              \/ /\ Height[o] \in DOMAIN index /\ ~Canonical(o)
                 /\ IF HashWins(o, index[Height[o]]) /\ ~DeepForkBlocked(Height[o])
                      THEN go("rollback", o) ELSE UNCHANGED task
              \/ Height[o] \notin DOMAIN index /\ go("admit", o)

\* When none is left, old orphans of any parent are cleaned up.
FinishOrphans(w) ==
  /\ task[w].pc = "next"
  /\ todo[w] = {}
  /\ \E kept \in SUBSET orphans : orphans' = kept
  /\ Return(w)
  /\ UNCHANGED <<stored, index, tip, weighed, todo, counts>>

-----------------------------------------------------------------------------
(* The process dies; the next one runs repair_chain before anything else *)

LinkedBelow(h) ==
  \A k \in 1..h : /\ k \in DOMAIN index
                  /\ index[k] \in stored
                  /\ k > 1 => /\ Parent[index[k]] = index[k - 1]
                             /\ Parent[index[k]] \in stored

\* validate_chain
LastValid ==
  CHOOSE h \in 0..Latest : LinkedBelow(h) /\ (h < Latest => ~LinkedBelow(h + 1))

\* Where rolling back every height leaves a tip that no valid block replaces:
\* it follows the entries below it, down to the first gap.
RolledBackTip ==
  IF ~Canonical(tip) THEN tip
  ELSE index[CHOOSE k \in 0..Height[tip] :
               /\ k..Height[tip] \subseteq DOMAIN index
               /\ k > 0 => k - 1 \notin DOMAIN index]

Restart ==
  /\ crashes < MaxCrashes
  /\ crashes' = crashes + 1
  /\ index' = [h \in DOMAIN index \cap 0..LastValid |-> index[h]]
  /\ tip' = IF LastValid = Latest THEN tip
            ELSE IF LastValid > 0 THEN index[LastValid] ELSE RolledBackTip
  /\ weighed' = {}
  /\ orphans' = {}
  /\ todo' = [w \in Writers |-> {}]
  /\ task' = [w \in Writers |-> Idle]
  /\ UNCHANGED <<stored, offers, rejects>>

-----------------------------------------------------------------------------
Step(w) ==
  \/ PutRaw(w) \/ PutRootBlock(w) \/ ReadTip(w) \/ Weigh(w)
  \/ Walk(w) \/ ReadTop(w) \/ Cut(w) \/ Assign(w) \/ SetBestTip(w)
  \/ Rollback(w) \/ Detach(w) \/ Retreat(w) \/ Admit(w)
  \/ TakeOrphans(w) \/ ProcessOrphan(w) \/ FinishOrphans(w)

Next ==
  \/ \E w \in Writers, b \in Blocks : StoreHeader(w, b)
  \/ \E w \in Writers, b \in Blocks, via \in {"data", "blocks"}, c \in BOOLEAN :
       ReceiveBlock(w, b, via, c)
  \/ \E w \in Writers : AdoptHeaviestFork(w) \/ Step(w)
  \/ Restart

Spec == Init /\ [][Next]_vars

\* A call that began finishes, and the sync loop keeps asking.
FairSpec == Spec /\ \A w \in Writers : WF_vars(Step(w)) /\ WF_vars(AdoptHeaviestFork(w))

-----------------------------------------------------------------------------
(* Properties *)

\* The index maps heights to blocks, the tip is a block, and every task is at
\* one of the accesses of its call.
TypeOK ==
  /\ stored \subseteq Blocks
  /\ DOMAIN index \subseteq Nat
  /\ \A h \in DOMAIN index : index[h] \in Blocks
  /\ tip \in Blocks
  /\ weighed \subseteq Blocks
  /\ task \in [Writers -> Calls]
  /\ orphans \subseteq Blocks
  /\ todo \in [Writers -> SUBSET Blocks]
  /\ offers \in 0..MaxOffers
  /\ rejects \in 0..MaxRejects
  /\ crashes \in 0..MaxCrashes

Quiet == \A w \in Writers : task[w].pc = "idle"
Linked(b) == \A h \in 0..Height[b] : Chain[b][h] \in stored

\* Between calls the height index is the ancestry of its highest block, all of
\* it stored, through reorganisations, same-height displacements and restarts
\* at any write (make_canonical, rollback_block_at_height, repair_chain).
OneChain ==
  Quiet => index = Chain[index[Latest]] /\ Linked(index[Latest])

\* Between calls, until a restart, the best tip is the block on top of the
\* index (get_best_tip: "the block at the tip of the heaviest chain").
CanonicalTip == Quiet /\ crashes = 0 => tip = index[Latest]

\* Once blocks stop arriving, the node ends on a chain that no chain it holds
\* completely outweighs (adopt_heaviest_fork_if_any), as long as it has not
\* been restarted and weighed no block that it then refused to store.
SettlesOnHeaviest ==
  <>[](crashes = 0 /\ weighed \subseteq stored =>
         \A b \in stored : Linked(b) => Weight[b] <= Weight[tip])

\* A branch chosen for adoption is one the node holds down to genesis
\* (heaviest_adoptable_fork_tip: "fully linked").
AdoptableIsLinked == \A b \in HeaviestAdoptable : Linked(b)

FC == INSTANCE ForkChoice WITH held <- stored, best <- tip, restarts <- crashes

\* The store implements the fork choice it promises: however many accesses lie
\* between reading the tip and setting it, the tip only moves to a child, to a
\* heavier complete chain, or back one block for a rival.
ImplementsForkChoice == FC!Spec
=============================================================================
