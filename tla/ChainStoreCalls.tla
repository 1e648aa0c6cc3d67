-------------------------- MODULE ChainStoreCalls ---------------------------
(***************************************************************************)
(* The inductive invariant of ChainStore, facts about the tree of blocks, and *)
(* the accesses of a call that leave the height index alone.  One task at a *)
(* time is inside the store; with two, the properties fail (run chain_race). *)
(***************************************************************************)
EXTENDS ChainStore, TLAPS

W == CHOOSE w \in Writers : TRUE
SingleWriter == Writers = {W}
me == task[W]

-----------------------------------------------------------------------------
(* The inductive invariant: what the index is at each access of a call *)

\* The index is the chain of t, which is the tip until a restart.
Follow(t) ==
  /\ t \in Blocks
  /\ Linked(t)
  /\ index = Chain[t]
  /\ crashes = 0 => tip = t

\* The chains of t and b part above height f.
Forked(t, b, f) ==
  /\ t \in Blocks
  /\ Linked(t)
  /\ Linked(b)
  /\ f \in 0..Height[t]
  /\ f \in 0..Height[b]
  /\ \A k \in 0..f : Chain[t][k] = Chain[b][k]
  /\ \A k \in (f + 1)..Height[b] : k <= Height[t] => Chain[t][k] # Chain[b][k]
  /\ crashes = 0 => tip = t

Better(b) == Parent[b] = tip \/ Weight[b] > Weight[tip]

\* Phase 1 has come down to height h.
WalkedTo(b, h) ==
  /\ h \in 0..Height[b]
  /\ \A k \in h..Height[b] : Chain[b][k] \in stored
  /\ \A k \in (h + 1)..Height[b] : ~IndexedAt(k, Chain[b][k])

Truncated(t, b, at) ==
  [h \in {k \in 0..Height[t] : k <= Height[b] \/ k >= at} |-> Chain[t][h]]
Spliced(t, b, at) ==
  [h \in {k \in 0..Height[b] : k <= Height[t] \/ k > at} |->
     IF h > at THEN Chain[b][h] ELSE Chain[t][h]]

Whole == {"idle", "admit", "raw", "put", "tip", "weigh", "walk", "top",
          "rollback", "stored", "next"}

IndexInv ==
  /\ me.pc \in Whole => \E t \in Blocks : Follow(t)
  /\ me.pc = "walk" => WalkedTo(me.blk, me.at)
  /\ me.pc = "top" => /\ WalkedTo(me.blk, me.fork)
                      /\ IndexedAt(me.fork, Chain[me.blk][me.fork])
  /\ me.pc = "cut" => \E t \in Blocks :
       /\ Forked(t, me.blk, me.fork)
       /\ me.top = Height[t]
       /\ me.at > Height[me.blk]
       /\ index = Truncated(t, me.blk, me.at)
  /\ me.pc = "assign" => \E t \in Blocks :
       /\ Forked(t, me.blk, me.fork)
       /\ me.at \in me.fork..Height[me.blk]
       /\ index = Spliced(t, me.blk, me.at)
  /\ me.pc = "settip" => Linked(me.blk) /\ index = Chain[me.blk]
  /\ me.pc = "rollback" => \E t \in Blocks :
       Follow(t) /\ Height[t] = Height[me.blk] /\ t # me.blk
  /\ me.pc = "detach" =>
       \E t \in Blocks :
         /\ Follow(t)
         /\ \/ me.at = Height[me.blk] /\ Height[t] = me.at /\ t # me.blk
            \/ me.at = Height[me.blk] - 1
  /\ me.pc = "retreat" =>
       /\ me.at = Height[me.blk]
       /\ me.tip \in Blocks \ {me.blk}
       /\ Height[me.tip] = me.at
       /\ Linked(me.tip)
       /\ index = Chain[Parent[me.tip]]
       /\ crashes = 0 => tip = me.tip

CallInv ==
  /\ Genesis \notin orphans
  /\ Genesis \notin todo[W]
  /\ me.pc \notin {"idle", "next"} => me.blk \in Blocks \ {Genesis}
  /\ me.pc \in {"tip", "weigh", "walk"} => me.blk \in stored
  /\ me.pc = "weigh" => me.tip = tip
  /\ me.pc \in {"walk", "top", "cut", "assign", "settip"} => Better(me.blk)

TipInv == tip \in Blocks /\ Linked(tip)

ChainInv == TypeOK /\ TipInv /\ CallInv /\ IndexInv

-----------------------------------------------------------------------------
(* The tree of blocks *)

\* A chain is a function on the heights up to its block's, and the chain of a
\* member is its lower part (prev_root_hash followed down).
LEMMA ShapeFacts ==
  ASSUME NEW b \in Blocks
  PROVE  /\ Height[b] \in Nat
         /\ Chain[b] \in [0..Height[b] -> Blocks]
         /\ Chain[b][Height[b]] = b
         /\ Chain[b][0] = Genesis
         /\ \A h \in 0..Height[b] :
              /\ Chain[b][h] \in Blocks
              /\ Height[Chain[b][h]] = h
              /\ \A k \in 0..h : Chain[Chain[b][h]][k] = Chain[b][k]
<1>1. Height[b] \in Nat
  BY ChainConstants
<1>2. Chain[b] \in [0..Height[b] -> Blocks] /\ Chain[b][Height[b]] = b
  BY ChainShape
<1>3. \A h \in 0..Height[b] : Chain[b][h] \in Blocks
  BY <1>2, ZenonT(60)
<1>4. \A h \in 0..Height[b] :
        Height[Chain[b][h]] = h /\ \A k \in 0..h : Chain[Chain[b][h]][k] = Chain[b][k]
  BY ChainShape
<1>5. Chain[b][0] = Genesis
  <2>1. 0 \in 0..Height[b]
    BY <1>1
  <2>2. Chain[b][0] \in Blocks /\ Height[Chain[b][0]] = 0
    BY <2>1, <1>3, <1>4
  <2> QED
    BY <2>2, ChainShape
<1> QED
  BY <1>1, <1>2, <1>3, <1>4, <1>5

\* The lower part of a chain is the chain of the block it ends with.
LEMMA MemberChain ==
  ASSUME NEW b \in Blocks, NEW h \in 0..Height[b]
  PROVE  Chain[Chain[b][h]] = [k \in 0..h |-> Chain[b][k]]
<1>1. /\ Chain[b][h] \in Blocks
      /\ Height[Chain[b][h]] = h
      /\ \A k \in 0..h : Chain[Chain[b][h]][k] = Chain[b][k]
  BY ShapeFacts
<1>2. Chain[Chain[b][h]] \in [0..h -> Blocks]
  BY <1>1, ShapeFacts
<1> QED
  BY <1>1, <1>2

\* The parent of a block, and its chain.
LEMMA ParentFacts ==
  ASSUME NEW b \in Blocks, b # Genesis
  PROVE  /\ Height[b] >= 1
         /\ Parent[b] \in Blocks
         /\ Height[Parent[b]] = Height[b] - 1
         /\ Chain[b][Height[b] - 1] = Parent[b]
         /\ Chain[Parent[b]] = [k \in 0..(Height[b] - 1) |-> Chain[b][k]]
<1>1. Height[b] \in Nat /\ Height[b] # 0
  BY ChainConstants, ChainShape
<1>2. Parent[b] \in Blocks
  BY ChainConstants, ChainShape
<1>3. Height[b] = Height[Parent[b]] + 1 /\ Height[Parent[b]] \in Nat
  BY <1>2, ChainConstants, ChainShape
<1>4. Height[Parent[b]] \in 0..Height[Parent[b]]
  BY <1>3
<1>5. Chain[b][Height[Parent[b]]] = Chain[Parent[b]][Height[Parent[b]]]
  BY <1>4, ChainShape
<1>6. Chain[b][Height[Parent[b]]] = Parent[b]
  BY <1>2, <1>5, ShapeFacts
<1>7. Height[Parent[b]] = Height[b] - 1 /\ Height[b] - 1 \in 0..Height[b]
  BY <1>1, <1>3
<1>8. Chain[b][Height[b] - 1] = Parent[b]
  BY <1>6, <1>7
<1>9. Chain[Parent[b]] = [k \in 0..(Height[b] - 1) |-> Chain[b][k]]
  BY <1>7, <1>8, MemberChain, ZenonT(60)
<1> QED
  BY <1>1, <1>2, <1>7, <1>8, <1>9

\* A member's parent is the member below it.
LEMMA ParentBelow ==
  ASSUME NEW b \in Blocks, NEW h \in 1..Height[b]
  PROVE  Parent[Chain[b][h]] = Chain[b][h - 1]
<1>1. Height[b] \in Nat
  BY ShapeFacts
<1>2. h - 1 \in 0..h /\ h \in 0..Height[b] /\ h # 0
  BY <1>1
<1>3. Chain[b][h] \in Blocks /\ Height[Chain[b][h]] = h
  BY <1>2, ShapeFacts
<1>4. Chain[b][h] # Genesis
  BY <1>2, <1>3, ChainShape
<1>5. Chain[Chain[b][h]][h - 1] = Parent[Chain[b][h]]
  BY <1>3, <1>4, ParentFacts, ZenonT(60)
<1>6. Chain[Chain[b][h]][h - 1] = Chain[b][h - 1]
  <2>1. \A k \in 0..h : Chain[Chain[b][h]][k] = Chain[b][k]
    BY <1>2, ShapeFacts, ZenonT(60)
  <2> QED
    BY <1>2, <2>1, ZenonT(60)
<1> QED
  BY <1>5, <1>6

\* What is held of a chain is held of each of its members' chains.
LEMMA LinkedMember ==
  ASSUME NEW b \in Blocks, Linked(b), NEW h \in 0..Height[b]
  PROVE  /\ Linked(Chain[b][h])
         /\ Chain[b][h] \in Blocks \cap stored
<1>1. Height[b] \in Nat
  BY ShapeFacts
<1>2. ASSUME NEW k \in 0..h PROVE Chain[Chain[b][h]][k] \in stored
  <2>1. k \in 0..Height[b]
    BY <1>1
  <2> QED
    BY <2>1, ShapeFacts DEF Linked
<1>3. Chain[b][h] \in Blocks /\ Height[Chain[b][h]] = h
  BY ShapeFacts
<1> QED
  BY <1>2, <1>3 DEF Linked

\* get_latest_height is the greatest height in the index.
LEMMA LatestIs ==
  ASSUME DOMAIN index \subseteq Nat, NEW m \in DOMAIN index,
         \A k \in DOMAIN index : k <= m
  PROVE  Latest = m
<1>1. \A h \in DOMAIN index : (\A k \in DOMAIN index : k <= h) => h = m
  OBVIOUS
<1> QED
  BY <1>1 DEF Latest

\* The latest height of an index that is one chain is its block's.
LEMMA FollowLatest ==
  ASSUME NEW t \in Blocks, index = Chain[t]
  PROVE  /\ DOMAIN index = 0..Height[t]
         /\ Latest = Height[t]
         /\ index[Latest] = t
<1>1. Height[t] \in Nat /\ DOMAIN index = 0..Height[t] /\ index[Height[t]] = t
  BY ShapeFacts
<1>2. Latest = Height[t]
  BY <1>1, LatestIs
<1> QED
  BY <1>1, <1>2

-----------------------------------------------------------------------------
(* Steps of a call *)

\* A step of the only writer replaces its record.
LEMMA Moves ==
  ASSUME SingleWriter, TypeOK, NEW r \in Calls, task' = [task EXCEPT ![W] = r]
  PROVE  me' = r /\ task' \in [Writers -> Calls]
BY DEF SingleWriter, TypeOK, me

\* A call's record has the fields it is made of.
LEMMA CallTyped ==
  ASSUME NEW pc \in PCs, NEW via \in Callers, NEW b \in Blocks \cup {NoBlock},
         NEW t \in Blocks \cup {NoBlock}, NEW at \in Nat, NEW fork \in Nat, NEW top \in Nat
  PROVE  /\ Call(pc, via, b, t, at, fork, top) \in Calls
         /\ Call(pc, via, b, t, at, fork, top).pc = pc
         /\ Call(pc, via, b, t, at, fork, top).via = via
         /\ Call(pc, via, b, t, at, fork, top).blk = b
         /\ Call(pc, via, b, t, at, fork, top).tip = t
         /\ Call(pc, via, b, t, at, fork, top).at = at
         /\ Call(pc, via, b, t, at, fork, top).fork = fork
         /\ Call(pc, via, b, t, at, fork, top).top = top
BY DEF Call, Calls

\* The writer's record is a call.
LEMMA MeTyped ==
  ASSUME SingleWriter, TypeOK
  PROVE  /\ me \in Calls /\ me.pc \in PCs /\ me.via \in Callers
         /\ me.blk \in Blocks \cup {NoBlock} /\ me.tip \in Blocks \cup {NoBlock}
         /\ me.at \in Nat /\ me.fork \in Nat /\ me.top \in Nat
         /\ W \in Writers
<1>1. me \in Calls /\ W \in Writers
  BY DEF SingleWriter, TypeOK, me
<1> QED
  BY <1>1 DEF Calls

\* Each way on sets the writer's record and nothing else of the task.
LEMMA GotoMoves ==
  ASSUME SingleWriter, TypeOK, NEW pc \in PCs, NEW b \in Blocks \cup {NoBlock},
         NEW t \in Blocks \cup {NoBlock}, NEW at \in Nat, NEW fork \in Nat, NEW top \in Nat,
         Goto(W, pc, b, t, at, fork, top)
  PROVE  /\ task' \in [Writers -> Calls]
         /\ me'.pc = pc /\ me'.via = me.via /\ me'.blk = b /\ me'.tip = t
         /\ me'.at = at /\ me'.fork = fork /\ me'.top = top
<1>1. task' = [task EXCEPT ![W] = Call(pc, me.via, b, t, at, fork, top)]
  BY DEF Goto, me
<1>2. me.via \in Callers
  BY MeTyped
<1>3. Call(pc, me.via, b, t, at, fork, top) \in Calls
  BY <1>2, CallTyped, ZenonT(60)
<1>4. me' = Call(pc, me.via, b, t, at, fork, top) /\ task' \in [Writers -> Calls]
  BY <1>1, <1>3, Moves, ZenonT(60)
<1> QED
  BY <1>4 DEF Call

\* A call begins from idle.
LEMMA BeginMoves ==
  ASSUME SingleWriter, TypeOK, NEW pc \in PCs, NEW via \in Callers, NEW b \in Blocks,
         Begin(W, via, pc, b)
  PROVE  /\ task' \in [Writers -> Calls]
         /\ me.pc = "idle"
         /\ me'.pc = pc /\ me'.via = via /\ me'.blk = b
<1>1. Call(pc, via, b, NoBlock, 0, 0, 0) \in Calls
  BY CallTyped, ZenonT(60)
<1>2. me' = Call(pc, via, b, NoBlock, 0, 0, 0) /\ task' \in [Writers -> Calls]
  BY <1>1, Moves, ZenonT(60) DEF Begin
<1>3. me.pc = "idle"
  BY DEF Begin, me
<1> QED
  BY <1>2, <1>3 DEF Call

\* A call that returns is idle.
LEMMA ReturnMoves ==
  ASSUME SingleWriter, TypeOK, Return(W)
  PROVE  task' \in [Writers -> Calls] /\ me'.pc = "idle"
<1>1. Idle \in Calls /\ Idle.pc = "idle"
  <2>1. "idle" \in PCs /\ "none" \in Callers /\ NoBlock \in Blocks \cup {NoBlock} /\ 0 \in Nat
    BY DEF PCs, Callers
  <2> QED
    BY <2>1, SMTT(60) DEF Idle, Call, Calls
<1> QED
  BY <1>1, Moves, ZenonT(60) DEF Return

\* After resolving a block, or giving it up, a call is back at rest.
LEMMA StoredMoves ==
  ASSUME SingleWriter, TypeOK, Stored(W)
  PROVE  /\ task' \in [Writers -> Calls]
         /\ me'.pc \in {"idle", "stored"}
         /\ me'.pc = "stored" => me'.blk = me.blk
<1>1. CASE me.via \in {"data", "blocks", "orphan"}
  <2>1. Goto(W, "stored", me.blk, NoBlock, 0, 0, 0)
    BY <1>1 DEF Stored, me
  <2> QED
    BY <2>1, GotoMoves, MeTyped, ZenonT(60) DEF PCs
<1>2. CASE me.via \notin {"data", "blocks", "orphan"}
  <2>1. Return(W)
    BY <1>2 DEF Stored, me
  <2> QED
    BY <2>1, ReturnMoves
<1> QED
  BY <1>1, <1>2

\* A call that gives its block up is idle, or at its next orphan.
LEMMA AbandonMoves ==
  ASSUME SingleWriter, TypeOK, Abandon(W)
  PROVE  task' \in [Writers -> Calls] /\ me'.pc \in {"idle", "next"}
<1>1. CASE me.via = "orphan"
  <2>1. Goto(W, "next", NoBlock, NoBlock, 0, 0, 0)
    BY <1>1 DEF Abandon, me
  <2> QED
    BY <2>1, GotoMoves, ZenonT(60) DEF PCs
<1>2. CASE me.via # "orphan"
  <2>1. Return(W)
    BY <1>2 DEF Abandon, me
  <2> QED
    BY <2>1, ReturnMoves
<1> QED
  BY <1>1, <1>2

\* What is held of a chain stays held: no block leaves the store.
LEMMA LinkedGrows ==
  ASSUME NEW b, Linked(b), stored \subseteq stored'
  PROVE  Linked(b)'
BY DEF Linked

\* Storing more blocks leaves the followed chain followed.
LEMMA FollowKept ==
  ASSUME NEW t, Follow(t), stored \subseteq stored', UNCHANGED <<index, tip, crashes>>
  PROVE  Follow(t)'
BY LinkedGrows DEF Follow

\* Storing more blocks leaves the tip complete.
LEMMA TipKept ==
  ASSUME TipInv, stored \subseteq stored', UNCHANGED tip
  PROVE  TipInv'
BY DEF TipInv, Linked

\* A step that only stores blocks and keeps its books leaves the index whole.
LEMMA RestStep ==
  ASSUME ChainInv, TypeOK', CallInv',
         \E t \in Blocks : Follow(t),
         stored \subseteq stored', UNCHANGED <<index, tip, crashes>>,
         me'.pc \in {"idle", "admit", "raw", "put", "tip", "weigh", "stored", "next"}
  PROVE  ChainInv'
<1>1. \E t \in Blocks : Follow(t)'
  BY FollowKept, ZenonT(60)
<1>2. IndexInv'
  BY <1>1 DEF IndexInv
<1>3. TipInv'
  BY TipKept, ZenonT(60) DEF ChainInv
<1> QED
  BY <1>2, <1>3 DEF ChainInv

\* Outside make_canonical and the rollback the index is one chain.
LEMMA WholeFollows ==
  ASSUME ChainInv, me.pc \in Whole
  PROVE  \E t \in Blocks : Follow(t)
BY DEF ChainInv, IndexInv

\* The memo holds blocks.
LEMMA MemoType ==
  ASSUME TypeOK, NEW B, B \subseteq Blocks
  PROVE  Memo(B) \subseteq Blocks
<1>1. \A b \in B : \A h \in 0..Height[b] : Chain[b][h] \in Blocks
  BY ShapeFacts
<1>2. \A b \in B : Ancestors(b) \subseteq Blocks
  BY <1>1 DEF Ancestors
<1> QED
  BY <1>2, ZenonT(60) DEF Memo, TypeOK

\* The seeded genesis block is held.
LEMMA GenesisStored ==
  ASSUME TipInv
  PROVE  Genesis \in stored
<1>1. Height[tip] \in Nat /\ Chain[tip][0] = Genesis
  BY ShapeFacts DEF TipInv
<1>2. 0 \in 0..Height[tip]
  BY <1>1
<1> QED
  BY <1>1, <1>2, ZenonT(60) DEF TipInv, Linked

\* handle_headers and formation begin a call and write nothing.
LEMMA StoreHeaderStep ==
  ASSUME SingleWriter, ChainInv, NEW b \in Blocks, StoreHeader(W, b)
  PROVE  ChainInv'
<1>1. TypeOK /\ TipInv /\ CallInv
  BY ZenonT(60) DEF ChainInv
<1>2. /\ task' \in [Writers -> Calls] /\ me.pc = "idle"
      /\ me'.pc = "put" /\ me'.blk = b
  BY <1>1, BeginMoves DEF StoreHeader, PCs, Callers
<1>3. PICK t \in Blocks : Follow(t)
  BY <1>2, WholeFollows DEF Whole
<1>4. b # Genesis
  <2>1. Latest = Height[t] /\ Height[t] \in Nat
    BY <1>3, FollowLatest, ShapeFacts, ZenonT(60) DEF Follow
  <2>2. Height[Genesis] = 0
    BY ChainConstants, ChainShape
  <2> QED
    BY <1>1, <2>1, <2>2, GenesisStored DEF StoreHeader
<1>5. TypeOK'
  BY <1>1, <1>2, ChainConstants DEF TypeOK, StoreHeader, pool
<1>6. CallInv'
  BY <1>1, <1>2, <1>4 DEF CallInv, StoreHeader, pool
<1> QED
  BY <1>2, <1>3, <1>5, <1>6, RestStep DEF StoreHeader

\* The adoption pass begins a call for a branch end.
LEMMA AdoptStep ==
  ASSUME SingleWriter, ChainInv, AdoptHeaviestFork(W)
  PROVE  ChainInv'
<1>1. TypeOK /\ TipInv /\ CallInv /\ me.pc = "idle"
  BY DEF ChainInv, AdoptHeaviestFork, me
<1>2. PICK t \in Blocks : Follow(t)
  BY <1>1, WholeFollows, ZenonT(60) DEF Whole
<1>3. ForkBranchTips \subseteq stored /\ HeaviestAdoptable \subseteq OffIndex
  BY ZenonT(60) DEF ForkBranchTips, HeaviestAdoptable, OffIndex
<1>4. weighed' \subseteq Blocks
  BY <1>1, <1>3, MemoType, ZenonT(60) DEF AdoptHeaviestFork, TypeOK, TipInv
<1>5. Genesis \notin OffIndex
  <2>1. Height[Genesis] = 0 /\ Height[t] \in Nat /\ Chain[t][0] = Genesis
    BY ChainConstants, ChainShape, ShapeFacts, ZenonT(60)
  <2>2. DOMAIN index = 0..Height[t]
    BY <1>2, FollowLatest, ZenonT(60) DEF Follow
  <2> QED
    BY <1>2, <2>1, <2>2 DEF OffIndex, Canonical, IndexedAt, Follow
<1>6. CASE \E b \in HeaviestAdoptable : Begin(W, "adopt", "put", b)
  <2>1. PICK b \in HeaviestAdoptable : Begin(W, "adopt", "put", b)
    BY <1>6
  <2>2. b \in Blocks \ {Genesis}
    BY <1>1, <1>3, <1>5, ZenonT(60) DEF OffIndex, TypeOK
  <2>3. task' \in [Writers -> Calls] /\ me'.pc = "put" /\ me'.blk = b
    BY <1>1, <2>1, <2>2, BeginMoves DEF PCs, Callers
  <2>4. TypeOK'
    BY <1>1, <1>4, <2>3, ZenonT(60) DEF TypeOK, AdoptHeaviestFork, pool, counts
  <2>5. CallInv'
    BY <1>1, <2>2, <2>3, ZenonT(60) DEF CallInv, AdoptHeaviestFork, pool
  <2> QED
    BY <1>2, <2>3, <2>4, <2>5, RestStep, ZenonT(60) DEF AdoptHeaviestFork, counts
<1>7. CASE UNCHANGED task
  <2>1. TypeOK'
    BY <1>1, <1>4, <1>7, ZenonT(60) DEF TypeOK, AdoptHeaviestFork, pool, counts
  <2>2. me' = me
    BY <1>7 DEF me
  <2>3. CallInv'
    BY <1>1, <2>2 DEF CallInv, AdoptHeaviestFork, pool
  <2> QED
    BY <1>1, <1>2, <2>1, <2>2, <2>3, RestStep, ZenonT(60) DEF AdoptHeaviestFork, counts
<1> QED
  BY <1>6, <1>7 DEF AdoptHeaviestFork

\* put_root_block of a block that lost its height.
LEMMA PutRawStep ==
  ASSUME SingleWriter, ChainInv, PutRaw(W)
  PROVE  ChainInv'
<1>1. TypeOK /\ TipInv /\ CallInv /\ me.pc = "raw"
  BY DEF ChainInv, PutRaw, me
<1>2. me.blk \in Blocks \ {Genesis} /\ stored' = stored \cup {me.blk}
  BY <1>1 DEF CallInv, PutRaw, me
<1>3. /\ task' \in [Writers -> Calls] /\ me'.pc \in {"idle", "stored"}
      /\ me'.pc = "stored" => me'.blk = me.blk
  BY <1>1, StoredMoves, ZenonT(60) DEF PutRaw
<1>4. TypeOK'
  BY <1>1, <1>2, <1>3, ZenonT(60) DEF TypeOK, PutRaw, pool, counts
<1>5. CallInv'
  BY <1>1, <1>2, <1>3 DEF CallInv, PutRaw, pool
<1>6. \E t \in Blocks : Follow(t)
  BY <1>1, WholeFollows, ZenonT(60) DEF Whole
<1> QED
  BY <1>2, <1>3, <1>4, <1>5, <1>6, RestStep DEF PutRaw, counts

\* put_root_block before fork resolution.
LEMMA PutRootBlockStep ==
  ASSUME SingleWriter, ChainInv, PutRootBlock(W)
  PROVE  ChainInv'
<1>1. TypeOK /\ TipInv /\ CallInv /\ me.pc = "put"
  BY ZenonT(60) DEF ChainInv, PutRootBlock, me
<1>2. me.blk \in Blocks \ {Genesis} /\ stored' = stored \cup {me.blk}
  BY <1>1 DEF CallInv, PutRootBlock, me
<1>3. Goto(W, "tip", me.blk, NoBlock, 0, 0, 0)
  BY DEF PutRootBlock, me
<1>4. task' \in [Writers -> Calls] /\ me'.pc = "tip" /\ me'.blk = me.blk
  <2>1. "tip" \in PCs /\ me.blk \in Blocks \cup {NoBlock} /\ NoBlock \in Blocks \cup {NoBlock}
    BY <1>1, MeTyped DEF PCs
  <2> QED
    BY <1>1, <1>3, <2>1, GotoMoves, ZenonT(60)
<1>5. TypeOK'
  BY <1>1, <1>2, <1>4, ZenonT(60) DEF TypeOK, PutRootBlock, pool, counts
<1>6. CallInv'
  BY <1>1, <1>2, <1>4 DEF CallInv, PutRootBlock, pool
<1>7. \E t \in Blocks : Follow(t)
  BY <1>1, WholeFollows, ZenonT(60) DEF Whole
<1> QED
  BY <1>2, <1>4, <1>5, <1>6, <1>7, RestStep, ZenonT(60) DEF PutRootBlock, counts

\* The tip that is_heavier_than_best_tip reads is the tip.
LEMMA ReadTipStep ==
  ASSUME SingleWriter, ChainInv, ReadTip(W)
  PROVE  ChainInv'
<1>1. TypeOK /\ TipInv /\ CallInv /\ me.pc = "tip"
  BY DEF ChainInv, ReadTip, me
<1>2. me.blk \in Blocks \ {Genesis} /\ me.blk \in stored /\ tip \in Blocks
  BY <1>1 DEF CallInv, TipInv
<1>3. Goto(W, "weigh", me.blk, tip, 0, 0, 0)
  BY ZenonT(60) DEF ReadTip, me
<1>4. task' \in [Writers -> Calls] /\ me'.pc = "weigh" /\ me'.blk = me.blk /\ me'.tip = tip
  BY <1>1, <1>2, <1>3, GotoMoves DEF PCs
<1>5. TypeOK'
  BY <1>1, <1>4, ZenonT(60) DEF TypeOK, ReadTip, pool, counts
<1>6. CallInv'
  BY <1>1, <1>2, <1>4 DEF CallInv, ReadTip, pool
<1>7. \E t \in Blocks : Follow(t)
  BY <1>1, WholeFollows, ZenonT(60) DEF Whole
<1> QED
  BY <1>4, <1>5, <1>6, <1>7, RestStep, ZenonT(60) DEF ReadTip, counts

\* A same-height displacement begins only against the top of the index.
LEMMA RivalStep ==
  ASSUME ChainInv, TypeOK', CallInv', UNCHANGED <<stored, index, tip, crashes>>,
         me'.pc = "rollback", NEW b \in Blocks, me'.blk = b,
         NEW t \in Blocks, Follow(t),
         Height[b] \in DOMAIN index, index[Height[b]] # b, ~DeepForkBlocked(Height[b])
  PROVE  ChainInv'
<1>1. /\ Height[b] \in Nat /\ Height[t] \in Nat
      /\ DOMAIN index = 0..Height[t] /\ Latest = Height[t] /\ index[Latest] = t
  BY FollowLatest, ShapeFacts, ZenonT(60) DEF Follow
<1>2. Height[t] = Height[b] /\ t # b
  BY <1>1 DEF DeepForkBlocked
<1>3. Follow(t)'
  BY FollowKept, ZenonT(60)
<1>4. IndexInv'
  BY <1>2, <1>3, ZenonT(60) DEF IndexInv
<1>5. TipInv'
  BY TipKept, ZenonT(60) DEF ChainInv
<1> QED
  BY <1>4, <1>5, ZenonT(60) DEF ChainInv

\* The early checks of the handlers write nothing but the memo.
LEMMA ReceiveBlockStep ==
  ASSUME SingleWriter, ChainInv, NEW b \in Blocks, NEW via \in {"data", "blocks"},
         NEW counted \in BOOLEAN, ReceiveBlock(W, b, via, counted)
  PROVE  ChainInv'
<1>1. TypeOK /\ TipInv /\ CallInv /\ b # Genesis /\ via \in Callers
  BY ZenonT(60) DEF ChainInv, ReceiveBlock, Callers
<1>2. me.pc = "idle"
  BY DEF ReceiveBlock, Begin, me
<1>3. PICK t \in Blocks : Follow(t)
  BY <1>2, WholeFollows DEF Whole
<1>4. weighed' \subseteq Blocks
  <2>1. CASE Height[b] \in DOMAIN index /\ index[Height[b]] # b
    <3>1. index[Height[b]] \in Blocks
      BY <1>1, <2>1, ZenonT(60) DEF TypeOK
    <3>2. Memo({b, index[Height[b]]}) \subseteq Blocks
      BY <1>1, <3>1, MemoType, ZenonT(60)
    <3> QED
      BY <2>1, <3>2, ZenonT(60) DEF ReceiveBlock
  <2>2. CASE ~(Height[b] \in DOMAIN index /\ index[Height[b]] # b)
    BY <1>1, <2>2, ZenonT(60) DEF ReceiveBlock, TypeOK
  <2> QED
    BY <2>1, <2>2, ZenonT(60)
<1>5. offers' \in 0..MaxOffers /\ UNCHANGED <<stored, index, tip, pool, rejects, crashes>>
  BY <1>1, ChainConstants DEF ReceiveBlock, TypeOK
<1>6. ASSUME NEW pc \in {"raw", "rollback", "admit"}, Begin(W, via, pc, b)
      PROVE  TypeOK' /\ CallInv' /\ me'.pc = pc /\ me'.blk = b
  <2>1. pc \in PCs
    BY DEF PCs
  <2>2. task' \in [Writers -> Calls] /\ me'.pc = pc /\ me'.blk = b
    BY <1>1, <1>6, <2>1, BeginMoves, ZenonT(60)
  <2>3. TypeOK'
    BY <1>1, <1>4, <1>5, <2>2, ZenonT(60) DEF TypeOK, pool
  <2>4. CallInv'
    BY <1>1, <1>5, <2>2 DEF CallInv, pool
  <2> QED
    BY <2>2, <2>3, <2>4
<1>7. CASE Begin(W, via, "raw", b) \/ Begin(W, via, "admit", b)
  BY <1>3, <1>5, <1>6, <1>7, RestStep, ZenonT(60)
<1>8. CASE /\ Height[b] \in DOMAIN index /\ index[Height[b]] # b
           /\ ~DeepForkBlocked(Height[b])
           /\ Begin(W, via, "rollback", b)
  BY <1>3, <1>5, <1>6, <1>8, RivalStep, ZenonT(60)
<1> QED
  BY <1>7, <1>8, ZenonT(60) DEF ReceiveBlock

\* The rest of the handler touches the orphan pool only.
LEMMA AdmitStep ==
  ASSUME SingleWriter, ChainInv, Admit(W)
  PROVE  ChainInv'
<1>1. TypeOK /\ TipInv /\ CallInv /\ me.pc = "admit"
  BY DEF ChainInv, Admit, me
<1>2. me.blk \in Blocks \ {Genesis} /\ tip \in Blocks
  BY <1>1 DEF CallInv, TipInv
<1>3. PICK t \in Blocks : Follow(t)
  BY <1>1, WholeFollows, ZenonT(60) DEF Whole
<1>4. UNCHANGED <<stored, index, tip, todo, offers, crashes>>
  BY DEF Admit
<1>5. CASE orphans' = orphans \cup {me.blk} /\ Abandon(W) /\ UNCHANGED <<weighed, rejects>>
  <2>1. task' \in [Writers -> Calls] /\ me'.pc \in {"idle", "next"}
    BY <1>1, <1>5, AbandonMoves, ZenonT(60)
  <2>2. TypeOK'
    BY <1>1, <1>2, <1>4, <1>5, <2>1, ZenonT(60) DEF TypeOK
  <2>3. CallInv'
    BY <1>1, <1>2, <1>4, <1>5, <2>1, ZenonT(60) DEF CallInv
  <2> QED
    BY <1>3, <1>4, <2>1, <2>2, <2>3, RestStep
<1>6. ASSUME weighed' = IF me.via = "data" THEN Memo({me.blk, tip}) ELSE weighed
      PROVE  weighed' \subseteq Blocks
  BY <1>1, <1>2, <1>6, MemoType DEF TypeOK
<1>7. CASE /\ weighed' = IF me.via = "data" THEN Memo({me.blk, tip}) ELSE weighed
           /\ Goto(W, "put", me.blk, NoBlock, 0, 0, 0)
           /\ UNCHANGED <<rejects, orphans>>
  <2>1. "put" \in PCs /\ me.blk \in Blocks \cup {NoBlock} /\ NoBlock \in Blocks \cup {NoBlock}
    BY <1>2 DEF PCs
  <2>2. task' \in [Writers -> Calls] /\ me'.pc = "put" /\ me'.blk = me.blk
    BY <1>1, <1>7, <2>1, GotoMoves, ZenonT(60)
  <2>3. TypeOK'
    BY <1>1, <1>4, <1>6, <1>7, <2>2, ZenonT(60) DEF TypeOK
  <2>4. CallInv'
    BY <1>1, <1>2, <1>4, <1>7, <2>2 DEF CallInv
  <2> QED
    BY <1>3, <1>4, <2>2, <2>3, <2>4, RestStep
<1>8. CASE /\ weighed' = IF me.via = "data" THEN Memo({me.blk, tip}) ELSE weighed
           /\ rejects < MaxRejects /\ rejects' = rejects + 1
           /\ Return(W)
           /\ UNCHANGED orphans
  <2>1. task' \in [Writers -> Calls] /\ me'.pc = "idle"
    BY <1>1, <1>8, ReturnMoves, ZenonT(60)
  <2>2. rejects' \in 0..MaxRejects
    BY <1>1, <1>8, ChainConstants, SMTT(60) DEF TypeOK
  <2>3. TypeOK'
    BY <1>1, <1>4, <1>6, <1>8, <2>1, <2>2, ZenonT(60) DEF TypeOK
  <2>4. CallInv'
    BY <1>1, <1>4, <1>8, <2>1, ZenonT(60) DEF CallInv
  <2> QED
    BY <1>3, <1>4, <2>1, <2>3, <2>4, RestStep
<1> QED
  BY <1>5, <1>7, <1>8, ZenonT(60) DEF Admit, me

\* Orphans leave the pool; genesis is never among them.
LEMMA TakeOrphansStep ==
  ASSUME SingleWriter, ChainInv, TakeOrphans(W)
  PROVE  ChainInv'
<1>1. TypeOK /\ TipInv /\ CallInv /\ me.pc = "stored" /\ W \in Writers
  BY DEF ChainInv, TakeOrphans, me, SingleWriter
<1>2. \E t \in Blocks : Follow(t)
  BY <1>1, WholeFollows, ZenonT(60) DEF Whole
<1>3. UNCHANGED <<stored, index, tip, weighed, counts>> /\ orphans' \subseteq orphans
  BY DEF TakeOrphans
<1>4. PICK fresh \in SUBSET orphans : todo' = [todo EXCEPT ![W] = todo[W] \cup fresh]
  BY ZenonT(60) DEF TakeOrphans
<1>5. todo' \in [Writers -> SUBSET Blocks] /\ todo'[W] = todo[W] \cup fresh
  BY <1>1, <1>4, ZenonT(60) DEF TypeOK
<1>6. "next" \in PCs /\ NoBlock \in Blocks \cup {NoBlock} /\ Goto(W, "next", NoBlock, NoBlock, 0, 0, 0)
  BY DEF PCs, TakeOrphans
<1>7. task' \in [Writers -> Calls] /\ me'.pc = "next"
  BY <1>1, <1>6, GotoMoves, ZenonT(60)
<1>8. TypeOK'
  BY <1>1, <1>3, <1>5, <1>7, ZenonT(60) DEF TypeOK, counts
<1>9. CallInv'
  BY <1>1, <1>3, <1>5, <1>7 DEF CallInv
<1> QED
  BY <1>2, <1>3, <1>7, <1>8, <1>9, RestStep, ZenonT(60) DEF counts

\* The cascade ends at rest.
LEMMA FinishOrphansStep ==
  ASSUME SingleWriter, ChainInv, FinishOrphans(W)
  PROVE  ChainInv'
<1>1. TypeOK /\ TipInv /\ CallInv /\ me.pc = "next"
  BY DEF ChainInv, FinishOrphans, me
<1>2. \E t \in Blocks : Follow(t)
  BY <1>1, WholeFollows DEF Whole
<1>3. UNCHANGED <<stored, index, tip, weighed, todo, counts>> /\ orphans' \subseteq orphans
  BY DEF FinishOrphans
<1>4. task' \in [Writers -> Calls] /\ me'.pc = "idle"
  BY <1>1, ReturnMoves DEF FinishOrphans
<1>5. TypeOK'
  BY <1>1, <1>3, <1>4, ZenonT(60) DEF TypeOK, counts
<1>6. CallInv'
  BY <1>1, <1>3, <1>4, ZenonT(60) DEF CallInv
<1> QED
  BY <1>2, <1>3, <1>4, <1>5, <1>6, RestStep DEF counts

\* An orphan displaces only a tip of its own height.
LEMMA ProcessOrphanStep ==
  ASSUME SingleWriter, ChainInv, ProcessOrphan(W)
  PROVE  ChainInv'
<1>1. TypeOK /\ TipInv /\ CallInv /\ me.pc = "next" /\ W \in Writers
  BY DEF ChainInv, ProcessOrphan, me, SingleWriter
<1>2. PICK t \in Blocks : Follow(t)
  BY <1>1, WholeFollows DEF Whole
<1>3. PICK o \in todo[W] :
        /\ todo' = [todo EXCEPT ![W] = todo[W] \ {o}]
        /\ UNCHANGED <<stored, index, tip, weighed, orphans, counts>>
        /\ \/ UNCHANGED task
           \/ /\ Height[o] \in DOMAIN index /\ ~Canonical(o) /\ ~DeepForkBlocked(Height[o])
              /\ task' = [task EXCEPT ![W] = Call("rollback", "orphan", o, NoBlock, 0, 0, 0)]
           \/ task' = [task EXCEPT ![W] = Call("admit", "orphan", o, NoBlock, 0, 0, 0)]
  BY ZenonT(60) DEF ProcessOrphan
<1>4. o \in Blocks \ {Genesis}
  BY <1>1, ZenonT(60) DEF CallInv, TypeOK
<1>5. todo' \in [Writers -> SUBSET Blocks] /\ todo'[W] \subseteq todo[W]
  BY <1>1, <1>3 DEF TypeOK
<1>6. CASE UNCHANGED task
  <2>1. me' = me
    BY <1>6, ZenonT(60) DEF me
  <2>2. TypeOK'
    BY <1>1, <1>3, <1>5, <1>6, SMTT(60) DEF TypeOK, counts
  <2>3. CallInv'
    BY <1>1, <1>3, <1>5, <2>1, ZenonT(60) DEF CallInv
  <2> QED
    BY <1>1, <1>2, <1>3, <2>1, <2>2, <2>3, RestStep, ZenonT(60) DEF counts
<1>7. ASSUME NEW pc \in {"rollback", "admit"},
             task' = [task EXCEPT ![W] = Call(pc, "orphan", o, NoBlock, 0, 0, 0)]
      PROVE  TypeOK' /\ CallInv' /\ me'.pc = pc /\ me'.blk = o
  <2>1. Call(pc, "orphan", o, NoBlock, 0, 0, 0) \in Calls
    BY <1>4 DEF Call, Calls, PCs, Callers
  <2>2. me' = Call(pc, "orphan", o, NoBlock, 0, 0, 0) /\ task' \in [Writers -> Calls]
    BY <1>1, <1>7, <2>1, Moves, ZenonT(60)
  <2>3. me'.pc = pc /\ me'.blk = o
    BY <2>2, ZenonT(60) DEF Call
  <2>4. TypeOK'
    BY <1>1, <1>3, <1>5, <2>2 DEF TypeOK, counts
  <2>5. CallInv'
    BY <1>1, <1>3, <1>4, <1>5, <2>3, ZenonT(60) DEF CallInv
  <2> QED
    BY <2>3, <2>4, <2>5, ZenonT(60)
<1>8. CASE task' = [task EXCEPT ![W] = Call("admit", "orphan", o, NoBlock, 0, 0, 0)]
  BY <1>2, <1>3, <1>7, <1>8, RestStep, ZenonT(60) DEF counts
<1>9. CASE /\ Height[o] \in DOMAIN index /\ ~Canonical(o) /\ ~DeepForkBlocked(Height[o])
           /\ task' = [task EXCEPT ![W] = Call("rollback", "orphan", o, NoBlock, 0, 0, 0)]
  <2>1. index[Height[o]] # o
    BY <1>9, ZenonT(60) DEF Canonical, IndexedAt
  <2>2. TypeOK' /\ CallInv' /\ me'.pc = "rollback" /\ me'.blk = o
    BY <1>7, <1>9, ZenonT(60)
  <2>3. UNCHANGED <<stored, index, tip, crashes>>
    BY <1>3 DEF counts
  <2> QED
    BY <1>2, <1>4, <1>9, <2>1, <2>2, <2>3, RivalStep, ZenonT(60)
<1> QED
  BY <1>3, <1>6, <1>8, <1>9, ZenonT(60)

=============================================================================
