-------------------------- MODULE ChainStoreReorg ---------------------------
(***************************************************************************)
(* The accesses that compare chains and rewrite the height index, in       *)
(* is_heavier_than_best_tip, make_canonical and rollback_block_at_height,  *)
(* keep the invariant of ChainStoreCalls.                                  *)
(***************************************************************************)
EXTENDS ChainStoreCalls

-----------------------------------------------------------------------------
(* Fork choice and the rewriting of the index *)

\* A chain that is held completely has a weight.
LEMMA LinkedWeighable ==
  ASSUME NEW b \in Blocks, Linked(b)
  PROVE  Weighable(b)
<1>1. Height[b] \in Nat
  BY ShapeFacts
<1>2. 0 \in 0..Height[b] /\ \A h \in 0..(Height[b] - 1) : Chain[b][h] \in stored
  BY <1>1 DEF Linked
<1> QED
  BY <1>2 DEF Weighable

\* A block goes to make_canonical only if it is better than the tip.
LEMMA WeighStep ==
  ASSUME SingleWriter, ChainInv, Weigh(W)
  PROVE  ChainInv'
<1>1. TypeOK /\ TipInv /\ CallInv /\ me.pc = "weigh"
  BY DEF ChainInv, Weigh, me
<1>2. me.blk \in Blocks \ {Genesis} /\ me.blk \in stored /\ me.tip = tip /\ tip \in Blocks
  BY <1>1 DEF CallInv, TipInv
<1>3. PICK t \in Blocks : Follow(t)
  BY <1>1, WholeFollows DEF Whole
<1>4. UNCHANGED <<stored, index, tip, pool, counts>>
  BY DEF Weigh
<1>5. weighed' \subseteq Blocks
  <2>1. Memo({me.blk, tip}) \subseteq Blocks
    BY <1>1, <1>2, MemoType
  <2> QED
    BY <1>1, <1>2, <2>1, ZenonT(60) DEF Weigh, me, TypeOK
<1>6. CASE Stored(W)
  <2>1. /\ task' \in [Writers -> Calls] /\ me'.pc \in {"idle", "stored"}
        /\ me'.pc = "stored" => me'.blk = me.blk
    BY <1>1, <1>6, StoredMoves, ZenonT(60)
  <2>2. TypeOK'
    BY <1>1, <1>4, <1>5, <2>1, ZenonT(60) DEF TypeOK, pool, counts
  <2>3. CallInv'
    BY <1>1, <1>2, <1>4, <2>1, ZenonT(60) DEF CallInv, pool
  <2> QED
    BY <1>3, <1>4, <2>1, <2>2, <2>3, RestStep, ZenonT(60) DEF counts
<1>7. CASE TRUE \in Heavier(me.blk, tip) /\ Goto(W, "walk", me.blk, NoBlock, Height[me.blk], 0, 0)
  <2>1. Better(me.blk)
    <3>1. Weighable(tip)
      BY <1>1, LinkedWeighable, ZenonT(60) DEF TipInv
    <3> QED
      BY <1>7, <3>1, ZenonT(60) DEF Heavier, Better
  <2>2. "walk" \in PCs /\ me.blk \in Blocks \cup {NoBlock} /\ NoBlock \in Blocks \cup {NoBlock}
        /\ Height[me.blk] \in Nat /\ Chain[me.blk][Height[me.blk]] = me.blk
    BY <1>2, ShapeFacts, ZenonT(60) DEF PCs
  <2>3. /\ task' \in [Writers -> Calls] /\ me'.pc = "walk" /\ me'.blk = me.blk
        /\ me'.at = Height[me.blk]
    <3>1. Call("walk", me.via, me.blk, NoBlock, Height[me.blk], 0, 0) \in Calls
      BY <1>1, <2>2, MeTyped DEF Call, Calls, PCs
    <3>2. me' = Call("walk", me.via, me.blk, NoBlock, Height[me.blk], 0, 0) /\ task' \in [Writers -> Calls]
      BY <1>1, <1>7, <3>1, Moves, ZenonT(60) DEF Goto, me
    <3> QED
      BY <3>2, ZenonT(60) DEF Call
  <2>4. TypeOK'
    BY <1>1, <1>4, <1>5, <2>3, ZenonT(60) DEF TypeOK, pool, counts
  <2>5. CallInv'
    BY <1>1, <1>2, <1>4, <2>1, <2>3, ZenonT(60) DEF CallInv, pool, Better
  <2>6. WalkedTo(me.blk, me.at)'
    BY <1>2, <1>4, <2>2, <2>3 DEF WalkedTo
  <2>7. Follow(t)'
    BY <1>3, <1>4, FollowKept, ZenonT(60) DEF counts
  <2>8. IndexInv'
    BY <2>3, <2>6, <2>7 DEF IndexInv
  <2>9. TipInv'
    BY <1>1, <1>4, TipKept, ZenonT(60)
  <2> QED
    BY <2>4, <2>5, <2>8, <2>9 DEF ChainInv
<1> QED
  BY <1>2, <1>6, <1>7, ZenonT(60) DEF Weigh, me

\* Phase 1 finds the ancestry stored down to where it has come.
LEMMA WalkStep ==
  ASSUME SingleWriter, ChainInv, Walk(W)
  PROVE  ChainInv'
<1> DEFINE b == me.blk
           h == me.at
<1>1. TypeOK /\ TipInv /\ CallInv /\ me.pc = "walk" /\ WalkedTo(b, h)
  BY ZenonT(60) DEF ChainInv, Walk, me, IndexInv
<1>2. b \in Blocks \ {Genesis} /\ b \in stored /\ Better(b)
  BY <1>1 DEF CallInv
<1>3. PICK t \in Blocks : Follow(t)
  BY <1>1, WholeFollows, ZenonT(60) DEF Whole
<1>4. UNCHANGED <<stored, index, tip, weighed, pool, counts>>
  BY ZenonT(60) DEF Walk
<1>5. Height[b] \in Nat /\ h \in 0..Height[b] /\ h \in Nat
  BY <1>1, <1>2, ShapeFacts DEF WalkedTo
<1>6. Follow(t)' /\ TipInv'
  BY <1>1, <1>3, <1>4, FollowKept, TipKept, ZenonT(60) DEF counts
<1>7. CASE Stored(W)
  <2>1. /\ task' \in [Writers -> Calls] /\ me'.pc \in {"idle", "stored"}
        /\ me'.pc = "stored" => me'.blk = b
    BY <1>1, <1>7, StoredMoves, ZenonT(60)
  <2>2. TypeOK'
    BY <1>1, <1>4, <2>1, ZenonT(60) DEF TypeOK, pool, counts
  <2>3. CallInv'
    BY <1>1, <1>2, <1>4, <2>1, ZenonT(60) DEF CallInv, pool
  <2> QED
    BY <1>3, <1>4, <2>1, <2>2, <2>3, RestStep, ZenonT(60) DEF counts
<1>8. CASE /\ IndexedAt(h, Chain[b][h]) \/ h = 0
           /\ Goto(W, "top", b, NoBlock, 0, h, 0)
  <2>1. "top" \in PCs /\ b \in Blocks \cup {NoBlock} /\ NoBlock \in Blocks \cup {NoBlock}
    BY <1>2, ZenonT(60) DEF PCs
  <2>2. task' \in [Writers -> Calls] /\ me'.pc = "top" /\ me'.blk = b /\ me'.fork = h
    <3>1. Call("top", me.via, b, NoBlock, 0, h, 0) \in Calls
      BY <1>1, <1>5, <2>1, MeTyped DEF Call, Calls, PCs
    <3>2. me' = Call("top", me.via, b, NoBlock, 0, h, 0) /\ task' \in [Writers -> Calls]
      BY <1>1, <1>8, <3>1, Moves, ZenonT(60) DEF Goto, me
    <3> QED
      BY <3>2, ZenonT(60) DEF Call
  <2>3. TypeOK'
    BY <1>1, <1>4, <2>2, ZenonT(60) DEF TypeOK, pool, counts
  <2>4. CallInv'
    BY <1>1, <1>2, <1>4, <2>2, ZenonT(60) DEF CallInv, pool, Better
  <2>5. IndexedAt(h, Chain[b][h])
    <3>1. Chain[b][0] = Genesis /\ Chain[t][0] = Genesis /\ Height[t] \in Nat
      BY <1>2, ShapeFacts
    <3>2. index = Chain[t] /\ DOMAIN index = 0..Height[t]
      BY <1>3, FollowLatest, ZenonT(60) DEF Follow
    <3> QED
      BY <1>8, <3>1, <3>2 DEF IndexedAt
  <2>6. WalkedTo(me.blk, me.fork)' /\ IndexedAt(me.fork, Chain[me.blk][me.fork])'
    BY <1>1, <1>4, <2>2, <2>5, ZenonT(60) DEF WalkedTo, IndexedAt
  <2>7. IndexInv'
    BY <1>6, <2>2, <2>6, ZenonT(60) DEF IndexInv
  <2> QED
    BY <1>6, <2>3, <2>4, <2>7, ZenonT(60) DEF ChainInv
<1>9. CASE /\ ~IndexedAt(h, Chain[b][h]) /\ h > 0 /\ Chain[b][h - 1] \in stored
           /\ Goto(W, "walk", b, NoBlock, h - 1, 0, 0)
  <2>1. "walk" \in PCs /\ b \in Blocks \cup {NoBlock} /\ NoBlock \in Blocks \cup {NoBlock}
        /\ h - 1 \in Nat
    BY <1>2, <1>5, <1>9 DEF PCs
  <2>2. task' \in [Writers -> Calls] /\ me'.pc = "walk" /\ me'.blk = b /\ me'.at = h - 1
    <3>1. Call("walk", me.via, b, NoBlock, h - 1, 0, 0) \in Calls
      BY <1>1, <2>1, MeTyped DEF Call, Calls, PCs
    <3>2. me' = Call("walk", me.via, b, NoBlock, h - 1, 0, 0) /\ task' \in [Writers -> Calls]
      BY <1>1, <1>9, <3>1, Moves, ZenonT(60) DEF Goto, me
    <3> QED
      BY <3>2, ZenonT(60) DEF Call
  <2>3. TypeOK'
    BY <1>1, <1>4, <2>2, ZenonT(60) DEF TypeOK, pool, counts
  <2>4. CallInv'
    BY <1>1, <1>2, <1>4, <2>2, ZenonT(60) DEF CallInv, pool, Better
  <2>5. WalkedTo(b, h - 1)
    <3>1. h - 1 \in 0..Height[b]
      BY <1>5, <2>1, SMTT(60)
    <3>2. ASSUME NEW k \in (h - 1)..Height[b] PROVE Chain[b][k] \in stored
      <4>1. k = h - 1 \/ k \in h..Height[b]
        BY <1>5
      <4> QED
        BY <1>1, <1>9, <4>1, ZenonT(60) DEF WalkedTo
    <3>3. ASSUME NEW k \in ((h - 1) + 1)..Height[b] PROVE ~IndexedAt(k, Chain[b][k])
      <4>1. k = h \/ k \in (h + 1)..Height[b]
        BY <1>5
      <4> QED
        BY <1>1, <1>9, <4>1 DEF WalkedTo
    <3> QED
      BY <3>1, <3>2, <3>3 DEF WalkedTo
  <2>6. WalkedTo(me.blk, me.at)'
    BY <1>4, <2>2, <2>5, ZenonT(60) DEF WalkedTo, IndexedAt
  <2>7. IndexInv'
    BY <1>6, <2>2, <2>6, ZenonT(60) DEF IndexInv
  <2> QED
    BY <1>6, <2>3, <2>4, <2>7 DEF ChainInv
<1> QED
  BY <1>7, <1>8, <1>9, ZenonT(60) DEF Walk, me

\* Where phase 1 stops, the two chains meet: below they are the same, above
\* they differ, and the new chain is held completely.
LEMMA ForkPoint ==
  ASSUME NEW t \in Blocks, Follow(t), NEW b \in Blocks, NEW f \in Nat,
         WalkedTo(b, f), IndexedAt(f, Chain[b][f])
  PROVE  Forked(t, b, f)
<1>1. /\ Height[b] \in Nat /\ Height[t] \in Nat /\ f \in 0..Height[b]
      /\ index = Chain[t] /\ DOMAIN index = 0..Height[t]
  BY FollowLatest, ShapeFacts DEF WalkedTo, Follow
<1>2. f \in 0..Height[t] /\ Chain[t][f] = Chain[b][f]
  BY <1>1, ZenonT(60) DEF IndexedAt
<1>3. ASSUME NEW k \in 0..f PROVE Chain[t][k] = Chain[b][k]
  <2>1. Chain[Chain[t][f]][k] = Chain[t][k]
    BY <1>2, ShapeFacts
  <2>2. Chain[Chain[b][f]][k] = Chain[b][k]
    BY <1>1, ShapeFacts
  <2> QED
    BY <1>2, <2>1, <2>2, ZenonT(60)
<1>4. ASSUME NEW k \in (f + 1)..Height[b], k <= Height[t] PROVE Chain[t][k] # Chain[b][k]
  <2>1. k \in DOMAIN index
    BY <1>1, <1>4
  <2> QED
    BY <1>1, <2>1 DEF WalkedTo, IndexedAt
<1>5. Linked(b)
  <2>1. ASSUME NEW k \in 0..Height[b] PROVE Chain[b][k] \in stored
    <3>1. CASE k \in f..Height[b]
      BY <3>1, ZenonT(60) DEF WalkedTo
    <3>2. CASE k \in 0..f
      <4>1. k \in 0..Height[t] /\ Chain[t][k] = Chain[b][k]
        BY <1>1, <1>2, <1>3, <3>2
      <4>2. Chain[t][k] \in stored
        BY <4>1, ZenonT(60) DEF Follow, Linked
      <4> QED
        BY <4>1, <4>2
    <3> QED
      BY <1>1, <3>1, <3>2
  <2> QED
    BY <2>1 DEF Linked
<1> QED
  BY <1>1, <1>2, <1>3, <1>4, <1>5, ZenonT(60) DEF Forked, Follow

\* Phase 2 starts from the old chain.
LEMMA ReadTopStep ==
  ASSUME SingleWriter, ChainInv, ReadTop(W)
  PROVE  ChainInv'
<1> DEFINE b == me.blk
<1>1. /\ TypeOK /\ TipInv /\ CallInv /\ me.pc = "top"
      /\ WalkedTo(b, me.fork) /\ IndexedAt(me.fork, Chain[b][me.fork])
  BY ZenonT(60) DEF ChainInv, ReadTop, me, IndexInv
<1>2. b \in Blocks \ {Genesis} /\ Better(b) /\ me.fork \in Nat
  BY <1>1, MeTyped, ZenonT(60) DEF CallInv
<1>3. PICK t \in Blocks : Follow(t)
  BY <1>1, WholeFollows, ZenonT(60) DEF Whole
<1>4. UNCHANGED <<stored, index, tip, weighed, pool, counts>>
  BY ZenonT(60) DEF ReadTop
<1>5. /\ Height[b] \in Nat /\ Height[t] \in Nat /\ Latest = Height[t]
      /\ index = Chain[t] /\ Chain[t] \in [0..Height[t] -> Blocks]
  BY <1>2, <1>3, FollowLatest, ShapeFacts, ZenonT(60) DEF Follow
<1>6. Forked(t, b, me.fork)
  BY <1>1, <1>2, <1>3, ForkPoint, ZenonT(60)
<1>7. Goto(W, "cut", b, NoBlock, Height[b] + 1, me.fork, Height[t])
  BY <1>5, ZenonT(60) DEF ReadTop, me
<1>8. /\ task' \in [Writers -> Calls] /\ me'.pc = "cut" /\ me'.blk = b
      /\ me'.at = Height[b] + 1 /\ me'.fork = me.fork /\ me'.top = Height[t]
  <2>1. Call("cut", me.via, b, NoBlock, Height[b] + 1, me.fork, Height[t]) \in Calls
    BY <1>1, <1>2, <1>5, MeTyped, SMTT(60) DEF Call, Calls, PCs
  <2>2. /\ me' = Call("cut", me.via, b, NoBlock, Height[b] + 1, me.fork, Height[t])
        /\ task' \in [Writers -> Calls]
    BY <1>1, <1>7, <2>1, Moves, ZenonT(60) DEF Goto, me
  <2> QED
    BY <2>2, ZenonT(60) DEF Call
<1>9. index = Truncated(t, b, Height[b] + 1)
  <2>1. {k \in 0..Height[t] : k <= Height[b] \/ k >= Height[b] + 1} = 0..Height[t]
    BY <1>5
  <2> QED
    BY <1>5, <2>1, ZenonT(60) DEF Truncated
<1>10. TypeOK'
  BY <1>1, <1>4, <1>8, ZenonT(60) DEF TypeOK, pool, counts
<1>11. CallInv'
  BY <1>1, <1>2, <1>4, <1>8, ZenonT(60) DEF CallInv, pool, Better
<1>12. Forked(t, b, me.fork)'
  BY <1>4, <1>6, <1>8, ZenonT(60) DEF Forked, Linked, counts
<1>13. IndexInv'
  <2>1. index' = Truncated(t, b, Height[b] + 1)
    BY <1>4, <1>9, ZenonT(60)
  <2>2. (me'.at > Height[me.blk'])
    BY <1>5, <1>8
  <2> QED
    BY <1>8, <1>12, <2>1, <2>2, ZenonT(60) DEF IndexInv, Whole
<1>14. TipInv'
  BY <1>1, <1>4, TipKept, ZenonT(60)
<1> QED
  BY <1>10, <1>11, <1>13, <1>14, SMTT(60) DEF ChainInv

\* Phase 2 takes the entries above the new tip away one by one, and then the
\* index holds the old chain up to the new tip's height.
LEMMA CutNext ==
  ASSUME NEW t \in Blocks, NEW b \in Blocks, NEW at \in Nat,
         at > Height[b], index = Truncated(t, b, at)
  PROVE  Without(at) = Truncated(t, b, at + 1)
<1> DEFINE D(a) == {k \in 0..Height[t] : k <= Height[b] \/ k >= a}
<1>1. Height[t] \in Nat /\ Height[b] \in Nat
  BY ShapeFacts
<1>2. D(at) \ {at} = D(at + 1) /\ D(at + 1) \subseteq D(at)
  BY <1>1
<1>3. index = [h \in D(at) |-> Chain[t][h]]
  BY DEF Truncated
<1>4. DOMAIN index = D(at) /\ \A h \in D(at) : index[h] = Chain[t][h]
  BY <1>3
<1>5. Without(at) = [h \in D(at + 1) |-> Chain[t][h]]
  BY <1>2, <1>4 DEF Without
<1> QED
  BY <1>5, ZenonT(60) DEF Truncated

\* What is left after truncating is the new chain with nothing entered.
LEMMA CutDone ==
  ASSUME NEW t \in Blocks, NEW b \in Blocks, NEW at \in Nat,
         at > Height[b], at > Height[t]
  PROVE  Truncated(t, b, at) = Spliced(t, b, Height[b])
<1>1. Height[t] \in Nat /\ Height[b] \in Nat
  BY ShapeFacts
<1>2. {k \in 0..Height[t] : k <= Height[b] \/ k >= at}
        = {k \in 0..Height[b] : k <= Height[t] \/ k > Height[b]}
  BY <1>1
<1>3. \A h \in {k \in 0..Height[b] : k <= Height[t] \/ k > Height[b]} : ~(h > Height[b])
  BY <1>1
<1> QED
  BY <1>2, <1>3 DEF Truncated, Spliced

\* The new chain's entries are written from the top; at the fork height the
\* index is the new chain.
LEMMA AssignNext ==
  ASSUME NEW t \in Blocks, NEW b \in Blocks, NEW at \in 1..Height[b],
         index = Spliced(t, b, at)
  PROVE  With(at, Chain[b][at]) = Spliced(t, b, at - 1)
<1> DEFINE D(a) == {k \in 0..Height[b] : k <= Height[t] \/ k > a}
<1>1. Height[t] \in Nat /\ Height[b] \in Nat /\ at \in Nat
  BY ShapeFacts
<1>2. D(at) \cup {at} = D(at - 1)
  BY <1>1
<1>3. DOMAIN index = D(at)
  BY DEF Spliced
<1>4. \A h \in D(at) : index[h] = IF h > at THEN Chain[b][h] ELSE Chain[t][h]
  BY DEF Spliced
<1>5. \A h \in D(at - 1) : (IF h = at THEN Chain[b][at] ELSE index[h])
                             = IF h > at - 1 THEN Chain[b][h] ELSE Chain[t][h]
  <2> TAKE h \in D(at - 1)
  <2>1. h \in Nat /\ (h = at \/ h \in D(at))
    BY <1>1, <1>2
  <2> HIDE DEF D
  <2> QED
    BY <1>1, <1>4, <2>1
<1>6. With(at, Chain[b][at]) = [h \in D(at - 1) |-> IF h = at THEN Chain[b][at] ELSE index[h]]
  BY <1>2, <1>3 DEF With
<1>7. Spliced(t, b, at - 1) = [h \in D(at - 1) |-> IF h > at - 1 THEN Chain[b][h] ELSE Chain[t][h]]
  BY DEF Spliced
<1> QED
  BY <1>5, <1>6, <1>7, ZenonT(60)

\* At the fork height the index is the new chain.
LEMMA AssignDone ==
  ASSUME NEW t \in Blocks, NEW b \in Blocks, NEW f \in Nat, Forked(t, b, f)
  PROVE  Spliced(t, b, f) = Chain[b]
<1>1. /\ Height[t] \in Nat /\ Height[b] \in Nat
      /\ f \in 0..Height[t] /\ f \in 0..Height[b]
      /\ Chain[b] \in [0..Height[b] -> Blocks]
      /\ \A k \in 0..f : Chain[t][k] = Chain[b][k]
  BY ShapeFacts DEF Forked
<1>2. {k \in 0..Height[b] : k <= Height[t] \/ k > f} = 0..Height[b]
  BY <1>1
<1>3. \A h \in 0..Height[b] : (IF h > f THEN Chain[b][h] ELSE Chain[t][h]) = Chain[b][h]
  BY <1>1
<1>4. Chain[b] = [h \in 0..Height[b] |-> Chain[b][h]]
  BY <1>1
<1> QED
  BY <1>2, <1>3, <1>4, ZenonT(60) DEF Spliced

\* Truncating keeps the shape of a half-done reorganisation.
LEMMA CutStep ==
  ASSUME SingleWriter, ChainInv, Cut(W)
  PROVE  ChainInv'
<1> DEFINE b == me.blk
<1>1. TypeOK /\ TipInv /\ CallInv /\ IndexInv /\ me.pc = "cut"
  BY DEF ChainInv, Cut, me
<1>2. b \in Blocks \ {Genesis} /\ Better(b) /\ me.fork \in Nat /\ me.at \in Nat
  BY <1>1, MeTyped, ZenonT(60) DEF CallInv
<1>3. PICK t \in Blocks :
        /\ Forked(t, b, me.fork)
        /\ me.top = Height[t]
        /\ me.at > Height[b]
        /\ index = Truncated(t, b, me.at)
  BY <1>1, ZenonT(60) DEF IndexInv
<1>4. UNCHANGED <<stored, tip, weighed, pool, counts>>
  BY DEF Cut
<1>5. Height[b] \in Nat /\ Height[t] \in Nat
  BY <1>2, ShapeFacts
<1>6. TipInv'
  BY <1>1, <1>4, TipKept
<1>7. CASE me.at <= me.top
  <2>1. index' = Without(me.at) /\ Goto(W, "cut", b, NoBlock, me.at + 1, me.fork, me.top)
    BY <1>7 DEF Cut, me
  <2>2. Call("cut", me.via, b, NoBlock, me.at + 1, me.fork, me.top) \in Calls
    BY <1>1, <1>2, MeTyped DEF Call, Calls, PCs
  <2>3. /\ me' = Call("cut", me.via, b, NoBlock, me.at + 1, me.fork, me.top)
        /\ task' \in [Writers -> Calls]
    BY <1>1, <2>1, <2>2, Moves, ZenonT(60) DEF Goto, me
  <2>4. /\ me'.pc = "cut" /\ me'.blk = b /\ me'.at = me.at + 1
        /\ me'.fork = me.fork /\ me'.top = Height[t]
    BY <1>3, <2>3, ZenonT(60) DEF Call
  <2>5. index' = Truncated(t, b, me.at + 1)
    BY <1>2, <1>3, <2>1, CutNext, ZenonT(60)
  <2>6. TypeOK'
    BY <1>1, <1>4, <2>1, <2>3, ZenonT(60) DEF TypeOK, pool, counts, Without
  <2>7. CallInv'
    BY <1>1, <1>2, <1>4, <2>4, SMTT(60) DEF CallInv, pool, Better
  <2>8. Forked(t, b, me.fork)'
    BY <1>3, <1>4, <2>4, ZenonT(60) DEF Forked, Linked, counts
  <2>9. me'.at > Height[b]
    BY <1>2, <1>3, <1>5, <2>4, SMTT(60)
  <2>10. IndexInv'
    BY <2>4, <2>5, <2>8, <2>9, ZenonT(60) DEF IndexInv, Whole
  <2> QED
    BY <1>6, <2>6, <2>7, <2>10, ZenonT(60) DEF ChainInv
<1>8. CASE ~(me.at <= me.top)
  <2>1. UNCHANGED index /\ Goto(W, "assign", b, NoBlock, Height[b], me.fork, 0)
    BY <1>8, ZenonT(60) DEF Cut, me
  <2>2. Call("assign", me.via, b, NoBlock, Height[b], me.fork, 0) \in Calls
    BY <1>1, <1>2, <1>5, MeTyped, SMTT(60) DEF Call, Calls, PCs
  <2>3. /\ me' = Call("assign", me.via, b, NoBlock, Height[b], me.fork, 0)
        /\ task' \in [Writers -> Calls]
    BY <1>1, <2>1, <2>2, Moves, ZenonT(60) DEF Goto, me
  <2>4. me'.pc = "assign" /\ me'.blk = b /\ me'.at = Height[b] /\ me'.fork = me.fork
    BY <2>3, ZenonT(60) DEF Call
  <2>5. index' = Spliced(t, b, Height[b])
    <3>1. me.at > Height[t]
      BY <1>2, <1>3, <1>5, <1>8, SMTT(60)
    <3> QED
      BY <1>2, <1>3, <2>1, <3>1, CutDone, ZenonT(60)
  <2>6. TypeOK'
    BY <1>1, <1>4, <2>1, <2>3, ZenonT(60) DEF TypeOK, pool, counts
  <2>7. CallInv'
    BY <1>1, <1>2, <1>4, <2>4, ZenonT(60) DEF CallInv, pool, Better
  <2>8. Forked(t, b, me.fork)'
    BY <1>3, <1>4, <2>4, ZenonT(60) DEF Forked, Linked, counts
  <2>9. me'.at \in me.fork..Height[b]
    BY <1>2, <1>3, <1>5, <2>4, SMTT(60) DEF Forked
  <2>10. IndexInv'
    BY <2>4, <2>5, <2>8, <2>9 DEF IndexInv, Whole
  <2> QED
    BY <1>6, <2>6, <2>7, <2>10, SMTT(60) DEF ChainInv
<1> QED
  BY <1>7, <1>8, ZenonT(60)

\* Entering the new chain keeps it, and ends with the new chain.
LEMMA AssignStep ==
  ASSUME SingleWriter, ChainInv, Assign(W)
  PROVE  ChainInv'
<1> DEFINE b == me.blk
<1>1. TypeOK /\ TipInv /\ CallInv /\ IndexInv /\ me.pc = "assign"
  BY DEF ChainInv, Assign, me
<1>2. b \in Blocks \ {Genesis} /\ Better(b) /\ me.fork \in Nat /\ me.at \in Nat
  BY <1>1, MeTyped, ZenonT(60) DEF CallInv
<1>3. PICK t \in Blocks :
        /\ Forked(t, b, me.fork)
        /\ me.at \in me.fork..Height[b]
        /\ index = Spliced(t, b, me.at)
  BY <1>1, ZenonT(60) DEF IndexInv
<1>4. UNCHANGED <<stored, tip, weighed, pool, counts>>
  BY DEF Assign
<1>5. Height[b] \in Nat /\ Height[t] \in Nat
  BY <1>2, ShapeFacts
<1>6. TipInv'
  BY <1>1, <1>4, TipKept, ZenonT(60)
<1>7. CASE me.at > me.fork
  <2>1. /\ index' = With(me.at, Chain[b][me.at])
        /\ Goto(W, "assign", b, NoBlock, me.at - 1, me.fork, 0)
    BY <1>7, ZenonT(60) DEF Assign, me
  <2>2. me.at - 1 \in Nat /\ me.at \in 1..Height[b] /\ me.at - 1 \in me.fork..Height[b]
    BY <1>2, <1>3, <1>5, <1>7, SMTT(60)
  <2>3. Call("assign", me.via, b, NoBlock, me.at - 1, me.fork, 0) \in Calls
    BY <1>1, <1>2, <2>2, MeTyped, SMTT(60) DEF Call, Calls, PCs
  <2>4. /\ me' = Call("assign", me.via, b, NoBlock, me.at - 1, me.fork, 0)
        /\ task' \in [Writers -> Calls]
    BY <1>1, <2>1, <2>3, Moves, ZenonT(60) DEF Goto, me
  <2>5. me'.pc = "assign" /\ me'.blk = b /\ me'.at = me.at - 1 /\ me'.fork = me.fork
    BY <2>4, ZenonT(60) DEF Call
  <2>6. index' = Spliced(t, b, me.at - 1)
    BY <1>2, <1>3, <2>1, <2>2, AssignNext, ZenonT(60)
  <2>7. TypeOK'
    <3>1. Chain[b][me.at] \in Blocks
      <4>1. me.at \in 0..Height[b]
        BY <1>2, <1>5, <2>2
      <4> QED
        BY <1>2, <4>1, ShapeFacts, ZenonT(60)
    <3>2. DOMAIN index' \subseteq Nat /\ \A h \in DOMAIN index' : index'[h] \in Blocks
      BY <1>1, <1>2, <2>1, <3>1, ZenonT(60) DEF TypeOK, With
    <3> QED
      BY <1>1, <1>4, <2>4, <3>2, ZenonT(60) DEF TypeOK, pool, counts
  <2>8. CallInv'
    BY <1>1, <1>2, <1>4, <2>5, ZenonT(60) DEF CallInv, pool, Better
  <2>9. Forked(t, b, me.fork)'
    BY <1>3, <1>4, <2>5, SMTT(60) DEF Forked, Linked, counts
  <2>10. IndexInv'
    BY <2>2, <2>5, <2>6, <2>9, ZenonT(60) DEF IndexInv, Whole
  <2> QED
    BY <1>6, <2>7, <2>8, <2>10, SMTT(60) DEF ChainInv
<1>8. CASE ~(me.at > me.fork)
  <2>1. UNCHANGED index /\ Goto(W, "settip", b, NoBlock, 0, 0, 0)
    BY <1>8 DEF Assign, me
  <2>2. task' \in [Writers -> Calls] /\ me'.pc = "settip" /\ me'.blk = b
    <3>1. /\ "settip" \in PCs /\ 0 \in Nat
          /\ b \in Blocks \cup {NoBlock} /\ NoBlock \in Blocks \cup {NoBlock}
      BY <1>2 DEF PCs
    <3> QED
      BY <1>1, <2>1, <3>1, GotoMoves, ZenonT(60)
  <2>3. me.at = me.fork
    BY <1>2, <1>3, <1>5, <1>8, SMTT(60)
  <2>4. index' = Chain[b] /\ Linked(b)'
    <3>1. index = Chain[b]
      BY <1>2, <1>3, <2>3, AssignDone, ZenonT(60)
    <3> QED
      BY <1>3, <1>4, <2>1, <2>2, <3>1, ZenonT(60) DEF Forked, Linked
  <2>5. TypeOK'
    BY <1>1, <1>4, <2>1, <2>2, ZenonT(60) DEF TypeOK, pool, counts
  <2>6. CallInv'
    BY <1>1, <1>2, <1>4, <2>2, ZenonT(60) DEF CallInv, pool, Better
  <2>7. IndexInv'
    BY <2>2, <2>4 DEF IndexInv, Whole
  <2> QED
    BY <1>6, <2>5, <2>6, <2>7, SMTT(60) DEF ChainInv
<1> QED
  BY <1>7, <1>8, ZenonT(60)

\* With the tip set, the index is the chain of the tip again.
LEMMA SetBestTipStep ==
  ASSUME SingleWriter, ChainInv, SetBestTip(W)
  PROVE  ChainInv'
<1>1. /\ TypeOK /\ TipInv /\ CallInv /\ me.pc = "settip"
      /\ Linked(me.blk) /\ index = Chain[me.blk]
  BY ZenonT(60) DEF ChainInv, SetBestTip, me, IndexInv
<1>2. PICK b \in Blocks \ {Genesis} : b = me.blk
  BY <1>1, ZenonT(60) DEF CallInv
<1>3. UNCHANGED <<stored, index, weighed, pool, counts>> /\ tip' = b
  BY <1>2 DEF SetBestTip, me
<1>4. /\ task' \in [Writers -> Calls] /\ me'.pc \in {"idle", "stored"}
      /\ me'.pc = "stored" => me'.blk = b
  BY <1>1, <1>2, StoredMoves, ZenonT(60) DEF SetBestTip
<1>5. TypeOK'
  BY <1>1, <1>2, <1>3, <1>4, ZenonT(60) DEF TypeOK, pool, counts
<1>6. CallInv'
  BY <1>1, <1>2, <1>3, <1>4, ZenonT(60) DEF CallInv, pool
<1>7. Follow(b)' /\ TipInv'
  BY <1>1, <1>2, <1>3, ZenonT(60) DEF Follow, Linked, TipInv
<1>8. IndexInv'
  BY <1>2, <1>4, <1>7 DEF IndexInv, Whole
<1> QED
  BY <1>5, <1>6, <1>7, <1>8, SMTT(60) DEF ChainInv

\* The rollback starts at the latest height, the rival's.
LEMMA RollbackStep ==
  ASSUME SingleWriter, ChainInv, Rollback(W)
  PROVE  ChainInv'
<1> DEFINE b == me.blk
<1>1. TypeOK /\ TipInv /\ CallInv /\ IndexInv /\ me.pc = "rollback"
  BY DEF ChainInv, Rollback, me
<1>2. b \in Blocks \ {Genesis}
  BY <1>1, ZenonT(60) DEF CallInv
<1>3. PICK t \in Blocks : Follow(t) /\ Height[t] = Height[b] /\ t # b
  BY <1>1, ZenonT(60) DEF IndexInv
<1>4. UNCHANGED <<stored, index, tip, weighed, pool, counts>>
  BY ZenonT(60) DEF Rollback
<1>5. Latest = Height[b] /\ Height[b] \in Nat
  BY <1>2, <1>3, FollowLatest, ShapeFacts, ZenonT(60) DEF Follow
<1>6. Goto(W, "detach", b, NoBlock, Height[b], 0, 0)
  BY <1>5, ZenonT(60) DEF Rollback, me
<1>7. Call("detach", me.via, b, NoBlock, Height[b], 0, 0) \in Calls
  BY <1>1, <1>2, <1>5, MeTyped, SMTT(60) DEF Call, Calls, PCs
<1>8. /\ me' = Call("detach", me.via, b, NoBlock, Height[b], 0, 0)
      /\ task' \in [Writers -> Calls]
  BY <1>1, <1>6, <1>7, Moves, ZenonT(60) DEF Goto, me
<1>9. me'.pc = "detach" /\ me'.blk = b /\ me'.at = Height[b]
  BY <1>8, ZenonT(60) DEF Call
<1>10. TypeOK'
  BY <1>1, <1>4, <1>8, ZenonT(60) DEF TypeOK, pool, counts
<1>11. CallInv'
  BY <1>1, <1>2, <1>4, <1>9, ZenonT(60) DEF CallInv, pool
<1>12. Follow(t)' /\ TipInv'
  BY <1>1, <1>3, <1>4, FollowKept, TipKept, SMTT(60) DEF counts
<1>13. IndexInv'
  BY <1>3, <1>9, <1>12, ZenonT(60) DEF IndexInv, Whole
<1> QED
  BY <1>10, <1>11, <1>12, <1>13 DEF ChainInv

\* Detaching takes the old tip off, and nothing below the rival's height.
LEMMA DetachStep ==
  ASSUME SingleWriter, ChainInv, Detach(W)
  PROVE  ChainInv'
<1>1. TypeOK /\ TipInv /\ CallInv /\ IndexInv /\ me.pc = "detach"
  BY DEF ChainInv, Detach, me
<1>2. PICK b \in Blocks \ {Genesis} : b = me.blk
  BY <1>1, ZenonT(60) DEF CallInv
<1>3. PICK t \in Blocks :
        /\ Follow(t)
        /\ \/ me.at = Height[b] /\ Height[t] = me.at /\ t # b
           \/ me.at = Height[b] - 1
  BY <1>1, <1>2, ZenonT(60) DEF IndexInv
<1>4. UNCHANGED <<stored, tip, weighed, pool, counts>>
  BY ZenonT(60) DEF Detach
<1>5. /\ Height[b] \in Nat \ {0} /\ Height[t] \in Nat /\ me.at \in Nat
      /\ DOMAIN index = 0..Height[t] /\ index = Chain[t]
  BY <1>1, <1>2, <1>3, ParentFacts, FollowLatest, ShapeFacts, MeTyped, SMTT(60) DEF Follow
<1>6. CASE me.at < Height[b]
  <2>1. UNCHANGED index /\ Goto(W, "admit", b, NoBlock, 0, 0, 0)
    BY <1>2, <1>6, SMTT(60) DEF Detach, me
  <2>2. task' \in [Writers -> Calls] /\ me'.pc = "admit" /\ me'.blk = b
    BY <1>1, <2>1, GotoMoves, ZenonT(60) DEF PCs
  <2>3. TypeOK'
    BY <1>1, <1>4, <2>1, <2>2 DEF TypeOK, pool, counts
  <2>4. CallInv'
    BY <1>1, <1>4, <2>2 DEF CallInv, pool
  <2>5. stored \subseteq stored' /\ UNCHANGED <<index, tip, crashes>>
    BY <1>4, <2>1 DEF counts
  <2>6. me'.pc \in {"idle", "admit", "raw", "put", "tip", "weigh", "stored", "next"}
    BY <2>2
  <2>7. \E u \in Blocks : Follow(u)
    BY <1>3
  <2> QED
    BY <2>3, <2>4, <2>5, <2>6, <2>7, RestStep, ZenonT(60)
<1>7. CASE ~(me.at < Height[b])
  <2>1. me.at = Height[b] /\ Height[t] = me.at /\ t # b
    BY <1>3, <1>5, <1>7, SMTT(60)
  <2>2. me.at \in DOMAIN index /\ index[me.at] = t /\ t \in stored /\ Linked(t)
    BY <1>3, <1>5, <2>1, ShapeFacts, SMTT(60) DEF Follow, Linked
  <2>3. index' = Without(me.at) /\ Goto(W, "retreat", b, t, me.at, 0, 0)
    BY <1>2, <1>7, <2>2, ZenonT(60) DEF Detach, me
  <2>4. task' \in [Writers -> Calls] /\ me'.pc = "retreat" /\ me'.blk = b
        /\ me'.tip = t /\ me'.at = me.at
    <3>1. Call("retreat", me.via, b, t, me.at, 0, 0) \in Calls
      BY <1>1, MeTyped DEF Call, Calls, PCs
    <3>2. me' = Call("retreat", me.via, b, t, me.at, 0, 0) /\ task' \in [Writers -> Calls]
      BY <1>1, <2>3, <3>1, Moves, ZenonT(60) DEF Goto, me
    <3> QED
      BY <3>2, ZenonT(60) DEF Call
  <2>5. index' = Chain[Parent[t]]
    <3>1. t # Genesis
      BY <1>5, <2>1, ChainShape, ZenonT(60)
    <3>2. Chain[Parent[t]] = [k \in 0..(Height[t] - 1) |-> Chain[t][k]]
      BY <3>1, ParentFacts, ZenonT(60)
    <3>3. (0..Height[t]) \ {Height[t]} = 0..(Height[t] - 1)
      BY <1>5, SMTT(60)
    <3> QED
      BY <1>5, <2>1, <2>3, <3>2, <3>3, ZenonT(60) DEF Without
  <2>6. TypeOK'
    BY <1>1, <1>4, <2>3, <2>4, ZenonT(60) DEF TypeOK, pool, counts, Without
  <2>7. CallInv'
    BY <1>1, <1>4, <2>4, ZenonT(60) DEF CallInv, pool
  <2>8. Linked(t)' /\ (crashes' = 0 => tip' = t)
    BY <1>3, <1>4, <2>2, ZenonT(60) DEF Linked, Follow, counts
  <2>9. IndexInv'
    BY <2>1, <2>4, <2>5, <2>8, ZenonT(60) DEF IndexInv, Whole
  <2>10. TipInv'
    BY <1>1, <1>4, TipKept
  <2> QED
    BY <2>6, <2>7, <2>9, <2>10, ZenonT(60) DEF ChainInv
<1> QED
  BY <1>6, <1>7, ZenonT(60)

\* The tip falls back to the detached block's parent.
LEMMA RetreatStep ==
  ASSUME SingleWriter, ChainInv, Retreat(W)
  PROVE  ChainInv'
<1>1. TypeOK /\ TipInv /\ CallInv /\ IndexInv /\ me.pc = "retreat"
  BY ZenonT(60) DEF ChainInv, Retreat, me
<1>2. PICK b \in Blocks \ {Genesis} : b = me.blk
  BY <1>1, ZenonT(60) DEF CallInv
<1>3. PICK t \in Blocks : t = me.tip
  BY <1>1, ZenonT(60) DEF IndexInv
<1>4. /\ me.at = Height[b] /\ Height[t] = me.at /\ Linked(t) /\ index = Chain[Parent[t]]
      /\ crashes = 0 => tip = t
  BY <1>1, <1>2, <1>3, ZenonT(60) DEF IndexInv
<1>5. UNCHANGED <<stored, index, weighed, pool, counts>>
  BY ZenonT(60) DEF Retreat
<1>6. /\ Height[b] \in Nat \ {0} /\ me.at \in Nat
      /\ me.at - 1 \in Nat
  BY <1>4, ParentFacts, ShapeFacts, SMTT(60)
<1>7. t # Genesis
  BY <1>4, <1>6, ChainShape
<1>8. PICK p \in Blocks : p = Parent[t]
  BY <1>7, ParentFacts, ZenonT(60)
<1>9. Height[p] = me.at - 1 /\ Linked(p)
  <2>1. Height[p] = Height[t] - 1 /\ Chain[t][Height[t] - 1] = p
    BY <1>7, <1>8, ParentFacts, ZenonT(60)
  <2>2. Height[t] - 1 \in 0..Height[t]
    BY <1>4, <1>6, SMTT(60)
  <2> QED
    BY <1>4, <2>1, <2>2, LinkedMember
<1>10. me.at - 1 \in DOMAIN index /\ index[me.at - 1] = p
  BY <1>4, <1>6, <1>8, <1>9, ShapeFacts, SMTT(60)
<1>11. tip' = IF tip = t THEN p ELSE tip
  BY <1>3, <1>10, ZenonT(60) DEF Retreat, me
<1>12. Goto(W, "detach", b, NoBlock, me.at - 1, 0, 0)
  BY <1>2, ZenonT(60) DEF Retreat, me
<1>13. /\ task' \in [Writers -> Calls] /\ me'.pc = "detach" /\ me'.blk = b
       /\ me'.at = Height[b] - 1
  <2>1. Call("detach", me.via, b, NoBlock, me.at - 1, 0, 0) \in Calls
    BY <1>1, <1>6, MeTyped DEF Call, Calls, PCs
  <2>2. me' = Call("detach", me.via, b, NoBlock, me.at - 1, 0, 0) /\ task' \in [Writers -> Calls]
    BY <1>1, <1>12, <2>1, Moves, ZenonT(60) DEF Goto, me
  <2> QED
    BY <1>4, <2>2, ZenonT(60) DEF Call
<1>14. Follow(p)' /\ TipInv'
  BY <1>1, <1>4, <1>5, <1>8, <1>9, <1>11, ZenonT(60) DEF Follow, TipInv, Linked, counts
<1>15. TypeOK'
  BY <1>1, <1>5, <1>11, <1>13, ZenonT(60) DEF TypeOK, pool, counts
<1>16. CallInv'
  BY <1>1, <1>5, <1>13, ZenonT(60) DEF CallInv, pool
<1>17. IndexInv'
  BY <1>13, <1>14 DEF IndexInv, Whole
<1> QED
  BY <1>14, <1>15, <1>16, <1>17, ZenonT(60) DEF ChainInv

=============================================================================
