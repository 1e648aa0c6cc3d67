-------------------------- MODULE ChainStoreProofs --------------------------
(***************************************************************************)
(* Theorems about ChainStore, for every tree of blocks and any number of   *)
(* deliveries, rejections and restarts, while one task at a time is inside *)
(* the store: repair after a crash, the invariant, and the refinement of   *)
(* ForkChoice.                                                             *)
(***************************************************************************)
EXTENDS ChainStoreReorg

-----------------------------------------------------------------------------
(* repair_chain *)

\* c is the last block up to which the index is sound, m the latest height.
Repairable(c, m) ==
  /\ c \in Blocks
  /\ Linked(c)
  /\ \A k \in 0..Height[c] : IndexedAt(k, Chain[c][k])
  /\ DOMAIN index \subseteq Nat
  /\ m \in DOMAIN index
  /\ \A k \in DOMAIN index : k <= m /\ index[k] \in Blocks /\ Linked(index[k])
  /\ Height[c] < m => \/ Height[c] + 1 \notin DOMAIN index
                      \/ Height[c] >= 1 /\ Parent[index[Height[c] + 1]] # c
  /\ Height[c] = 0 /\ Height[c] < m /\ Canonical(tip) =>
       \E k \in 0..Height[tip] :
         /\ k..Height[tip] \subseteq DOMAIN index
         /\ k > 0 => k - 1 \notin DOMAIN index

\* validate_chain stops at the first height that does not link.
LEMMA LastValidIs ==
  ASSUME NEW n \in 0..Latest, Latest \in Nat, LinkedBelow(n),
         n < Latest => ~LinkedBelow(n + 1)
  PROVE  LastValid = n
<1> DEFINE P(h) == LinkedBelow(h) /\ (h < Latest => ~LinkedBelow(h + 1))
<1>1. ASSUME NEW h \in Nat, NEW k \in 0..h, LinkedBelow(h) PROVE LinkedBelow(k)
  BY <1>1 DEF LinkedBelow
<1>2. ASSUME NEW h \in 0..Latest, P(h) PROVE h = n
  <2>1. CASE h < n
    <3>1. h < Latest /\ h + 1 \in 0..n /\ n \in Nat
      BY <2>1
    <3>2. LinkedBelow(h + 1)
      BY <1>1, <3>1
    <3> QED
      BY <1>2, <3>1, <3>2
  <2>2. CASE n < h
    <3>1. n < Latest /\ n + 1 \in 0..h /\ h \in Nat
      BY <2>2
    <3>2. LinkedBelow(n + 1)
      BY <1>1, <1>2, <3>1
    <3> QED
      BY <3>1, <3>2
  <2> QED
    BY <2>1, <2>2
<1>3. P(n)
  OBVIOUS
<1>4. LastValid = CHOOSE h \in 0..Latest : P(h)
  BY DEF LastValid
<1> HIDE DEF P
<1> QED
  BY <1>2, <1>3, <1>4

\* A chain that the index agrees with is sound as far as it goes.
LEMMA AgreesLinked ==
  ASSUME NEW c \in Blocks, Linked(c), \A k \in 0..Height[c] : IndexedAt(k, Chain[c][k])
  PROVE  LinkedBelow(Height[c])
<1>1. Height[c] \in Nat
  BY ShapeFacts
<1> SUFFICES ASSUME NEW k \in 1..Height[c]
             PROVE  /\ k \in DOMAIN index
                    /\ index[k] \in stored
                    /\ k > 1 => /\ Parent[index[k]] = index[k - 1]
                                /\ Parent[index[k]] \in stored
  BY DEF LinkedBelow
<1>2. k \in 0..Height[c] /\ k - 1 \in 0..Height[c]
  BY <1>1
<1>3. k \in DOMAIN index /\ index[k] = Chain[c][k] /\ index[k - 1] = Chain[c][k - 1]
  BY <1>2 DEF IndexedAt
<1>4. Chain[c][k] \in stored /\ Chain[c][k - 1] \in stored
  BY <1>2 DEF Linked
<1>5. Parent[Chain[c][k]] = Chain[c][k - 1]
  BY ParentBelow, ZenonT(60)
<1> QED
  BY <1>3, <1>4, <1>5, ZenonT(60)

\* What repair_chain leaves is the sound part, and its tip is complete.
LEMMA RepairLeaves ==
  ASSUME TypeOK, TipInv, NEW c, NEW m, Repairable(c, m), Restart
  PROVE  Follow(c)' /\ TipInv'
<1> DEFINE n == Height[c]
<1>1. /\ c \in Blocks /\ Linked(c)
      /\ \A k \in 0..n : IndexedAt(k, Chain[c][k])
      /\ DOMAIN index \subseteq Nat /\ m \in DOMAIN index
      /\ \A k \in DOMAIN index : k <= m /\ index[k] \in Blocks /\ Linked(index[k])
  BY DEF Repairable
<1>2. Latest = m /\ m \in Nat
  BY <1>1, LatestIs, ZenonT(60)
<1>3. n \in Nat /\ Chain[c] \in [0..n -> Blocks] /\ Chain[c][n] = c
  BY <1>1, ShapeFacts, ZenonT(60)
<1>4. n \in DOMAIN index /\ index[n] = c /\ n \in 0..m
  <2>1. n \in 0..n
    BY <1>3
  <2> QED
    BY <1>1, <1>2, <1>3, <2>1 DEF IndexedAt
<1>5. LinkedBelow(n)
  BY <1>1, AgreesLinked, ZenonT(60)
<1>6. n < m => ~LinkedBelow(n + 1)
  <2> SUFFICES ASSUME n < m, LinkedBelow(n + 1) PROVE FALSE
    OBVIOUS
  <2>1. n + 1 \in 1..(n + 1)
    BY <1>3
  <2>2. /\ n + 1 \in DOMAIN index
        /\ n + 1 > 1 => Parent[index[n + 1]] = index[(n + 1) - 1]
    <3> HIDE DEF n
    <3> QED
      BY <2>1, ZenonT(60) DEF LinkedBelow
  <2>3. n >= 1 /\ Parent[index[n + 1]] # c
    BY <2>2, ZenonT(60) DEF Repairable
  <2>4. n + 1 > 1 /\ (n + 1) - 1 = n
    BY <1>3, <2>3
  <2> QED
    BY <1>4, <2>2, <2>3, <2>4, ZenonT(60)
<1>7. LastValid = n
  BY <1>2, <1>4, <1>5, <1>6, LastValidIs, ZenonT(60)
<1>8. /\ index' = [h \in DOMAIN index \cap 0..n |-> index[h]]
      /\ tip' = IF n = m THEN tip ELSE IF n > 0 THEN index[n] ELSE RolledBackTip
      /\ stored' = stored /\ crashes' = crashes + 1
  BY <1>2, <1>7, ZenonT(60) DEF Restart
<1>9. index' = Chain[c]
  <2>1. DOMAIN index \cap 0..n = 0..n
    BY <1>1, ZenonT(60) DEF IndexedAt
  <2>2. \A h \in 0..n : index[h] = Chain[c][h]
    BY <1>1 DEF IndexedAt
  <2> QED
    BY <1>3, <1>8, <2>1, <2>2, ZenonT(60)
<1>10. tip' \in Blocks /\ Linked(tip')
  <2>1. CASE n = m \/ n > 0
    BY <1>1, <1>4, <1>8, <2>1 DEF TipInv
  <2>2. CASE n = 0 /\ n # m
    <3>1. tip' = RolledBackTip /\ n < m
      BY <1>2, <1>3, <1>4, <1>8, <2>2
    <3>2. CASE ~Canonical(tip)
      BY <3>1, <3>2, ZenonT(60) DEF RolledBackTip, TipInv
    <3>3. CASE Canonical(tip)
      <4> DEFINE Q(k) == /\ k..Height[tip] \subseteq DOMAIN index
                         /\ k > 0 => k - 1 \notin DOMAIN index
      <4>1. \E k \in 0..Height[tip] : Q(k)
        BY <2>2, <3>1, <3>3 DEF Repairable
      <4>2. PICK k \in 0..Height[tip] : Q(k) /\ RolledBackTip = index[k]
        <5>1. RolledBackTip = index[CHOOSE k \in 0..Height[tip] : Q(k)]
          BY <3>3 DEF RolledBackTip
        <5> HIDE DEF Q
        <5> QED
          BY <4>1, <5>1, ZenonT(60)
      <4>3. k \in DOMAIN index
        <5>1. Height[tip] \in Nat
          BY ShapeFacts DEF TipInv
        <5>2. k \in k..Height[tip]
          BY <5>1
        <5> QED
          BY <4>2, <5>2, ZenonT(60)
      <4> QED
        BY <1>1, <3>1, <4>2, <4>3, ZenonT(60)
    <3> QED
      BY <3>2, <3>3, ZenonT(60)
  <2> QED
    BY <1>3, <2>1, <2>2
<1>11. Linked(c)' /\ Linked(tip)'
  BY <1>1, <1>8, <1>10, ZenonT(60) DEF Linked
<1> QED
  <2>1. crashes' # 0
    BY <1>8 DEF TypeOK
  <2> QED
    BY <1>1, <1>9, <1>10, <1>11, <2>1, ZenonT(60) DEF Follow, TipInv

\* An index that is one chain needs no repair.
LEMMA ChainRepairable ==
  ASSUME NEW c \in Blocks, Linked(c), index = Chain[c]
  PROVE  Repairable(c, Height[c])
<1>1. /\ Height[c] \in Nat /\ Chain[c] \in [0..Height[c] -> Blocks]
      /\ DOMAIN index = 0..Height[c]
  BY ShapeFacts
<1>2. \A k \in 0..Height[c] : index[k] \in Blocks /\ Linked(index[k])
  BY LinkedMember, ZenonT(60)
<1> QED
  BY <1>1, <1>2 DEF Repairable, IndexedAt

\* The lower part of a chain is a chain.
LEMMA PrefixRepairable ==
  ASSUME NEW t \in Blocks, Linked(t), NEW n \in 0..Height[t],
         index = [k \in 0..n |-> Chain[t][k]]
  PROVE  \E c, m : Repairable(c, m)
<1>1. index = Chain[Chain[t][n]] /\ Chain[t][n] \in Blocks /\ Linked(Chain[t][n])
  BY MemberChain, LinkedMember, ZenonT(60)
<1> QED
  BY <1>1, ChainRepairable, ZenonT(60)

\* Died while truncating: the old chain, or a gap above the new tip's height.
LEMMA CutRepairable ==
  ASSUME NEW t \in Blocks, NEW b \in Blocks \ {Genesis}, Linked(t), NEW at \in Nat,
         at > Height[b], index = Truncated(t, b, at)
  PROVE  \E c, m : Repairable(c, m)
<1> DEFINE D == {k \in 0..Height[t] : k <= Height[b] \/ k >= at}
<1>1. Height[t] \in Nat /\ Height[b] \in Nat /\ Height[b] >= 1
  BY ParentFacts, ShapeFacts
<1>2. DOMAIN index = D /\ \A k \in D : index[k] = Chain[t][k]
  BY DEF Truncated
<1>3. CASE Height[t] <= Height[b] \/ at = Height[b] + 1
  <2>1. D = 0..Height[t]
    BY <1>1, <1>3
  <2>2. index = [k \in 0..Height[t] |-> Chain[t][k]] /\ Height[t] \in 0..Height[t]
    BY <1>1, <2>1 DEF Truncated
  <2> QED
    BY <2>2, PrefixRepairable
<1>4. CASE Height[b] < Height[t] /\ at > Height[t]
  <2>1. D = 0..Height[b] /\ Height[b] \in 0..Height[t]
    BY <1>1, <1>4
  <2>2. index = [k \in 0..Height[b] |-> Chain[t][k]]
    BY <2>1 DEF Truncated
  <2> QED
    BY <2>1, <2>2, PrefixRepairable, ZenonT(60)
<1>5. CASE Height[b] < Height[t] /\ at <= Height[t] /\ at # Height[b] + 1
  <2>1. PICK c \in Blocks : c = Chain[t][Height[b]]
    BY <1>1, <1>5, ShapeFacts
  <2>2. Linked(c) /\ Height[c] = Height[b] /\ \A k \in 0..Height[b] : Chain[c][k] = Chain[t][k]
    <3>1. Height[b] \in 0..Height[t]
      BY <1>1, <1>5
    <3>2. Linked(c)
      BY <2>1, <3>1, LinkedMember, ZenonT(60)
    <3>3. Height[c] = Height[b] /\ \A k \in 0..Height[b] : Chain[c][k] = Chain[t][k]
      <4>1. \A h \in 0..Height[t] :
              Height[Chain[t][h]] = h /\ \A k \in 0..h : Chain[Chain[t][h]][k] = Chain[t][k]
        BY ShapeFacts
      <4> QED
        BY <2>1, <3>1, <4>1, ZenonT(60)
    <3> QED
      BY <3>2, <3>3
  <2>3. 0..Height[b] \subseteq D /\ Height[t] \in D /\ Height[b] + 1 \notin D /\ D \subseteq 0..Height[t]
    BY <1>1, <1>5
  <2>4. \A k \in D : k <= Height[t] /\ index[k] \in Blocks /\ Linked(index[k])
    <3>1. \A k \in 0..Height[t] : k <= Height[t] /\ Chain[t][k] \in Blocks /\ Linked(Chain[t][k])
      BY LinkedMember
    <3> HIDE DEF D
    <3> QED
      BY <1>2, <2>3, <3>1
  <2>5. Repairable(c, Height[t])
    <3> HIDE DEF D
    <3>1. \A k \in 0..Height[c] : IndexedAt(k, Chain[c][k])
      BY <1>2, <2>2, <2>3 DEF IndexedAt
    <3>2. DOMAIN index \subseteq Nat
      BY <1>2, <2>3
    <3> QED
      <4>1. Height[t] \in DOMAIN index /\ Height[c] + 1 \notin DOMAIN index /\ Height[c] # 0
        BY <1>1, <1>2, <2>2, <2>3
      <4>2. \A k \in DOMAIN index : k <= Height[t] /\ index[k] \in Blocks /\ Linked(index[k])
        BY <1>2, <2>4
      <4> QED
        BY <2>2, <3>1, <3>2, <4>1, <4>2, ZenonT(60) DEF Repairable
  <2> QED
    BY <2>5, ZenonT(60)
<1> QED
  BY <1>1, <1>3, <1>4, <1>5

\* Died while entering the new chain: a gap above the old chain, or a height
\* where the new chain does not continue the old one.
LEMMA AssignRepairable ==
  ASSUME TipInv, NEW t \in Blocks, NEW b \in Blocks \ {Genesis}, NEW f \in Nat,
         Forked(t, b, f), NEW at \in f..Height[b], index = Spliced(t, b, at)
  PROVE  \E c, m : Repairable(c, m)
<1> DEFINE D == {k \in 0..Height[b] : k <= Height[t] \/ k > at}
<1>1. /\ Height[t] \in Nat /\ Height[b] \in Nat /\ Height[b] >= 1 /\ at \in Nat
      /\ f \in 0..Height[t] /\ f \in 0..Height[b] /\ Linked(t) /\ Linked(b)
  BY ParentFacts, ShapeFacts DEF Forked
<1>2. DOMAIN index = D /\ \A k \in D : index[k] = IF k > at THEN Chain[b][k] ELSE Chain[t][k]
  BY DEF Spliced
<1>3. CASE at = f
  BY <1>1, <1>3, AssignDone, ChainRepairable, ZenonT(60)
<1>4. CASE at = Height[b]
  <2> DEFINE n == IF Height[t] <= Height[b] THEN Height[t] ELSE Height[b]
  <2>1. D = 0..n /\ n \in 0..Height[t] /\ \A k \in 0..n : ~(k > at)
    BY <1>1, <1>4
  <2>2. index = [k \in 0..n |-> Chain[t][k]]
    <3> HIDE DEF n
    <3> QED
      BY <2>1 DEF Spliced
  <2> HIDE DEF n
  <2> QED
    BY <1>1, <2>1, <2>2, PrefixRepairable, ZenonT(60)
<1>5. CASE f < at /\ at < Height[b]
  <2>1. D \subseteq 0..Height[b] /\ Height[b] \in D
    BY <1>1, <1>5
  <2>2. \A k \in D : k <= Height[b] /\ index[k] \in Blocks /\ Linked(index[k])
    <3>1. \A k \in 0..Height[b] : k <= Height[b] /\ Chain[b][k] \in Blocks /\ Linked(Chain[b][k])
      BY <1>1, LinkedMember
    <3>2. \A k \in 0..Height[t] : Chain[t][k] \in Blocks /\ Linked(Chain[t][k])
      BY <1>1, LinkedMember, ZenonT(60)
    <3>3. \A k \in D : k \in 0..Height[b] /\ (k > at \/ k \in 0..Height[t])
      BY <1>1
    <3> HIDE DEF D
    <3> QED
      BY <1>2, <3>1, <3>2, <3>3, ZenonT(60)
  <2>3. CASE at > Height[t]
    <3>1. 0..Height[t] \subseteq D /\ Height[t] + 1 \notin D /\ \A k \in 0..Height[t] : ~(k > at)
      BY <1>1, <1>5, <2>3
    <3>2. \A k \in 0..Height[t] : IndexedAt(k, Chain[t][k])
      <4> HIDE DEF D
      <4> QED
        BY <1>2, <3>1 DEF IndexedAt
    <3>3. ASSUME Height[t] = 0, Canonical(tip)
          PROVE  \E k \in 0..Height[tip] :
                   /\ k..Height[tip] \subseteq DOMAIN index
                   /\ k > 0 => k - 1 \notin DOMAIN index
      <4>1. Height[tip] \in D /\ Height[tip] \in Nat
        BY <1>2, <3>3, ShapeFacts, ZenonT(60) DEF TipInv, Canonical, IndexedAt
      <4>2. CASE Height[tip] = 0
        <5>1. 0..Height[tip] \subseteq D
          BY <1>1, <3>3, <4>2
        <5> QED
          BY <1>2, <4>2, <5>1
      <4>3. CASE Height[tip] # 0
        <5>1. at + 1 \in 0..Height[tip] /\ (at + 1)..Height[tip] \subseteq D /\ (at + 1) - 1 \notin D
          BY <1>1, <1>5, <3>3, <2>3, <4>1, <4>3, SMTT(60)
        <5> HIDE DEF D
        <5> QED
          BY <1>2, <5>1, ZenonT(60)
      <4> QED
        BY <4>2, <4>3, ZenonT(60)
    <3>4. Repairable(t, Height[b])
      <4> HIDE DEF D
      <4>1. DOMAIN index \subseteq Nat
        BY <1>2, <2>1
      <4> QED
        BY <1>1, <1>2, <2>1, <2>2, <3>1, <3>2, <3>3, <4>1, ZenonT(60) DEF Repairable
    <3> QED
      BY <3>4
  <2>4. CASE at <= Height[t]
    <3>1. PICK c \in Blocks : c = Chain[t][at]
      BY <1>1, <2>4, ShapeFacts
    <3>2. Linked(c) /\ Height[c] = at /\ \A k \in 0..at : Chain[c][k] = Chain[t][k]
      BY <1>1, <2>4, <3>1, LinkedMember, ShapeFacts
    <3>3. /\ 0..at \subseteq D /\ \A k \in 0..at : ~(k > at)
          /\ at + 1 \in D /\ at + 1 > at /\ at >= 1
          /\ at \in (f + 1)..Height[b] /\ at + 1 \in 1..Height[b] /\ (at + 1) - 1 = at
      BY <1>1, <1>5, <2>4
    <3>4. Parent[Chain[b][at + 1]] = Chain[b][at]
      BY <3>3, ParentBelow
    <3>5. Parent[index[at + 1]] # c
      <4>1. index[at + 1] = Chain[b][at + 1]
        <5> HIDE DEF D
        <5> QED
          BY <1>2, <3>3, ZenonT(60)
      <4>2. Chain[t][at] # Chain[b][at]
        BY <2>4, <3>3, ZenonT(60) DEF Forked
      <4> QED
        BY <3>1, <3>4, <4>1, <4>2, ZenonT(60)
    <3>6. Repairable(c, Height[b])
      <4> HIDE DEF D
      <4>1. DOMAIN index \subseteq Nat
        BY <1>2, <2>1
      <4>2. \A k \in 0..Height[c] : IndexedAt(k, Chain[c][k])
        BY <1>2, <3>2, <3>3, ZenonT(60) DEF IndexedAt
      <4>3. Height[c] >= 1 /\ Height[c] # 0
        BY <3>2, <3>3
      <4> QED
        BY <1>2, <2>1, <2>2, <3>2, <3>5, <4>1, <4>2, <4>3, ZenonT(60) DEF Repairable
    <3> QED
      BY <3>6, ZenonT(60)
  <2> QED
    BY <1>1, <2>3, <2>4
<1> QED
  BY <1>1, <1>3, <1>4, <1>5

\* Wherever the process dies, what it leaves can be repaired.
LEMMA AlwaysRepairable ==
  ASSUME SingleWriter, ChainInv
  PROVE  \E c, m : Repairable(c, m)
<1>1. TypeOK /\ TipInv /\ CallInv /\ IndexInv /\ me.pc \in PCs
  BY MeTyped DEF ChainInv
<1>2. CASE me.pc \in Whole \cup {"detach"}
  <2>1. PICK t \in Blocks : Follow(t)
    BY <1>1, <1>2, ZenonT(60) DEF IndexInv
  <2> QED
    BY <2>1, ChainRepairable, ZenonT(60) DEF Follow
<1>3. CASE me.pc = "cut"
  <2>1. me.blk \in Blocks \ {Genesis} /\ me.at \in Nat
    BY <1>1, <1>3, MeTyped, ZenonT(60) DEF CallInv
  <2>2. PICK t \in Blocks : /\ Forked(t, me.blk, me.fork) /\ me.at > Height[me.blk]
                            /\ index = Truncated(t, me.blk, me.at)
    BY <1>1, <1>3, ZenonT(60) DEF IndexInv
  <2> QED
    BY <2>1, <2>2, CutRepairable, ZenonT(60) DEF Forked
<1>4. CASE me.pc = "assign"
  <2>1. me.blk \in Blocks \ {Genesis} /\ me.fork \in Nat
    BY <1>1, <1>4, MeTyped, ZenonT(60) DEF CallInv
  <2>2. PICK t \in Blocks : /\ Forked(t, me.blk, me.fork)
                            /\ me.at \in me.fork..Height[me.blk]
                            /\ index = Spliced(t, me.blk, me.at)
    BY <1>1, <1>4, ZenonT(60) DEF IndexInv
  <2> QED
    BY <1>1, <2>1, <2>2, AssignRepairable, ZenonT(60)
<1>5. CASE me.pc = "settip"
  BY <1>1, <1>5, ChainRepairable, ZenonT(60) DEF IndexInv, CallInv
<1>6. CASE me.pc = "retreat"
  <2>1. /\ me.blk \in Blocks \ {Genesis} /\ me.tip \in Blocks
        /\ Height[me.tip] = Height[me.blk] /\ Linked(me.tip)
        /\ index = Chain[Parent[me.tip]]
    BY <1>1, <1>6, ZenonT(60) DEF IndexInv, CallInv
  <2>2. me.tip # Genesis
    BY <2>1, ChainShape
  <2>3. /\ Parent[me.tip] \in Blocks /\ Height[me.tip] >= 1 /\ Height[me.tip] \in Nat
        /\ Chain[me.tip][Height[me.tip] - 1] = Parent[me.tip]
    BY <2>1, <2>2, ParentFacts, ShapeFacts, ZenonT(60)
  <2>4. Height[me.tip] - 1 \in 0..Height[me.tip]
    BY <2>3, SMTT(60)
  <2>5. Linked(Parent[me.tip])
    BY <2>1, <2>3, <2>4, LinkedMember, ZenonT(60)
  <2> QED
    BY <2>1, <2>3, <2>5, ChainRepairable, ZenonT(60)
<1> QED
  BY <1>1, <1>2, <1>3, <1>4, <1>5, <1>6, ZenonT(60) DEF PCs, Whole

\* After repair_chain the index is one chain and no call is left.
LEMMA RestartStep ==
  ASSUME SingleWriter, ChainInv, Restart
  PROVE  ChainInv'
<1>1. TypeOK /\ TipInv
  BY DEF ChainInv
<1>2. PICK c, m : Repairable(c, m)
  BY AlwaysRepairable
<1>3. Follow(c)' /\ TipInv' /\ c \in Blocks
  BY <1>1, <1>2, RepairLeaves, ZenonT(60) DEF Repairable
<1>4. /\ stored' = stored /\ weighed' = {} /\ orphans' = {}
      /\ todo' = [w \in Writers |-> {}] /\ task' = [w \in Writers |-> Idle]
      /\ offers' = offers /\ rejects' = rejects
      /\ crashes < MaxCrashes /\ crashes' = crashes + 1
  BY DEF Restart
<1>5. W \in Writers /\ me' = Idle
  <2>1. W \in Writers
    BY DEF SingleWriter
  <2> QED
    BY <1>4, <2>1 DEF me
<1>6. Idle \in Calls /\ me'.pc = "idle"
  BY <1>5, ZenonT(60) DEF Idle, Call, Calls, PCs, Callers
<1>7. DOMAIN index' \subseteq Nat /\ \A h \in DOMAIN index' : index'[h] \in Blocks
  BY <1>3, ShapeFacts DEF Follow
<1>8. crashes' \in 0..MaxCrashes
  BY <1>1, <1>4, ChainConstants DEF TypeOK
<1>9. task' \in [Writers -> Calls] /\ todo' \in [Writers -> SUBSET Blocks]
  BY <1>4, <1>6, ZenonT(60)
<1>10. TypeOK'
  BY <1>1, <1>3, <1>4, <1>7, <1>8, <1>9, ZenonT(60) DEF TypeOK, TipInv
<1>11. CallInv'
  BY <1>4, <1>5, <1>6, ZenonT(60) DEF CallInv
<1>12. IndexInv'
  BY <1>3, <1>6 DEF IndexInv, Whole
<1> QED
  BY <1>3, <1>10, <1>11, <1>12, ZenonT(60) DEF ChainInv

\* A freshly seeded store satisfies the invariant.
LEMMA InitInv ==
  ASSUME SingleWriter, Init
  PROVE  ChainInv
<1>1. Height[Genesis] = 0 /\ Genesis \in Blocks
  BY ChainConstants, ChainShape
<1>2. Chain[Genesis] \in [0..0 -> Blocks] /\ Chain[Genesis][0] = Genesis
  BY <1>1, ShapeFacts, ZenonT(60)
<1>3. 0..0 = {0}
  OBVIOUS
<1>4. index = Chain[Genesis]
  BY <1>2, <1>3 DEF Init
<1>5. Linked(Genesis)
  BY <1>1, <1>2, <1>3, ZenonT(60) DEF Linked, Init
<1>6. Follow(Genesis) /\ TipInv
  BY <1>1, <1>4, <1>5 DEF Follow, TipInv, Init
<1>7. W \in Writers /\ me = Idle
  <2>1. W \in Writers
    BY DEF SingleWriter
  <2> QED
    BY <2>1 DEF me, Init
<1>8. Idle \in Calls /\ me.pc = "idle"
  BY <1>7 DEF Idle, Call, Calls, PCs, Callers
<1>9. task \in [Writers -> Calls] /\ todo \in [Writers -> SUBSET Blocks] /\ todo[W] = {}
  BY <1>7, <1>8 DEF Init
<1>10. TypeOK
  BY <1>1, <1>9, ChainConstants DEF TypeOK, Init
<1>11. CallInv
  BY <1>8, <1>9, ZenonT(60) DEF CallInv, Init
<1>12. IndexInv
  BY <1>1, <1>6, <1>8 DEF IndexInv, Whole
<1> QED
  BY <1>6, <1>10, <1>11, <1>12, ZenonT(60) DEF ChainInv

\* Every step keeps the invariant.
LEMMA NextInv ==
  ASSUME SingleWriter, ChainInv, [Next]_vars
  PROVE  ChainInv'
<1>1. \A w \in Writers : w = W
  BY DEF SingleWriter
<1>2. CASE \E w \in Writers, b \in Blocks : StoreHeader(w, b)
  BY <1>1, <1>2, StoreHeaderStep
<1>3. CASE \E w \in Writers, b \in Blocks, via \in {"data", "blocks"}, c \in BOOLEAN :
             ReceiveBlock(w, b, via, c)
  BY <1>1, <1>3, ReceiveBlockStep
<1>4. CASE \E w \in Writers : AdoptHeaviestFork(w)
  BY <1>1, <1>4, AdoptStep
<1>5. CASE \E w \in Writers : Step(w)
  <2>1. Step(W)
    BY <1>1, <1>5
  <2>2. CASE PutRaw(W)  BY <2>2, PutRawStep
  <2>3. CASE PutRootBlock(W)  BY <2>3, PutRootBlockStep, SMTT(60)
  <2>4. CASE ReadTip(W)  BY <2>4, ReadTipStep
  <2>5. CASE Weigh(W)  BY <2>5, WeighStep
  <2>6. CASE Walk(W)  BY <2>6, WalkStep
  <2>7. CASE ReadTop(W)  BY <2>7, ReadTopStep
  <2>8. CASE Cut(W)  BY <2>8, CutStep
  <2>9. CASE Assign(W)  BY <2>9, AssignStep
  <2>10. CASE SetBestTip(W)  BY <2>10, SetBestTipStep
  <2>11. CASE Rollback(W)  BY <2>11, RollbackStep
  <2>12. CASE Detach(W)  BY <2>12, DetachStep
  <2>13. CASE Retreat(W)  BY <2>13, RetreatStep
  <2>14. CASE Admit(W)  BY <2>14, AdmitStep
  <2>15. CASE TakeOrphans(W)  BY <2>15, TakeOrphansStep
  <2>16. CASE ProcessOrphan(W)  BY <2>16, ProcessOrphanStep
  <2>17. CASE FinishOrphans(W)  BY <2>17, FinishOrphansStep
  <2> QED
    BY <2>1, <2>2, <2>3, <2>4, <2>5, <2>6, <2>7, <2>8, <2>9, <2>10, <2>11, <2>12,
       <2>13, <2>14, <2>15, <2>16, <2>17, ZenonT(60) DEF Step
<1>6. CASE Restart
  BY <1>6, RestartStep
<1>7. CASE UNCHANGED vars
  <2>1. UNCHANGED <<stored, index, tip, weighed, task, orphans, todo, offers, rejects, crashes>>
    BY <1>7 DEF vars, pool, counts
  <2>2. me' = me
    BY <2>1, ZenonT(60) DEF me
  <2>3. TypeOK' /\ TipInv' /\ CallInv'
    BY <2>1, <2>2, ZenonT(60) DEF ChainInv, TypeOK, TipInv, CallInv, Linked, Better
  <2>4. IndexInv'
    <3>1. \A b \in Blocks : Linked(b)' <=> Linked(b)
      BY <2>1, ZenonT(60) DEF Linked
    <3>2. \A t : Follow(t) => Follow(t)'
      BY <2>1, <3>1, ZenonT(60) DEF Follow
    <3>3. \A t, b, f : Forked(t, b, f) => Forked(t, b, f)'
      BY <2>1, ZenonT(60) DEF Forked, Linked
    <3>4. \A b, h : WalkedTo(b, h) => WalkedTo(b, h)'
      BY <2>1, ZenonT(60) DEF WalkedTo, IndexedAt
    <3>5. IndexInv
      BY DEF ChainInv
    <3> QED
      BY <2>1, <2>2, <3>2, <3>3, <3>4, <3>5, ZenonT(60) DEF IndexInv, IndexedAt, Linked
  <2> QED
    BY <2>3, <2>4 DEF ChainInv
<1> QED
  BY <1>2, <1>3, <1>4, <1>5, <1>6, <1>7 DEF Next

\* At rest the index is the chain of its highest block.
LEMMA QuietFollows ==
  ASSUME SingleWriter, ChainInv, Quiet
  PROVE  Follow(index[Latest])
<1>1. me.pc = "idle"
  BY ZenonT(60) DEF SingleWriter, Quiet, me
<1>2. PICK t \in Blocks : Follow(t)
  BY <1>1, WholeFollows DEF Whole
<1> QED
  BY <1>2, FollowLatest DEF Follow

-----------------------------------------------------------------------------
(* Theorems *)

\* The inductive invariant holds of every behaviour of one writer.
THEOREM ChainInvariant == SingleWriter => (Spec => []ChainInv)
<1> SUFFICES ASSUME SingleWriter PROVE Spec => []ChainInv
  OBVIOUS
<1>1. Init => ChainInv
  BY InitInv
<1>2. ChainInv /\ [Next]_vars => ChainInv'
  BY NextInv
<1> QED
  BY <1>1, <1>2, PTL DEF Spec

\* The variables keep their types (the fields of a call stay heights and
\* blocks: rollback_block_at_height never counts below zero).
THEOREM ChainTypes == SingleWriter => (Spec => []TypeOK)
<1> SUFFICES ASSUME SingleWriter PROVE Spec => []TypeOK
  OBVIOUS
<1>1. Spec => []ChainInv
  BY ChainInvariant
<1>2. ChainInv => TypeOK
  BY DEF ChainInv
<1> QED
  BY <1>1, <1>2, PTL

\* Between calls the height index is one complete chain, for any tree of
\* blocks and after a crash at any write of make_canonical or of
\* rollback_block_at_height.
THEOREM IndexIsOneChain == SingleWriter => (Spec => []OneChain)
<1> SUFFICES ASSUME SingleWriter PROVE Spec => []OneChain
  OBVIOUS
<1>1. Spec => []ChainInv
  BY ChainInvariant
<1>2. ChainInv => OneChain
  BY QuietFollows, ZenonT(60) DEF OneChain, Follow
<1> QED
  BY <1>1, <1>2, PTL

\* Between calls, until a restart, the best tip is the top of the index.
THEOREM TipIsCanonical == SingleWriter => (Spec => []CanonicalTip)
<1> SUFFICES ASSUME SingleWriter PROVE Spec => []CanonicalTip
  OBVIOUS
<1>1. Spec => []ChainInv
  BY ChainInvariant
<1>2. ChainInv => CanonicalTip
  BY QuietFollows DEF CanonicalTip, Follow
<1> QED
  BY <1>1, <1>2, PTL

-----------------------------------------------------------------------------
(* Refinement *)

\* The steps that store a block, set the tip, let a rival in, or restart are
\* the steps of the fork choice; all others leave what it sees alone.
LEMMA StepRefines ==
  ASSUME SingleWriter, ChainInv, ChainInv', [Next]_vars
  PROVE  FC!Next \/ UNCHANGED FC!choice
<1>1. \A w \in Writers : w = W
  BY DEF SingleWriter
<1>2. TypeOK /\ TipInv /\ CallInv /\ IndexInv /\ TipInv'
  BY DEF ChainInv
<1>3. CASE UNCHANGED <<stored, tip, crashes>>
  BY <1>3 DEF FC!choice
<1>4. CASE PutRaw(W) \/ PutRootBlock(W)
  <2>1. /\ me.pc \in {"raw", "put"} /\ stored' = stored \cup {me.blk}
        /\ UNCHANGED <<tip, crashes>>
    BY <1>4, ZenonT(60) DEF PutRaw, PutRootBlock, me, counts
  <2>2. me.blk \in Blocks
    BY <1>2, <2>1 DEF CallInv
  <2> QED
    BY <2>1, <2>2, ZenonT(60) DEF FC!Next, FC!Hold
<1>5. CASE SetBestTip(W)
  <2>1. /\ me.pc = "settip" /\ tip' = me.blk /\ UNCHANGED <<stored, crashes>>
        /\ Linked(me.blk) /\ me.blk \in Blocks /\ Better(me.blk)
    BY <1>2, <1>5, ZenonT(60) DEF SetBestTip, me, counts, IndexInv, CallInv
  <2>2. me.blk \in stored
    <3>1. Height[me.blk] \in Nat /\ Chain[me.blk][Height[me.blk]] = me.blk
      BY <2>1, ShapeFacts
    <3>2. Height[me.blk] \in 0..Height[me.blk]
      BY <3>1
    <3> QED
      BY <2>1, <3>1, <3>2, ZenonT(60) DEF Linked
  <2> QED
    BY <2>1, <2>2, SMTT(60) DEF FC!Next, FC!Adopt, FC!Complete, Linked, Better
<1>6. CASE Retreat(W)
  <2>1. /\ me.pc = "retreat" /\ UNCHANGED <<stored, crashes>>
        /\ tip' = IF tip = me.tip /\ me.at - 1 \in DOMAIN index THEN index[me.at - 1] ELSE tip
    BY <1>6, ZenonT(60) DEF Retreat, me, counts
  <2>2. /\ me.blk \in Blocks \ {Genesis} /\ me.tip \in Blocks \ {me.blk}
        /\ Height[me.tip] = Height[me.blk] /\ me.at = Height[me.blk]
        /\ index = Chain[Parent[me.tip]]
    <3>1. me.blk \in Blocks \ {Genesis}
      BY <1>2, <2>1, ZenonT(60) DEF CallInv
    <3>2. /\ me.tip \in Blocks \ {me.blk} /\ Height[me.tip] = me.at
          /\ me.at = Height[me.blk] /\ index = Chain[Parent[me.tip]]
      BY <1>2, <2>1, ZenonT(60) DEF IndexInv
    <3> QED
      BY <3>1, <3>2
  <2>3. CASE tip' = tip
    BY <1>3, <2>1, <2>3, ZenonT(60)
  <2>4. CASE tip' # tip
    <3>1. tip = me.tip /\ tip' = index[me.at - 1]
      BY <2>1, <2>4, ZenonT(60)
    <3>2. me.tip # Genesis
      BY <2>2, ChainShape
    <3>3. Parent[me.tip] \in Blocks /\ Height[Parent[me.tip]] = me.at - 1
      <4>1. PICK t \in Blocks \ {Genesis} : t = me.tip
        BY <2>2, <3>2
      <4>2. Parent[t] \in Blocks /\ Height[Parent[t]] = Height[t] - 1
        BY <4>1, ParentFacts, ZenonT(60)
      <4> QED
        BY <2>2, <4>1, <4>2
    <3>4. index[me.at - 1] = Parent[me.tip]
      BY <2>2, <3>3, ShapeFacts
    <3> QED
      BY <2>1, <2>2, <3>1, <3>4, ZenonT(60) DEF FC!Next, FC!GiveWay
  <2> QED
    BY <2>3, <2>4, ZenonT(60)
<1>7. CASE Restart
  <2>1. stored' = stored /\ crashes' = crashes + 1
    BY <1>7 DEF Restart
  <2>2. tip' \in Blocks /\ \A h \in 0..Height[tip'] : Chain[tip'][h] \in stored
    BY <1>2, <2>1 DEF TipInv, Linked
  <2>3. tip' \in stored
    <3>1. Height[tip'] \in Nat /\ Chain[tip'][Height[tip']] = tip'
      BY <2>2, ShapeFacts
    <3>2. Height[tip'] \in 0..Height[tip']
      BY <3>1
    <3> QED
      BY <2>2, <3>1, <3>2, ZenonT(60)
  <2> QED
    BY <2>1, <2>2, <2>3 DEF FC!Next, FC!Recover, FC!Complete
<1>8. CASE \E w \in Writers, b \in Blocks : StoreHeader(w, b)
  BY <1>3, <1>8, ZenonT(60) DEF StoreHeader
<1>9. CASE \E w \in Writers, b \in Blocks, via \in {"data", "blocks"}, c \in BOOLEAN :
             ReceiveBlock(w, b, via, c)
  BY <1>3, <1>9, SMTT(60) DEF ReceiveBlock
<1>10. CASE \E w \in Writers : AdoptHeaviestFork(w)
  BY <1>3, <1>10, SMTT(60) DEF AdoptHeaviestFork, counts
<1>11. CASE Step(W)
  BY <1>3, <1>4, <1>5, <1>6, <1>11, ZenonT(60)
     DEF Step, ReadTip, Weigh, Walk, ReadTop, Cut, Assign, Rollback, Detach, Admit,
         TakeOrphans, ProcessOrphan, FinishOrphans, counts
<1>12. CASE UNCHANGED vars
  BY <1>3, <1>12 DEF vars, counts
<1> QED
  BY <1>1, <1>7, <1>8, <1>9, <1>10, <1>11, <1>12 DEF Next

\* With one writer the store implements the fork choice it promises, for any
\* tree of blocks and across crashes between any two of its writes.
THEOREM ChainRefinesForkChoice == SingleWriter => (Spec => ImplementsForkChoice)
<1> SUFFICES ASSUME SingleWriter PROVE Spec => FC!Spec
  BY DEF ImplementsForkChoice
<1>1. Spec => []ChainInv
  BY ChainInvariant
<1>2. Init => FC!Init
  BY DEF Init, FC!Init
<1>3. ChainInv /\ ChainInv' /\ [Next]_vars => [FC!Next]_(FC!choice)
  BY StepRefines
<1> QED
  BY <1>1, <1>2, <1>3, PTL DEF Spec, FC!Spec
=============================================================================
