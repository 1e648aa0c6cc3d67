---------------------------- MODULE MCChainStore ----------------------------
(* ChainStore on a small tree of blocks: three branches from genesis, of    *)
(* different lengths and works: a1 and b1 tie, so do a2 and c2; b2 and c2   *)
(* add no work; c1 alone outweighs b2, and b3 everything.                   *)
EXTENDS ChainStore

\* block -> [parent, own work]
Tree == [g |-> <<"none", 0>>,
         a1 |-> <<"g", 2>>, a2 |-> <<"a1", 1>>,
         b1 |-> <<"g", 2>>, b2 |-> <<"b1", 0>>, b3 |-> <<"b2", 2>>,
         c1 |-> <<"g", 3>>, c2 |-> <<"c1", 0>>]

TreeBlocks == DOMAIN Tree
TreeParent == [b \in TreeBlocks |-> Tree[b][1]]
TreeHeight[b \in TreeBlocks] == IF b = "g" THEN 0 ELSE TreeHeight[Tree[b][1]] + 1
TreeWeight[b \in TreeBlocks] ==
  Tree[b][2] + IF b = "g" THEN 0 ELSE TreeWeight[Tree[b][1]]
TreeChain[b \in TreeBlocks] ==
  [h \in 0..TreeHeight[b] |->
     IF h = TreeHeight[b] THEN b ELSE TreeChain[Tree[b][1]][h]]
TreeLoad == [g |-> 0, a1 |-> 1, a2 |-> 1, b1 |-> 2, b2 |-> 1, b3 |-> 1, c1 |-> 1, c2 |-> 1]
TreeRank == [g |-> 0, a1 |-> 1, a2 |-> 2, b1 |-> 3, b2 |-> 4, b3 |-> 5, c1 |-> 6, c2 |-> 7]
=============================================================================
