--------------------------- MODULE MCBlockBuilder ---------------------------
(* Small instances of the mempool: actions, threads, spaces and authors are *)
(* strings, so that the constant functions are written as records.          *)
EXTENDS BlockBuilder

\* Three actions in three spaces compete for two places.  One has an edit in its
\* thread, which competes with it for their space when it is offered again.  No
\* network block removes a slot below the edit's target.
PlainActor == [p |-> "alice", q |-> "alice", z |-> "bob", e |-> "alice"]
PlainPow == [p |-> 2, q |-> 2, z |-> 1, e |-> 1]
PlainThread == [p |-> "t1", q |-> "t3", z |-> "t2", e |-> "t1"]
PlainSpace == [t1 |-> "s1", t2 |-> "s2", t3 |-> "s3"]
PlainReplaces == [p |-> "none", q |-> "none", z |-> "none", e |-> "p"]
PlainBlocks == {{"p", "z"}}

\* An edit e of the post p, in p's thread, next to another post q of the author.
EditActor == [p |-> "alice", q |-> "alice", e |-> "alice"]
EditPow == [p |-> 1, q |-> 1, e |-> 1]
EditThread == [p |-> "t1", q |-> "t1", e |-> "t1"]
EditSpace == [t1 |-> "s1"]
EditReplaces == [p |-> "none", q |-> "none", e |-> "q"]
EditBlocks == {{"p"}}
=============================================================================
