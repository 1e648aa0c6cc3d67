------------------------------- MODULE Ledger -------------------------------
(***************************************************************************)
(* What a node derives from its canonical chain: the marks of finalized    *)
(* actions, the two stages of a block's side effects, the sponsorships it  *)
(* grants, and the actions a displaced block gives back to the mempool     *)
(* (src/node/router/router.rs, src/storage/chain.rs).                      *)
(*                                                                         *)
(* Handlers, the formation task and the sync loop run side by side.  Each  *)
(* write to another tree of the store is a step of its own, but a change   *)
(* of the canonical chain is one step here: ChainStore takes it apart.     *)
(* A root block has one content block, which arrives with it or later.     *)
(***************************************************************************)
EXTENDS Integers, FiniteSets, Sequences

CONSTANTS
  Blocks, Genesis, NoBlock,
  Parent, Height,
  Chain,      \* block -> [0..Height[b] -> Blocks], its ancestry
  Weight,     \* block -> work of its chain
  Rank,       \* block -> its place in the order of hashes
  Carries,    \* block -> the actions of its content block, in order
  Actions,
  Grants,     \* the Sponsor actions among them
  Author,     \* action -> the identity that signed it
  Sponsee,    \* grant -> the identity it admits
  Root,       \* the hardcoded genesis identity
  Heard,      \* actions peers announce
  Handlers,   \* tasks inside the router
  SyncLoop,   \* the periodic task, also the startup repair
  MaxScan,    \* the 64 heights the sync loop takes at a time
  MaxCrashes, \* bound: restarts
  Watched     \* the block AppliedInTheEnd follows, any but genesis

ASSUME LedgerConstants ==
  /\ Genesis \in Blocks /\ NoBlock \notin Blocks
  /\ Height \in [Blocks -> Nat]
  /\ Carries \in [Blocks -> Seq(Actions)] /\ Carries[Genesis] = << >>
  /\ \A b, c \in Blocks : b # c => Rank[b] # Rank[c]
  /\ Grants \subseteq Actions /\ Heard \subseteq Actions
  /\ SyncLoop \notin Handlers
  /\ Watched \in Blocks \ {Genesis}
  /\ MaxScan \in Nat \ {0} /\ MaxCrashes \in Nat

\* A chain is its parent's with the block on top.
ASSUME LedgerChains ==
  /\ Height[Genesis] = 0
  /\ \A b \in Blocks \ {Genesis} : Parent[b] \in Blocks /\ Height[b] = Height[Parent[b]] + 1
  /\ \A b \in Blocks : Chain[b] \in [0..Height[b] -> Blocks] /\ Chain[b][Height[b]] = b
  /\ \A b \in Blocks \ {Genesis} : \A h \in 0..Height[Parent[b]] :
       Chain[b][h] = Chain[Parent[b]][h]
  /\ \A b \in Blocks : \A h \in 0..Height[b] : Height[Chain[b][h]] = h

Workers == Handlers \cup {SyncLoop}
Heights == {Height[b] : b \in Blocks}
Unmarked == -1
ActionsOf(b) == {Carries[b][i] : i \in DOMAIN Carries[b]}

VARIABLES
  roots,      \* root_blocks
  tip,        \* best_tip; the height index is its ancestry
  bodies,     \* blocks whose space and content blocks are stored
  spaces,     \* blocks whose space block is stored, with or without content
  skipped,    \* skipped_content_blocks
  marks,      \* finalized_actions: action -> height, or Unmarked
  state,      \* applied_side_effects: block -> 0, 1 or 2
  sponsored,  \* identities in the sponsorship store
  pending, seen,   \* the mempool's actions, and its seen_actions
  job,        \* worker -> where it is, on which block, with what it has read
  cursor,     \* applied_scan_cursor
  booting,    \* the startup repair has not finished
  crashes,
  owed        \* history: adopted blocks whose stage 1 has not run since

store == <<roots, tip, bodies, spaces, skipped, marks, state, sponsored>>
mempool == <<pending, seen>>
vars == <<store, mempool, job, cursor, booting, crashes, owed>>

PCs == {"idle", "clear", "body", "put", "read", "effects", "flag", "grants"}
Vias == {"none", "data", "blocks", "orphan", "form", "scan"}
\* Places of the Sponsor actions in a block.
GrantsIn(b) == {i \in DOMAIN Carries[b] : Carries[b][i] \in Grants}
\* A worker on block b, with the heights and the grants it still has to go
\* through, and whether every grant so far was applied (fully_applied).
Job(pc, via, b, todo) ==
  [pc |-> pc, via |-> via, blk |-> b, todo |-> todo,
   left |-> IF b = NoBlock THEN {} ELSE GrantsIn(b), full |-> TRUE]
Idle == Job("idle", "none", NoBlock, {})

\* A new chain, once the sync loop has been over its genesis block.
Init ==
  /\ roots = {Genesis}
  /\ tip = Genesis
  /\ bodies = {Genesis}
  /\ spaces = {Genesis}
  /\ skipped = {}
  /\ marks = [a \in Actions |-> Unmarked]
  /\ state = [b \in Blocks |-> IF b = Genesis THEN 2 ELSE 0]
  /\ sponsored = {}
  /\ pending = {}
  /\ seen = {}
  /\ job = [w \in Workers |-> Idle]
  /\ cursor = 0
  /\ booting = FALSE
  /\ crashes = 0
  /\ owed = {}
  
-----------------------------------------------------------------------------
(* Reading the chain *)

Latest == Height[tip]
At(h) == Chain[tip][h]
Canonical(b) == Height[b] <= Latest /\ At(Height[b]) = b
Linked(b) == \A h \in 0..(Height[b] - 1) : Chain[b][h] \in roots
Heavier(b) == Parent[b] = tip \/ (Linked(b) /\ Weight[b] > Weight[tip])

HashWins(b, c) == Rank[b] < Rank[c]
\* The verdict at a contested height.  Without both action counts, and always
\* in the orphan path, the hash decides; nothing below the tip gives way.
WinsHeight(b, via) ==
  LET c == At(Height[b])
      counted == via = "data" \/ (via = "blocks" /\ b \in bodies)
  IN  /\ Height[b] = Latest
      /\ IF via # "orphan" /\ Linked(b) /\ Weight[b] # Weight[c]
           THEN Weight[b] > Weight[c]
           ELSE IF counted /\ c \in bodies /\ Len(Carries[b]) # Len(Carries[c])
                  THEN Len(Carries[b]) > Len(Carries[c])
                  ELSE HashWins(b, c)

\* is_authorized_in_space, for grants that are not limited to a space.
Authorized(i) == i = Root \/ i \in sponsored

-----------------------------------------------------------------------------
(* Marks *)

\* Variant: marked at the height of the block to come.
MarkNext(m, b) ==
  [a \in Actions |-> IF a \in ActionsOf(b) THEN Height[b] + 1 ELSE m[a]]

\* mark_content_block_actions_finalized.
Mark(m, b) == [a \in Actions |-> IF a \in ActionsOf(b) THEN Height[b] ELSE m[a]]
\* rollback_single_height: whatever height the mark names.
Unmark(m, B) ==
  [a \in Actions |-> IF \E b \in B : a \in ActionsOf(b) THEN Unmarked ELSE m[a]]
\* unmark_actions_for_root: only marks at the displaced block's own height.
UnmarkOwn(m, B) ==
  [a \in Actions |-> IF \E b \in B : a \in ActionsOf(b) /\ m[a] = Height[b]
                       THEN Unmarked ELSE m[a]]
\* unmark_actions_at_height, over a range: the stored canonical blocks' actions
\* and every mark that names one of the heights.
UnmarkHeights(m, H) ==
  LET B == {b \in bodies : Canonical(b) /\ Height[b] \in H} IN
  [a \in Actions |-> IF m[a] \in H THEN Unmarked ELSE Unmark(m, B)[a]]

\* canonical_block_contains_action is not Some(false): the block is there with
\* the action, or its content is not.
MayContain(h, a) ==
  h <= Latest => (At(h) \in bodies => a \in ActionsOf(At(h)))

\* A content block is refused for an action finalized at another height,
\* unless that mark is provably stale.
Reincludes(b) ==
  \E a \in ActionsOf(b) :
    marks[a] \notin {Unmarked, Height[b]} /\ MayContain(marks[a], a)

-----------------------------------------------------------------------------
(* Leaving and returning to the mempool *)

\* requeue_and_regossip_orphans, after the marks became m: actions of displaced
\* blocks whose content is stored, not finalized elsewhere and not seen.
Returned(B, m) ==
  {a \in UNION {ActionsOf(b) : b \in B \cap bodies} : m[a] = Unmarked}

\* Variant: asked before the displaced blocks' marks are gone.
RequeueEarly(B, m) ==
  LET back == Returned(B, marks) \ seen IN
  /\ pending' = pending \cup back
  /\ seen' = seen \cup back

Requeue(B, m) ==
  LET back == Returned(B, m) \ seen IN
  /\ pending' = pending \cup back
  /\ seen' = seen \cup back

\* Blocks that leave the canonical chain when b becomes the tip.
Displaced(b) ==
  {c \in Blocks : Canonical(c) /\ ~(Height[c] <= Height[b] /\ Chain[b][Height[c]] = c)}
NewlyCanonical(b) == {c \in Blocks : ~Canonical(c) /\ Height[c] <= Height[b] /\ Chain[b][Height[c]] = c}

\* make_canonical: the index and the tip, then what the displaced blocks left:
\* their marks, their stage, and skips judged against the losing chain.
Adopt(b) ==
  LET D == Displaced(b)
      fork == {h \in Heights : \E c \in D : Height[c] <= h}
  IN  /\ tip' = b
      /\ marks' = UnmarkOwn(marks, D \cap bodies)
      /\ state' = [c \in Blocks |-> IF c \in D THEN 0 ELSE state[c]]
      /\ skipped' = {c \in skipped : Height[c] \notin fork}
      /\ owed' = owed \cup NewlyCanonical(b)

Goto(w, pc) == job' = [job EXCEPT ![w].pc = pc]
Start(w, pc, via, b) ==
  /\ ~booting
  /\ job[w].pc = "idle"
  /\ job' = [job EXCEPT ![w] = Job(pc, via, b, {})]
\* The sync loop goes on to its next height, another worker returns.  The
\* startup repair is over when it has been through its heights.
Resume(rest) == IF rest = {} THEN Idle ELSE Job("read", "scan", NoBlock, rest)

-----------------------------------------------------------------------------
(* Blocks arrive *)

\* handle_headers, for one header: stored, and adopted when it outweighs.
ReceiveHeader(w, b) ==
  /\ ~booting
  /\ job[w].pc = "idle"
  /\ b \in roots => Height[b] > Latest
  /\ Parent[b] \in roots
  /\ roots' = roots \cup {b}
  /\ \/ /\ Heavier(b)
        /\ Adopt(b)
        /\ Requeue(Displaced(b), marks')
     \/ /\ ~Heavier(b)
        /\ UNCHANGED <<tip, marks, state, skipped, mempool, owed>>
  /\ UNCHANGED <<bodies, spaces, sponsored, job, cursor, booting, crashes>>

\* root_content_complete: a skipped content block counts as present, once the
\* space block that names it is there.
Complete(b) == b \in spaces /\ b \in bodies \cup skipped
\* What handle_block_data and handle_blocks call a known block without content.
LacksContent(b, via) == IF via = "data" THEN ~Complete(b) ELSE b \notin bodies

\* The early checks of handle_block_data, handle_blocks and
\* process_orphan_block_data.  The block that wins the tip's height rolls the
\* tip back, and the tip's actions return to the mempool.
ReceiveBlock(w, b, via) ==
  LET contested == Height[b] <= Latest /\ ~Canonical(b)
      wins == contested /\ WinsHeight(b, via)
      first == IF via = "data" THEN "clear" ELSE "body"
  IN  /\ b # Genesis
      /\ Parent[b] \in roots
      /\ \/ /\ contested /\ ~wins
            /\ ~booting /\ job[w].pc = "idle"
            /\ via # "orphan"
            /\ roots' = roots \cup {b}
            /\ UNCHANGED <<tip, marks, mempool, job>>
         \/ /\ wins
            /\ Start(w, first, via, b)
            /\ tip' = Parent[tip]
            /\ marks' = Unmark(marks, {tip} \cap bodies)
            /\ Requeue({tip}, marks')
            /\ UNCHANGED roots
         \/ /\ ~contested
            /\ Canonical(b) => via # "orphan" /\ LacksContent(b, via)
            /\ via = "data" => Height[b] <= Latest + 1
            /\ Start(w, first, via, b)
            /\ UNCHANGED <<roots, tip, marks, mempool>>
      /\ UNCHANGED <<bodies, spaces, skipped, state, sponsored, cursor, booting, crashes, owed>>

\* handle_block_data, before it checks for duplicates: a heavier block frees
\* the actions of the canonical blocks above the fork point, and any block
\* those marked at its own height.
ClearMarks(w) ==
  LET b == job[w].blk
      above == {h \in Heights : h <= Latest /\ Linked(b) /\ Weight[b] > Weight[tip]
                                /\ (h <= Height[b] => Chain[b][h] # At(h))}
  IN  /\ job[w].pc = "clear"
      /\ marks' = UnmarkHeights(marks, above \cup {Height[b]})
      /\ Goto(w, "body")
      /\ UNCHANGED <<roots, tip, bodies, spaces, skipped, state, sponsored, mempool, cursor,
                     booting, crashes, owed>>

\* handle_blocks asks that every author be sponsored, by the store or by a
\* grant of the same block.  (One content action of a grant needs no sponsor.)
AuthorsSponsored(b) ==
  \A a \in ActionsOf(b) \ Grants :
    Authorized(Author[a]) \/ \E g \in ActionsOf(b) \cap Grants : Sponsee[g] = Author[a]

\* The content block is stored and its actions marked, or refused.  A refusal
\* ends handle_block_data; handle_blocks has stored the space block and goes on
\* to the root; the orphan path checks nothing.
StoreBody(w) ==
  LET b == job[w].blk
      via == job[w].via
  IN  /\ job[w].pc = "body"
      /\ \/ /\ via = "blocks" /\ ~AuthorsSponsored(b)
            /\ job' = [job EXCEPT ![w] = Idle]
            /\ UNCHANGED <<bodies, spaces, skipped, marks>>
         \/ /\ via # "orphan" /\ Reincludes(b)
            /\ via = "blocks" => AuthorsSponsored(b)
            /\ skipped' = skipped \cup {b}
            /\ \/ /\ via = "data"
                  /\ job' = [job EXCEPT ![w] = Idle]
                  /\ UNCHANGED spaces
               \/ /\ via = "blocks"
                  /\ Goto(w, "put")
                  /\ spaces' = spaces \cup {b}
            /\ UNCHANGED <<bodies, marks>>
         \/ /\ via = "orphan" \/ ~Reincludes(b)
            /\ via = "blocks" => AuthorsSponsored(b)
            /\ bodies' = bodies \cup {b}
            /\ spaces' = spaces \cup {b}
            /\ marks' = Mark(marks, b)
            /\ Goto(w, "put")
            /\ UNCHANGED skipped
      /\ UNCHANGED <<roots, tip, state, sponsored, mempool, cursor, booting, crashes, owed>>

\* put_root_block_with_fork_resolution_reporting and what its caller does with
\* the displaced blocks.  The orphan path and the formation task do not ask for
\* them.  Only handle_block_data takes the block's actions out of the mempool.
PutRoot(w) ==
  LET b == job[w].blk
      via == job[w].via
      D == Displaced(b)
  IN  /\ job[w].pc = "put"
      /\ roots' = roots \cup {b}
      /\ \/ /\ Heavier(b)
            /\ Adopt(b)
            /\ \/ /\ via = "data"
                  /\ LET back == (Returned(D, marks') \ seen) IN
                     /\ pending' = (pending \cup back) \ ActionsOf(b)
                     /\ seen' = (seen \cup back) \ ActionsOf(b)
               \/ via = "blocks" /\ Requeue(D, marks')
               \/ via \in {"orphan", "form"} /\ UNCHANGED mempool
         \/ /\ ~Heavier(b)
            /\ UNCHANGED <<tip, marks, state, skipped, mempool, owed>>
      /\ Goto(w, "read")
      /\ UNCHANGED <<bodies, spaces, sponsored, cursor, booting, crashes>>

-----------------------------------------------------------------------------
(* Blocks are formed *)

\* handle_action_announce: not finalized, not seen, its author sponsored or
\* about to be.
ReceiveAction(a) ==
  /\ ~booting
  /\ marks[a] = Unmarked
  /\ a \notin seen
  /\ a \notin Grants =>
       \/ Authorized(Author[a])
       \/ \E g \in pending \cap Grants : Sponsee[g] = Author[a]
  /\ pending' = pending \cup {a}
  /\ seen' = seen \cup {a}
  /\ UNCHANGED <<store, job, cursor, booting, crashes, owed>>

\* The formation task drains the mempool into a block on the tip: what is not
\* finalized and whose authors are sponsored.  The rest is dropped, and every
\* hash stays in seen_actions.  Its actions are not marked here.
FormBlock(w, b) ==
  /\ Parent[b] = tip
  /\ ActionsOf(b) = {a \in pending : /\ marks[a] = Unmarked
                                     /\ a \in Grants \/ Authorized(Author[a])
                                        \/ \E g \in pending \cap Grants : Sponsee[g] = Author[a]}
  /\ b \notin roots
  /\ Start(w, "put", "form", b)
  /\ pending' = {}
  /\ bodies' = bodies \cup {b}
  /\ spaces' = spaces \cup {b}
  /\ UNCHANGED <<roots, tip, skipped, marks, state, sponsored, seen, cursor, booting,
                 crashes, owed>>

-----------------------------------------------------------------------------
(* reconcile_block_side_effects *)

\* Its reads.  The sync loop first looks up the block at its next height.
ReadState(w) ==
  LET h == IF job[w].via = "scan" THEN CHOOSE k \in job[w].todo : \A j \in job[w].todo : k <= j
           ELSE Height[job[w].blk]
      b == IF job[w].via = "scan" THEN (IF h <= Latest THEN At(h) ELSE NoBlock) ELSE job[w].blk
      rest == job[w].todo \ {h}
  IN  /\ job[w].pc = "read"
      /\ IF b # NoBlock /\ Canonical(b) /\ state[b] < 2 /\ b \in bodies
           THEN job' = [job EXCEPT ![w] = Job(IF state[b] < 1 THEN "effects" ELSE "grants",
                                              job[w].via, b, rest)]
           ELSE job' = [job EXCEPT ![w] = Resume(rest)]
      /\ booting' = (booting /\ job'[SyncLoop].pc # "idle")
      /\ UNCHANGED <<store, mempool, cursor, crashes, owed>>

\* What the pass read no longer holds: the block has been displaced, or
\* another pass has done stage 1 or is about to record it.
Stale(w) ==
  LET b == job[w].blk IN
  \/ state[b] # 0
  \/ ~Canonical(b)
  \/ \E v \in Workers \ {w} : job[v].pc = "flag" /\ job[v].blk = b

\* Stage 1: the content effects, some of them increments, and the marks anew.
ApplyEffects(w) ==
  LET b == job[w].blk IN
  /\ job[w].pc = "effects"
  /\ owed' = owed \ {b}
  /\ marks' = Mark(marks, b)
  /\ Goto(w, "flag")
  /\ UNCHANGED <<roots, tip, bodies, spaces, skipped, state, sponsored, mempool, cursor, booting,
                 crashes>>

\* Variant: the stage is not recorded.
SetStage1Unrecorded(w) ==
  /\ job[w].pc = "flag"
  /\ Goto(w, "grants")
  /\ UNCHANGED <<store, mempool, cursor, booting, crashes, owed>>

\* The first of its two set_side_effects_state.
SetStage1(w) ==
  /\ job[w].pc = "flag"
  /\ state' = [state EXCEPT ![job[w].blk] = 1]
  /\ Goto(w, "grants")
  /\ UNCHANGED <<roots, tip, bodies, spaces, skipped, marks, sponsored, mempool, cursor, booting,
                 crashes, owed>>

\* Variant: a grant that lacks its sponsor is passed over for good.
ApplyGrantAnyhow(w) ==
  /\ job[w].pc = "grants"
  /\ \E i \in job[w].left :
       LET a == Carries[job[w].blk][i] IN
       /\ \A j \in job[w].left : i <= j
       /\ sponsored' = IF Authorized(Author[a]) THEN sponsored \cup {Sponsee[a]} ELSE sponsored
       /\ job' = [job EXCEPT ![w].left = @ \ {i}]
  /\ UNCHANGED <<roots, tip, bodies, spaces, skipped, marks, state, mempool, cursor, booting,
                 crashes, owed>>

\* Stage 2, apply_sponsorship_actions_from_block: grants in order, each needing
\* its sponsor in the store; one that lacks it is left for a later pass.
ApplyGrant(w) ==
  /\ job[w].pc = "grants"
  /\ \E i \in job[w].left :
       LET a == Carries[job[w].blk][i] IN
       /\ \A j \in job[w].left : i <= j
       /\ sponsored' = IF Authorized(Author[a]) THEN sponsored \cup {Sponsee[a]} ELSE sponsored
       /\ job' = [job EXCEPT ![w].left = @ \ {i}, ![w].full = @ /\ Authorized(Author[a])]
  /\ UNCHANGED <<roots, tip, bodies, spaces, skipped, marks, state, mempool, cursor, booting,
                 crashes, owed>>

\* The second set_side_effects_state, when no grant was left out.
SetStage2(w) ==
  /\ job[w].pc = "grants"
  /\ job[w].left = {}
  /\ state' = IF job[w].full THEN [state EXCEPT ![job[w].blk] = 2] ELSE state
  /\ job' = [job EXCEPT ![w] = Resume(@.todo)]
  /\ booting' = (booting /\ job'[SyncLoop].pc # "idle")
  /\ UNCHANGED <<roots, tip, bodies, spaces, skipped, marks, sponsored, mempool, cursor, crashes,
                 owed>>

-----------------------------------------------------------------------------
(* The sync loop and restarts *)

\* Variant: stage 1 counts as done.
UnappliedOnce(t, st, h) == st[Chain[t][h]] < 1
Unapplied(t, st, h) == st[Chain[t][h]] < 2

\* find_unapplied_heights, on the chain of t with stages st: once around from the
\* cursor, stopping with enough.  The height at which it notices is not looked
\* at, and the cursor passes it.
Scan(from, t, st) ==
  LET span == Height[t] + 1
      at(i) == (from + i) % span
      hits(n) == {at(i) : i \in {j \in 0..(n - 1) : Unapplied(t, st, at(j))}}
      ends == {n \in 0..(span - 1) : Cardinality(hits(n)) >= MaxScan}
      stop == IF ends = {} THEN span ELSE CHOOSE n \in ends : \A m \in ends : n <= m
  IN  [heights |-> hits(stop),
       next    |-> IF ends = {} THEN from % span ELSE at(stop + 1)]

\* heaviest_adoptable_fork_tip: stored, linked, and none outweighs it.
Adoptable == {b \in roots : Linked(b) /\ Weight[b] > Weight[tip]}
Heaviest == {b \in Adoptable : \A c \in Adoptable : Weight[c] <= Weight[b]}

\* A tick of the sync loop: adopt a stored branch that outweighs the tip, ask
\* peers for missing content (see Backfill), and reconcile the heights that are
\* not applied.
SyncTick ==
  LET found == Scan(cursor, tip', state') IN
  /\ ~booting
  /\ job[SyncLoop].pc = "idle"
  /\ \/ \E b \in Heaviest : Adopt(b) /\ Requeue(Displaced(b), marks')
     \/ Heaviest = {} /\ UNCHANGED <<tip, marks, state, skipped, mempool, owed>>
  /\ cursor' = found.next
  /\ job' = [job EXCEPT ![SyncLoop] = Resume(found.heights)]
  /\ UNCHANGED <<roots, bodies, spaces, sponsored, booting, crashes>>

\* The process dies; seen_actions is rebuilt from the saved mempool, and
\* repair_sponsorship_store goes through every block short of stage 2 before
\* anything else starts.
Restart ==
  LET short == {h \in 0..Latest : h >= 1 /\ Unapplied(tip, state, h)} IN
  /\ crashes < MaxCrashes
  /\ crashes' = crashes + 1
  /\ seen' = pending
  /\ job' = [w \in Workers |-> IF w = SyncLoop THEN Resume(short) ELSE Idle]
  /\ booting' = (short # {})
  /\ cursor' = 0
  /\ owed' = owed \cup {job[w].blk : w \in {v \in Workers : job[v].pc = "flag"}}
  /\ UNCHANGED <<store, pending>>

-----------------------------------------------------------------------------

Deliver(w, b) ==
  \/ ReceiveHeader(w, b)
  \/ \E via \in {"data", "blocks", "orphan"} : ReceiveBlock(w, b, via)
Work(w) ==
  \/ ClearMarks(w) \/ StoreBody(w) \/ PutRoot(w)
  \/ ReadState(w) \/ ApplyEffects(w) \/ SetStage1(w)
  \/ ApplyGrant(w) \/ SetStage2(w)

Next ==
  \/ \E w \in Handlers, b \in Blocks \ {Genesis} : Deliver(w, b) \/ FormBlock(w, b)
  \/ \E w \in Workers : Work(w)
  \/ \E a \in Heard : ReceiveAction(a)
  \/ SyncTick
  \/ Restart

Spec == Init /\ [][Next]_vars

\* Every worker finishes what it began and the sync loop ticks.  A peer that
\* holds the content answers a backfill request.
Backfill(b) ==
  /\ Canonical(b) /\ ~Complete(b)
  /\ \E w \in Handlers : ReceiveBlock(w, b, "blocks")
FairSpec ==
  /\ Spec
  /\ \A w \in Handlers : WF_vars(Work(w))
  /\ WF_vars(SyncTick \/ Work(SyncLoop))
  /\ \A b \in Blocks \ {Genesis} : SF_vars(Backfill(b))

-----------------------------------------------------------------------------
(* Properties *)

\* The types of the node's trees, mempool and workers.
TypeOK ==
  /\ roots \subseteq Blocks /\ tip \in roots
  /\ bodies \subseteq spaces /\ spaces \subseteq Blocks /\ skipped \subseteq Blocks
  /\ marks \in [Actions -> Heights \cup {Unmarked}]
  /\ state \in [Blocks -> 0..2]
  /\ sponsored \subseteq {Sponsee[g] : g \in Grants}
  /\ pending \subseteq Actions /\ seen \subseteq Actions
  /\ \A w \in Workers :
       /\ job[w].pc \in PCs /\ job[w].via \in Vias
       /\ job[w].blk \in Blocks \cup {NoBlock}
       /\ job[w].todo \subseteq Heights
  /\ cursor \in Heights

\* reconcile_block_side_effects promises that a block's content effects, some of
\* which increment counters, run once each time the block becomes canonical: a
\* pass whose reads still hold finds the block adopted and not yet processed,
\* whichever of the handlers, the sync loop and the startup repair went before.
\* (A restart between the effects and the stage repeats them, and so does a pass
\* that has read the stage another pass is about to write.)
EffectsOnce ==
  [][\A w \in Workers :
       job[w].pc = "effects" /\ job'[w].pc = "flag" /\ ~Stale(w) => job[w].blk \in owed]_vars

\* Stage 2, which keeps a block out of every later pass, is recorded only when
\* every identity the block's Sponsor actions admit is in the sponsorship store,
\* in whatever order the blocks that admit their sponsors were applied.
AppliedMeansGranted ==
  \A b \in Blocks : state[b] = 2 => \A a \in ActionsOf(b) \cap Grants : Sponsee[a] \in sponsored

\* The work of a block that a header, a block or the sync loop displaces is not
\* lost (requeue_and_regossip_orphans): each of its actions is pending again,
\* finalized elsewhere, in the block put in its place, or one this node's own
\* builder has already drained, which its seen_actions refuse.  The orphan pool
\* and the formation task displace blocks without asking what they held.
LosersReturn ==
  [][\A c \in bodies :
       /\ Canonical(c) /\ ~Canonical(c)'
       /\ \A w \in Handlers :
            job[w].pc = "put" /\ job'[w].pc = "read" => job[w].via \in {"data", "blocks"}
       => \A a \in ActionsOf(c) :
            a \in pending' \cup (seen \ pending) \cup ActionsOf(tip') \/ marks'[a] # Unmarked]_vars

\* Whatever handler stored it, whatever was missing when it did and wherever the
\* process died, a block that stays canonical is fully applied in the end, unless
\* its content was refused: the sync loop comes back to every height short of
\* stage 2 and asks for content that is not there.
AppliedInTheEnd ==
  Canonical(Watched) ~> (state[Watched] = 2 \/ ~Canonical(Watched) \/ Watched \in skipped)

=============================================================================
