---------------------------- MODULE LedgerProofs ----------------------------
(***************************************************************************)
(* TypeOK, AppliedMeansGranted, EffectsOnce and LosersReturn for any tree  *)
(* of blocks, any actions and grants, any number of handlers and any       *)
(* number of restarts.                                                     *)
(***************************************************************************)
EXTENDS Ledger, WellFoundedInduction, TLAPS

\* What the stores hold, and that every stored root has its parent stored: a
\* roll back of the tip finds the block it goes back to.
Trees ==
  /\ roots \subseteq Blocks /\ tip \in roots
  /\ \A b \in roots \ {Genesis} : Parent[b] \in roots
  /\ bodies \subseteq spaces /\ spaces \subseteq Blocks /\ skipped \subseteq Blocks
  /\ marks \in [Actions -> Heights \cup {Unmarked}]
  /\ state \in [Blocks -> 0..2]
  /\ sponsored \subseteq {Sponsee[g] : g \in Grants}
  /\ pending \subseteq Actions /\ seen \subseteq Actions
  /\ cursor \in Heights

JobRecords ==
  [pc : PCs, via : Vias, blk : Blocks \cup {NoBlock}, todo : SUBSET Heights,
   left : SUBSET Nat, full : BOOLEAN]

\* Only handlers store blocks, always above a stored root; a pass has a block and
\* is left with grants of that block; the sync loop reads only while it has
\* heights to go through.
JobOK(w, j, R) ==
  /\ j.pc \in {"clear", "body", "put"} =>
       /\ w \in Handlers /\ j.via # "scan"
       /\ j.blk \in Blocks \ {Genesis}
       /\ Parent[j.blk] \in R
  /\ j.pc \in {"effects", "flag", "grants"} => j.blk \in Blocks
  /\ j.blk \in Blocks => j.left \subseteq GrantsIn(j.blk)
  /\ j.pc = "read" => IF j.via = "scan" THEN j.todo # {} ELSE j.blk \in Blocks

Tasks ==
  /\ job \in [Workers -> JobRecords]
  /\ \A w \in Workers : JobOK(w, job[w], roots)

LType == Trees /\ Tasks

\* A pass that is still full has granted all that it has gone through, and so
\* has every block whose stage is 2.
GrantedSoFar(j, S) ==
  j.blk \in Blocks /\ j.full =>
    \A i \in GrantsIn(j.blk) \ j.left : Sponsee[Carries[j.blk][i]] \in S
GrantedAll(b, S) == \A i \in GrantsIn(b) : Sponsee[Carries[b][i]] \in S
Granting ==
  /\ \A w \in Workers : GrantedSoFar(job[w], sponsored)
  /\ \A b \in Blocks : state[b] = 2 => GrantedAll(b, sponsored)

\* A canonical block at stage 0 is owed its effects, or a pass that has just run
\* them is about to record it.
Owing ==
  \A b \in Blocks :
    Canonical(b) /\ state[b] = 0 =>
      b \in owed \/ \E w \in Workers : job[w].pc = "flag" /\ job[w].blk = b

-----------------------------------------------------------------------------
(* Numbers and chains *)

\* A nonempty set of naturals has a least element.
LEMMA LeastNatural ==
  ASSUME NEW S, S \subseteq Nat, S # {}
  PROVE  \E n \in S : \A m \in S : n <= m
<1>1. PICK n \in S : \A m \in S : ~(<<m, n>> \in OpToRel(<, Nat))
  BY WFMin, NatLessThanWellFounded, ZenonT(60)
<1>2. \A m \in S : ~(m < n)
  BY <1>1, ZenonT(60) DEF OpToRel
<1>3. \A m \in S : n <= m
  BY <1>2
<1> QED
  BY <1>3

\* What LedgerChains says of one chain.
LEMMA ChainFacts ==
  ASSUME NEW b \in Blocks
  PROVE  /\ Height[b] \in Nat
         /\ Chain[b][Height[b]] = b
         /\ \A h \in 0..Height[b] : Chain[b][h] \in Blocks /\ Height[Chain[b][h]] = h
BY LedgerConstants, LedgerChains, ZenonT(60)

\* Every height up to a block's is the height of some block.
LEMMA HeightsBelow ==
  ASSUME NEW b \in Blocks
  PROVE  0..Height[b] \subseteq Heights
<1> SUFFICES ASSUME NEW h \in 0..Height[b]
             PROVE  h \in Heights
  OBVIOUS
<1> QED
  BY ChainFacts DEF Heights

LEMMA HeightsNat == Heights \subseteq Nat
BY LedgerConstants DEF Heights

\* The parent of a block, and its chain.
LEMMA ParentFacts ==
  ASSUME NEW b \in Blocks, b # Genesis
  PROVE  /\ Parent[b] \in Blocks
         /\ Height[b] = Height[Parent[b]] + 1
         /\ Height[Parent[b]] \in Nat
         /\ \A h \in 0..Height[Parent[b]] : Chain[b][h] = Chain[Parent[b]][h]
BY LedgerConstants, LedgerChains

LEMMA ActionsOfType ==
  ASSUME NEW b \in Blocks
  PROVE  /\ ActionsOf(b) \subseteq Actions
         /\ GrantsIn(b) \subseteq Nat
         /\ \A i \in GrantsIn(b) : Carries[b][i] \in Grants
         /\ \A a \in ActionsOf(b) \cap Grants : \E i \in GrantsIn(b) : Carries[b][i] = a
<1>1. Carries[b] \in Seq(Actions)
  BY LedgerConstants
<1>2. /\ DOMAIN Carries[b] = 1..Len(Carries[b])
      /\ Len(Carries[b]) \in Nat
      /\ \A i \in DOMAIN Carries[b] : Carries[b][i] \in Actions
  BY <1>1
<1> QED
  BY <1>2 DEF ActionsOf, GrantsIn

-----------------------------------------------------------------------------
(* Types: the stores *)

LEMMA MarksType ==
  ASSUME NEW m, m \in [Actions -> Heights \cup {Unmarked}]
  PROVE  /\ \A b \in Blocks : Mark(m, b) \in [Actions -> Heights \cup {Unmarked}]
         /\ \A B : Unmark(m, B) \in [Actions -> Heights \cup {Unmarked}]
         /\ \A B : UnmarkOwn(m, B) \in [Actions -> Heights \cup {Unmarked}]
         /\ \A H : UnmarkHeights(m, H) \in [Actions -> Heights \cup {Unmarked}]
<1>1. \A b \in Blocks : Height[b] \in Heights
  BY DEF Heights
<1>2. \A b \in Blocks : Mark(m, b) \in [Actions -> Heights \cup {Unmarked}]
  BY <1>1 DEF Mark
<1>3. \A B : Unmark(m, B) \in [Actions -> Heights \cup {Unmarked}]
  BY DEF Unmark
<1>4. \A B : UnmarkOwn(m, B) \in [Actions -> Heights \cup {Unmarked}]
  BY DEF UnmarkOwn
<1>5. \A H : UnmarkHeights(m, H) \in [Actions -> Heights \cup {Unmarked}]
  BY <1>3 DEF UnmarkHeights
<1> QED
  BY <1>2, <1>3, <1>4, <1>5

LEMMA ReturnedType ==
  ASSUME Trees, NEW B, NEW m
  PROVE  Returned(B, m) \subseteq Actions
<1>1. \A b \in bodies : ActionsOf(b) \subseteq Actions
  BY ActionsOfType DEF Trees
<1> QED
  BY <1>1 DEF Returned

\* make_canonical keeps the types.
LEMMA AdoptType ==
  ASSUME Trees, NEW b \in Blocks, Adopt(b)
  PROVE  /\ tip' = b
         /\ marks' \in [Actions -> Heights \cup {Unmarked}]
         /\ state' \in [Blocks -> 0..2]
         /\ skipped' \subseteq Blocks
<1>1. marks' \in [Actions -> Heights \cup {Unmarked}]
  BY MarksType DEF Adopt, Trees
<1>2. state' \in [Blocks -> 0..2]
  BY DEF Adopt, Trees
<1> QED
  BY <1>1, <1>2, ZenonT(60) DEF Adopt, Trees

LEMMA HeaderTrees ==
  ASSUME Trees, NEW w \in Handlers, NEW b \in Blocks \ {Genesis}, ReceiveHeader(w, b)
  PROVE  Trees'
<1>1. /\ roots' = roots \cup {b} /\ Parent[b] \in roots
      /\ UNCHANGED <<bodies, spaces, sponsored, cursor>>
  BY DEF ReceiveHeader
<1>2. CASE Adopt(b) /\ Requeue(Displaced(b), marks')
  <2>1. pending' \subseteq Actions /\ seen' \subseteq Actions
    BY <1>2, ReturnedType DEF Requeue, Trees
  <2> QED
    BY <1>1, <1>2, <2>1, AdoptType DEF Trees
<1>3. CASE UNCHANGED <<tip, marks, state, skipped, mempool, owed>>
  BY <1>1, <1>3 DEF Trees, mempool
<1> QED
  BY <1>2, <1>3 DEF ReceiveHeader

\* A rolled-back tip is not genesis, and its parent is stored.
LEMMA RolledBack ==
  ASSUME Trees, NEW b \in Blocks \ {Genesis}, Height[b] = Latest
  PROVE  tip \in Blocks /\ tip # Genesis /\ Parent[tip] \in roots
<1>1. Height[b] \in Nat \ {0}
  BY ParentFacts
<1>2. tip \in Blocks /\ tip # Genesis
  BY <1>1, LedgerChains DEF Trees, Latest
<1> QED
  BY <1>2 DEF Trees

LEMMA BlockTrees ==
  ASSUME Trees, NEW w \in Handlers, NEW b \in Blocks \ {Genesis}, NEW via,
         ReceiveBlock(w, b, via)
  PROVE  Trees'
<1>1. /\ Parent[b] \in roots
      /\ UNCHANGED <<bodies, spaces, skipped, state, sponsored, cursor>>
  BY DEF ReceiveBlock
<1>2. CASE roots' = roots \cup {b} /\ UNCHANGED <<tip, marks, mempool>>
  BY <1>1, <1>2, ZenonT(60) DEF Trees, mempool
<1>3. CASE /\ WinsHeight(b, via)
           /\ tip' = Parent[tip]
           /\ marks' = Unmark(marks, {tip} \cap bodies)
           /\ Requeue({tip}, marks')
           /\ UNCHANGED roots
  <2>1. pending' \subseteq Actions /\ seen' \subseteq Actions
    BY <1>3, ReturnedType DEF Requeue, Trees
  <2>2. tip' \in roots
    BY <1>3, RolledBack, ZenonT(60) DEF WinsHeight
  <2>3. marks' \in [Actions -> Heights \cup {Unmarked}]
    BY <1>3, MarksType DEF Trees
  <2> QED
    BY <1>1, <1>3, <2>1, <2>2, <2>3, ZenonT(60) DEF Trees
<1>4. CASE UNCHANGED <<roots, tip, marks, mempool>>
  BY <1>1, <1>4, ZenonT(60) DEF Trees, mempool
<1> QED
  BY <1>2, <1>3, <1>4, ZenonT(60) DEF ReceiveBlock

LEMMA FormTrees ==
  ASSUME Trees, NEW w \in Handlers, NEW b \in Blocks \ {Genesis}, FormBlock(w, b)
  PROVE  Trees'
BY DEF FormBlock, Trees

\* set_side_effects_state keeps the type of the stages.
LEMMA StageType ==
  ASSUME NEW f \in [Blocks -> 0..2], NEW b, NEW k \in 0..2
  PROVE  [f EXCEPT ![b] = k] \in [Blocks -> 0..2]
OBVIOUS

\* The steps of a worker on the block it was started with.
LEMMA WorkTrees ==
  ASSUME LType, NEW w \in Workers, Work(w)
  PROVE  Trees'
<1> DEFINE b == job[w].blk
<1> USE DEF LType
<1>1. CASE ClearMarks(w)
  <2>1. marks' \in [Actions -> Heights \cup {Unmarked}]
    BY <1>1, MarksType, ZenonT(60) DEF ClearMarks, Trees
  <2> QED
    BY <1>1, <2>1, ZenonT(60) DEF ClearMarks, Trees, mempool
<1>2. CASE StoreBody(w)
  <2>1. b \in Blocks
    BY <1>2, ZenonT(60) DEF StoreBody, Tasks, JobOK
  <2>2. marks' \in [Actions -> Heights \cup {Unmarked}]
    BY <1>2, <2>1, MarksType DEF StoreBody, Trees
  <2>3. bodies' \subseteq spaces' /\ spaces' \subseteq Blocks /\ skipped' \subseteq Blocks
    BY <1>2, <2>1, ZenonT(60) DEF StoreBody, Trees
  <2> QED
    BY <1>2, <2>2, <2>3, ZenonT(60) DEF StoreBody, Trees, mempool
<1>3. CASE PutRoot(w)
  <2>1. b \in Blocks \ {Genesis} /\ Parent[b] \in roots
    BY <1>3 DEF PutRoot, Tasks, JobOK
  <2>2. roots' = roots \cup {b} /\ UNCHANGED <<bodies, spaces, sponsored, cursor>>
    BY <1>3, ZenonT(60) DEF PutRoot
  <2>3. CASE Adopt(b) /\ \/ /\ pending' = (pending \cup (Returned(Displaced(b), marks') \ seen)) \ ActionsOf(b)
                            /\ seen' = (seen \cup (Returned(Displaced(b), marks') \ seen)) \ ActionsOf(b)
                         \/ Requeue(Displaced(b), marks')
                         \/ UNCHANGED mempool
    <3>1. Returned(Displaced(b), marks') \subseteq Actions
      BY ReturnedType, ZenonT(60)
    <3>2. pending' \subseteq Actions /\ seen' \subseteq Actions
      BY <2>3, <3>1, ZenonT(60) DEF Requeue, Trees, mempool
    <3> QED
      BY <2>1, <2>2, <2>3, <3>2, AdoptType DEF Trees
  <2>4. CASE UNCHANGED <<tip, marks, state, skipped, mempool, owed>>
    BY <2>1, <2>2, <2>4, ZenonT(60) DEF Trees, mempool
  <2> QED
    BY <1>3, <2>3, <2>4, ZenonT(60) DEF PutRoot
<1>4. CASE ReadState(w)
  BY <1>4, ZenonT(60) DEF ReadState, Trees, store, mempool
<1>5. CASE ApplyEffects(w)
  <2>1. b \in Blocks
    BY <1>5, ZenonT(60) DEF ApplyEffects, Tasks, JobOK
  <2>2. marks' \in [Actions -> Heights \cup {Unmarked}]
    BY <1>5, <2>1, MarksType, ZenonT(60) DEF ApplyEffects, Trees
  <2> QED
    BY <1>5, <2>2, ZenonT(60) DEF ApplyEffects, Trees, mempool
<1>6. CASE SetStage1(w)
  <2>1. state' = [state EXCEPT ![b] = 1]
    BY <1>6 DEF SetStage1
  <2>2. state \in [Blocks -> 0..2]
    BY DEF Trees
  <2>3. state' \in [Blocks -> 0..2]
    BY <2>1, <2>2, StageType
  <2> QED
    BY <1>6, <2>3 DEF SetStage1, Trees, mempool
<1>7. CASE ApplyGrant(w)
  <2>1. \A i \in job[w].left : Carries[b][i] \in Grants
    BY <1>7, ActionsOfType, ZenonT(60) DEF ApplyGrant, Tasks, JobOK
  <2>2. PICK i \in job[w].left :
          sponsored' = IF Authorized(Author[Carries[b][i]])
                         THEN sponsored \cup {Sponsee[Carries[b][i]]} ELSE sponsored
    BY <1>7, ZenonT(60) DEF ApplyGrant
  <2>3. sponsored' \subseteq {Sponsee[g] : g \in Grants}
    BY <2>1, <2>2 DEF Trees
  <2> QED
    BY <1>7, <2>3, ZenonT(60) DEF ApplyGrant, Trees, mempool
<1>8. CASE SetStage2(w)
  <2>1. state' = [state EXCEPT ![b] = 2] \/ state' = state
    BY <1>8 DEF SetStage2
  <2>2. state \in [Blocks -> 0..2]
    BY DEF Trees
  <2>3. state' \in [Blocks -> 0..2]
    BY <2>1, <2>2, 2 \in 0..2, StageType, ZenonT(60)
  <2> QED
    BY <1>8, <2>3, ZenonT(60) DEF SetStage2, Trees, mempool
<1> QED
  BY <1>1, <1>2, <1>3, <1>4, <1>5, <1>6, <1>7, <1>8 DEF Work

LEMMA ModRange ==
  ASSUME NEW a \in Nat, NEW n \in Nat \ {0}
  PROVE  a % n \in 0..(n - 1)
OBVIOUS

\* find_unapplied_heights returns heights of the chain, and so is its cursor.
LEMMA ScanType ==
  ASSUME NEW from \in Nat, NEW t \in Blocks, NEW st
  PROVE  /\ Scan(from, t, st).heights \subseteq Heights
         /\ Scan(from, t, st).next \in Heights
<1> DEFINE span == Height[t] + 1
           at(i) == (from + i) % span
           hits(n) == {at(i) : i \in {j \in 0..(n - 1) : Unapplied(t, st, at(j))}}
           ends == {n \in 0..(span - 1) : Cardinality(hits(n)) >= MaxScan}
           stop == IF ends = {} THEN span ELSE CHOOSE n \in ends : \A m \in ends : n <= m
<1>1. span \in Nat \ {0}
  BY ChainFacts
<1>2. \A i \in Nat : i % span \in 0..Height[t]
  <2>1. \A i \in Nat : i % span \in 0..(span - 1)
    BY <1>1, ModRange
  <2> QED
    BY <1>1, <2>1, ChainFacts
<1>3. stop \in Nat
  <2>1. ends \subseteq Nat
    BY <1>1
  <2> HIDE DEF ends
  <2>2. ends # {} => \E n \in ends : \A m \in ends : n <= m
    BY <2>1, LeastNatural, ZenonT(60)
  <2> QED
    BY <1>1, <2>1, <2>2, ZenonT(60)
<1>4. 0..Height[t] \subseteq Heights
  BY HeightsBelow
<1>5. Scan(from, t, st) = [heights |-> hits(stop),
                           next |-> IF ends = {} THEN from % span ELSE at(stop + 1)]
  BY DEF Scan
<1> HIDE DEF ends, stop
<1> HIDE DEF span
<1>6. \A i \in Nat : at(i) \in 0..Height[t]
  BY <1>2
<1> HIDE DEF at
<1>7. \A i \in 0..(stop - 1) : i \in Nat
  BY <1>3
<1>8. hits(stop) \subseteq 0..Height[t]
  BY <1>6, <1>7
<1>9. from % span \in 0..Height[t] /\ at(stop + 1) \in 0..Height[t]
  BY <1>2, <1>3, <1>6
<1> QED
  BY <1>4, <1>5, <1>8, <1>9

LEMMA SyncTrees ==
  ASSUME LType, SyncTick
  PROVE  Trees'
<1>1. tip \in Blocks /\ state \in [Blocks -> 0..2] /\ roots \subseteq Blocks
  BY DEF LType, Trees
<1>2. UNCHANGED <<roots, bodies, spaces, sponsored>>
  BY DEF SyncTick
<1> DEFINE Typed ==
             /\ tip' \in roots
             /\ marks' \in [Actions -> Heights \cup {Unmarked}]
             /\ state' \in [Blocks -> 0..2]
             /\ skipped' \subseteq Blocks
             /\ pending' \subseteq Actions /\ seen' \subseteq Actions
<1>3. Typed
  <2>1. CASE UNCHANGED <<tip, marks, state, skipped, mempool, owed>>
    BY <2>1 DEF LType, Trees, mempool
  <2>2. ASSUME NEW b \in Heaviest, Adopt(b), Requeue(Displaced(b), marks')
        PROVE  Typed
    <3>1. b \in roots
      BY ZenonT(60) DEF Heaviest, Adoptable
    <3>2. pending' \subseteq Actions /\ seen' \subseteq Actions
      BY <2>2, ReturnedType DEF Requeue, LType, Trees
    <3> QED
      BY <1>1, <2>2, <3>1, <3>2, AdoptType DEF LType
  <2>3. \/ \E b \in Heaviest : Adopt(b) /\ Requeue(Displaced(b), marks')
        \/ UNCHANGED <<tip, marks, state, skipped, mempool, owed>>
    BY DEF SyncTick
  <2> QED
    BY <2>1, <2>2, <2>3, ZenonT(60)
<1>4. cursor' \in Heights
  <2>1. cursor' = Scan(cursor, tip', state').next
    BY DEF SyncTick
  <2>2. cursor \in Nat /\ tip' \in Blocks
    BY <1>1, <1>3, HeightsNat DEF LType, Trees
  <2> QED
    BY <2>1, <2>2, ScanType
<1> QED
  BY <1>2, <1>3, <1>4 DEF LType, Trees

LEMMA OtherTrees ==
  ASSUME LType, Restart \/ \E a \in Heard : ReceiveAction(a)
  PROVE  Trees'
<1>1. CASE Restart
  <2>1. 0 \in Heights
    BY LedgerConstants, LedgerChains, ZenonT(60) DEF Heights
  <2> QED
    BY <1>1, <2>1, ZenonT(60) DEF Restart, store, LType, Trees
<1>2. CASE \E a \in Heard : ReceiveAction(a)
  <2>1. pending' \subseteq Actions /\ seen' \subseteq Actions
    BY <1>2, LedgerConstants, ZenonT(60) DEF ReceiveAction, LType, Trees
  <2> QED
    BY <1>2, <2>1, ZenonT(60) DEF ReceiveAction, store, LType, Trees
<1> QED
  BY <1>1, <1>2, ZenonT(60)

-----------------------------------------------------------------------------
(* Types: the workers *)

LEMMA JobType ==
  ASSUME NEW pc \in PCs, NEW via \in Vias, NEW b \in Blocks \cup {NoBlock},
         NEW todo \in SUBSET Heights
  PROVE  /\ Job(pc, via, b, todo) \in JobRecords
         /\ Job(pc, via, b, todo).pc = pc
         /\ Job(pc, via, b, todo).via = via
         /\ Job(pc, via, b, todo).blk = b
         /\ Job(pc, via, b, todo).todo = todo
         /\ b \in Blocks => Job(pc, via, b, todo).left = GrantsIn(b)
<1>1. b \in Blocks => GrantsIn(b) \in SUBSET Nat
  BY ActionsOfType, ZenonT(60)
<1> QED
  BY <1>1, LedgerConstants DEF Job, JobRecords

\* Idle, and what the sync loop goes on with.
LEMMA ResumeType ==
  ASSUME NEW rest \in SUBSET Heights, NEW w, NEW R
  PROVE  /\ Idle \in JobRecords /\ JobOK(w, Idle, R)
         /\ Resume(rest) \in JobRecords /\ JobOK(w, Resume(rest), R)
<1>1. /\ Idle \in JobRecords
      /\ Idle.pc = "idle" /\ Idle.blk = NoBlock
  BY JobType DEF Idle, PCs, Vias
<1>2. ASSUME rest # {}
      PROVE  /\ Resume(rest) \in JobRecords
             /\ Resume(rest).pc = "read" /\ Resume(rest).via = "scan"
             /\ Resume(rest).blk = NoBlock /\ Resume(rest).todo = rest
  BY <1>2, JobType DEF Resume, PCs, Vias
<1>3. JobOK(w, Idle, R)
  BY <1>1, LedgerConstants, ZenonT(60) DEF JobOK
<1>4. rest # {} => JobOK(w, Resume(rest), R)
  BY <1>2, LedgerConstants DEF JobOK
<1> QED
  BY <1>1, <1>2, <1>3, <1>4, ZenonT(60) DEF Resume

\* A step that gives one worker another job, and no step removes a root.
LEMMA OneJob ==
  ASSUME Tasks, roots \subseteq roots', NEW w \in Workers, NEW j \in JobRecords,
         JobOK(w, j, roots'), job' = [job EXCEPT ![w] = j]
  PROVE  Tasks'
<1>1. job' \in [Workers -> JobRecords]
  BY DEF Tasks
<1>2. ASSUME NEW v \in Workers
      PROVE  JobOK(v, job'[v], roots')
  <2>1. CASE v = w
    BY <2>1, ZenonT(60) DEF Tasks
  <2>2. CASE v # w
    BY <2>2 DEF Tasks, JobOK
  <2> QED
    BY <2>1, <2>2
<1> QED
  BY <1>1, <1>2 DEF Tasks

\* The same when only the place in the handler changes.
LEMMA Moved ==
  ASSUME Tasks, NEW w \in Workers, NEW pc \in PCs, Goto(w, pc)
  PROVE  /\ [job[w] EXCEPT !.pc = pc] \in JobRecords
         /\ job' = [job EXCEPT ![w] = [job[w] EXCEPT !.pc = pc]]
BY DEF Goto, Tasks, JobRecords

LEMMA DeliverTasks ==
  ASSUME LType, NEW w \in Handlers, NEW b \in Blocks \ {Genesis},
         Deliver(w, b) \/ FormBlock(w, b)
  PROVE  Tasks'
<1>1. w \in Workers /\ Tasks
  BY ZenonT(60) DEF Workers, LType
<1>2. CASE ReceiveHeader(w, b)
  <2>1. job' = job /\ roots \subseteq roots'
    BY <1>2, ZenonT(60) DEF ReceiveHeader
  <2> QED
    BY <2>1, <1>1, ZenonT(60) DEF Tasks, JobOK
<1>3. ASSUME NEW pc \in {"clear", "body", "put"}, NEW via \in Vias \ {"scan"},
             Start(w, pc, via, b), Parent[b] \in roots, roots \subseteq roots'
      PROVE  Tasks'
  <2> DEFINE j == Job(pc, via, b, {})
  <2>1. /\ j \in JobRecords /\ j.pc = pc /\ j.blk = b /\ j.via = via
        /\ j.left = GrantsIn(b)
    BY JobType DEF PCs
  <2>2. JobOK(w, j, roots')
    BY <2>1, <1>3 DEF JobOK
  <2>3. job' = [job EXCEPT ![w] = j]
    BY <1>3 DEF Start
  <2> QED
    BY <1>1, <1>3, <2>1, <2>2, <2>3, OneJob, ZenonT(60)
<1>4. ASSUME NEW via \in {"data", "blocks", "orphan"}, ReceiveBlock(w, b, via)
      PROVE  Tasks'
  <2>1. Parent[b] \in roots /\ via \in Vias \ {"scan"}
    BY <1>4, ZenonT(60) DEF ReceiveBlock, Vias
  <2>2. roots \subseteq roots'
    BY <1>4, ZenonT(60) DEF ReceiveBlock
  <2>3. \/ job' = job
        \/ Start(w, "clear", via, b)
        \/ Start(w, "body", via, b)
    BY <1>4, ZenonT(60) DEF ReceiveBlock
  <2>4. CASE job' = job
    BY <1>1, <2>2, <2>4, ZenonT(60) DEF Tasks, JobOK
  <2> QED
    BY <1>3, <2>1, <2>2, <2>3, <2>4, ZenonT(60)
<1>5. CASE FormBlock(w, b)
  <2>1. Parent[b] \in roots /\ roots' = roots
    BY <1>5, ZenonT(60) DEF FormBlock, LType, Trees
  <2> QED
    BY <1>3, <1>5, <2>1, ZenonT(60) DEF FormBlock, Vias
<1> QED
  BY <1>2, <1>4, <1>5 DEF Deliver

\* The block of a pass that has been read is a canonical block.
LEMMA ReadTasks ==
  ASSUME LType, NEW w \in Workers, ReadState(w)
  PROVE  Tasks'
<1> DEFINE h == IF job[w].via = "scan" THEN CHOOSE k \in job[w].todo : \A j \in job[w].todo : k <= j
                ELSE Height[job[w].blk]
           b == IF job[w].via = "scan" THEN (IF h <= Latest THEN At(h) ELSE NoBlock) ELSE job[w].blk
           rest == job[w].todo \ {h}
           next == Job(IF state[b] < 1 THEN "effects" ELSE "grants", job[w].via, b, rest)
<1>1. /\ Tasks /\ job[w] \in JobRecords /\ JobOK(w, job[w], roots) /\ job[w].pc = "read"
      /\ roots' = roots
  BY ZenonT(60) DEF LType, Tasks, ReadState, store
<1>2. job[w].todo \in SUBSET Heights /\ job[w].via \in Vias
  BY <1>1, ZenonT(60) DEF JobRecords
<1>3. rest \in SUBSET Heights
  BY <1>2, ZenonT(60)
<1>4. b \in Blocks \cup {NoBlock}
  <2>1. CASE job[w].via # "scan"
    BY <1>1, <2>1, ZenonT(60) DEF JobOK
  <2>2. CASE job[w].via = "scan"
    <3>1. job[w].todo # {} /\ job[w].todo \subseteq Nat
      BY <1>1, <1>2, <2>2, HeightsNat, ZenonT(60) DEF JobOK
    <3>2. h \in Nat
      <4>1. \E n \in job[w].todo : \A m \in job[w].todo : n <= m
        BY <3>1, LeastNatural, ZenonT(60)
      <4> QED BY <2>2, <3>1, <4>1, ZenonT(60)
    <3> HIDE DEF h
    <3>3. h <= Latest => At(h) \in Blocks
      BY <3>2, ChainFacts DEF Latest, At, LType, Trees
    <3> QED
      BY <2>2, <3>3, ZenonT(60)
  <2> QED
    BY <2>1, <2>2, ZenonT(60)
<1>5. \/ b # NoBlock /\ job' = [job EXCEPT ![w] = next]
      \/ job' = [job EXCEPT ![w] = Resume(rest)]
  BY ZenonT(60) DEF ReadState
<1> HIDE DEF h, b, rest
<1>6. b # NoBlock => next \in JobRecords /\ JobOK(w, next, roots)
  <2> SUFFICES ASSUME b # NoBlock
               PROVE  next \in JobRecords /\ JobOK(w, next, roots)
    OBVIOUS
  <2>1. /\ next \in JobRecords
        /\ next.pc \in {"effects", "grants"}
        /\ next.blk = b /\ next.left = GrantsIn(b)
    BY <1>2, <1>3, <1>4, JobType DEF PCs
  <2> QED
    BY <1>4, <2>1, ZenonT(60) DEF JobOK
<1> HIDE DEF next
<1>7. Resume(rest) \in JobRecords /\ JobOK(w, Resume(rest), roots)
  BY <1>3, ResumeType, ZenonT(60)
<1> QED
  BY <1>1, <1>5, <1>6, <1>7, OneJob, ZenonT(60)

LEMMA WorkTasks ==
  ASSUME LType, NEW w \in Workers, Work(w)
  PROVE  Tasks'
<1>1. /\ Tasks /\ job[w] \in JobRecords /\ JobOK(w, job[w], roots)
  BY ZenonT(60) DEF LType, Tasks
<1>2. ASSUME NEW pc \in PCs, Goto(w, pc), roots \subseteq roots',
             pc \in {"clear", "body", "put"} => job[w].pc \in {"clear", "body", "put"},
             pc \notin {"clear", "body", "put"} => job[w].blk \in Blocks,
             pc = "read" => job[w].via # "scan"
      PROVE  Tasks'
  <2> DEFINE j == [job[w] EXCEPT !.pc = pc]
  <2>1. j \in JobRecords /\ job' = [job EXCEPT ![w] = j]
    BY <1>1, <1>2, Moved
  <2>2. j.pc = pc /\ j.via = job[w].via /\ j.blk = job[w].blk /\ j.left = job[w].left
    BY <1>1 DEF JobRecords
  <2> HIDE DEF j
  <2>3. JobOK(w, j, roots')
    BY <1>1, <1>2, <2>2 DEF JobOK
  <2> QED
    BY <1>1, <1>2, <2>1, <2>3, OneJob, ZenonT(60)
<1>3. ASSUME job' = [job EXCEPT ![w] = Idle], roots' = roots
      PROVE  Tasks'
  <2>1. Idle \in JobRecords /\ JobOK(w, Idle, roots)
    BY ResumeType
  <2> QED
    BY <1>1, <1>3, <2>1, OneJob, ZenonT(60)
<1>4. CASE ClearMarks(w)
  BY <1>2, <1>4, ZenonT(60) DEF ClearMarks, PCs
<1>5. CASE StoreBody(w)
  <2>1. roots' = roots /\ job[w].pc = "body"
    BY <1>5, ZenonT(60) DEF StoreBody
  <2>2. Goto(w, "put") \/ job' = [job EXCEPT ![w] = Idle]
    BY <1>5, ZenonT(60) DEF StoreBody
  <2> QED
    BY <1>2, <1>3, <2>1, <2>2, ZenonT(60) DEF PCs
<1>6. CASE PutRoot(w)
  <2>1. job[w].blk \in Blocks /\ job[w].via # "scan"
    BY <1>1, <1>6, ZenonT(60) DEF PutRoot, JobOK
  <2>2. Goto(w, "read") /\ roots \subseteq roots'
    BY <1>6 DEF PutRoot
  <2> QED
    BY <1>2, <2>1, <2>2, ZenonT(60) DEF PCs
<1>7. CASE ReadState(w)
  BY <1>7, ReadTasks, ZenonT(60)
<1>8. CASE ApplyEffects(w)
  <2>1. job[w].blk \in Blocks
    BY <1>1, <1>8, ZenonT(60) DEF ApplyEffects, JobOK
  <2>2. Goto(w, "flag") /\ roots \subseteq roots'
    BY <1>8, ZenonT(60) DEF ApplyEffects
  <2> QED
    BY <1>2, <2>1, <2>2, ZenonT(60) DEF PCs
<1>9. CASE SetStage1(w)
  <2>1. job[w].blk \in Blocks
    BY <1>1, <1>9, ZenonT(60) DEF SetStage1, JobOK
  <2>2. Goto(w, "grants") /\ roots \subseteq roots'
    BY <1>9, ZenonT(60) DEF SetStage1
  <2> QED
    BY <1>2, <2>1, <2>2, ZenonT(60) DEF PCs
<1>10. CASE ApplyGrant(w)
  <2>1. PICK i \in job[w].left, f \in BOOLEAN :
          job' = [job EXCEPT ![w].left = @ \ {i}, ![w].full = f]
    <3>1. job[w].full \in BOOLEAN
      BY <1>1 DEF JobRecords
    <3> QED
      BY <1>10, <3>1, ZenonT(60) DEF ApplyGrant
  <2> DEFINE j == [job[w] EXCEPT !.left = @ \ {i}, !.full = f]
  <2>2. j \in JobRecords /\ job' = [job EXCEPT ![w] = j]
    BY <1>1, <2>1, ZenonT(60) DEF JobRecords, Tasks
  <2>3. /\ j.pc = job[w].pc /\ j.via = job[w].via /\ j.blk = job[w].blk /\ j.todo = job[w].todo
        /\ j.left \subseteq job[w].left
    BY <1>1 DEF JobRecords
  <2> HIDE DEF j
  <2>4. roots' = roots
    BY <1>10 DEF ApplyGrant
  <2>5. JobOK(w, j, roots')
    BY <1>1, <2>3, <2>4 DEF JobOK
  <2> QED
    BY <1>1, <2>2, <2>4, <2>5, OneJob, ZenonT(60)
<1>11. CASE SetStage2(w)
  <2>1. job' = [job EXCEPT ![w] = Resume(job[w].todo)] /\ roots' = roots
    BY <1>1, <1>11, ZenonT(60) DEF SetStage2, Tasks
  <2>2. job[w].todo \in SUBSET Heights
    BY <1>1 DEF JobRecords
  <2> QED
    BY <1>1, <2>1, <2>2, ResumeType, OneJob, ZenonT(60)
<1> QED
  BY <1>4, <1>5, <1>6, <1>7, <1>8, <1>9, <1>10, <1>11, ZenonT(60) DEF Work

LEMMA OtherTasks ==
  ASSUME LType, SyncTick \/ Restart \/ \E a \in Heard : ReceiveAction(a)
  PROVE  Tasks'
<1>1. CASE SyncTick
  <2> DEFINE found == Scan(cursor, tip', state').heights
  <2>1. /\ roots' = roots /\ job' = [job EXCEPT ![SyncLoop] = Resume(found)]
        /\ SyncLoop \in Workers
    BY <1>1 DEF SyncTick, Workers
  <2>2. found \in SUBSET Heights
    <3>1. cursor \in Nat
      BY HeightsNat DEF LType, Trees
    <3>2. tip' \in Blocks
      BY <1>1, SyncTrees DEF Trees
    <3> QED
      BY <3>1, <3>2, ScanType
  <2> HIDE DEF found
  <2>3. Resume(found) \in JobRecords /\ JobOK(SyncLoop, Resume(found), roots)
    BY <2>2, ResumeType
  <2> QED
    BY <2>1, <2>3, OneJob, ZenonT(60) DEF LType
<1>2. CASE Restart
  <2> DEFINE short == {h \in 0..Latest : h >= 1 /\ Unapplied(tip, state, h)}
  <2>1. /\ roots' = roots
        /\ job' = [w \in Workers |-> IF w = SyncLoop THEN Resume(short) ELSE Idle]
    BY <1>2, ZenonT(60) DEF Restart, store
  <2>2. short \in SUBSET Heights
    BY HeightsBelow DEF Latest, LType, Trees
  <2> HIDE DEF short
  <2>3. \A w : /\ Idle \in JobRecords /\ JobOK(w, Idle, roots)
               /\ Resume(short) \in JobRecords /\ JobOK(w, Resume(short), roots)
    BY <2>2, ResumeType, ZenonT(60)
  <2>4. job' \in [Workers -> JobRecords]
    BY <2>1, <2>3
  <2>5. ASSUME NEW w \in Workers
        PROVE  JobOK(w, job'[w], roots')
    BY <2>1, <2>3
  <2> QED
    BY <2>4, <2>5, ZenonT(60) DEF Tasks
<1>3. CASE \E a \in Heard : ReceiveAction(a)
  <2>1. job' = job /\ roots' = roots
    BY <1>3 DEF ReceiveAction, store
  <2> QED
    BY <2>1 DEF LType, Tasks, JobOK
<1> QED
  BY <1>1, <1>2, <1>3, ZenonT(60)

-----------------------------------------------------------------------------

LEMMA TypeInit == Init => LType
<1> SUFFICES ASSUME Init
             PROVE  LType
  OBVIOUS
<1>1. 0 \in Heights
  BY LedgerConstants, LedgerChains, ZenonT(60) DEF Heights
<1>2. Trees
  BY <1>1, LedgerConstants DEF Init, Trees
<1>3. \A w : Idle \in JobRecords /\ JobOK(w, Idle, roots)
  BY ResumeType
<1>4. Tasks
  BY <1>3 DEF Init, Tasks
<1> QED
  BY <1>2, <1>4 DEF LType

LEMMA TypeStep == LType /\ [Next]_vars => LType'
<1> SUFFICES ASSUME LType, [Next]_vars
             PROVE  LType'
  OBVIOUS
<1>1. ASSUME NEW w \in Handlers, NEW b \in Blocks \ {Genesis}, Deliver(w, b) \/ FormBlock(w, b)
      PROVE  LType'
  <2>1. Trees'
    BY <1>1, HeaderTrees, BlockTrees, FormTrees DEF Deliver, LType
  <2> QED
    BY <1>1, <2>1, DeliverTasks, ZenonT(60) DEF LType
<1>2. ASSUME NEW w \in Workers, Work(w)
      PROVE  LType'
  BY <1>2, WorkTrees, WorkTasks DEF LType
<1>3. CASE SyncTick
  BY <1>3, SyncTrees, OtherTasks DEF LType
<1>4. CASE Restart \/ \E a \in Heard : ReceiveAction(a)
  BY <1>4, OtherTrees, OtherTasks, ZenonT(60) DEF LType
<1>5. CASE UNCHANGED vars
  BY <1>5 DEF vars, store, mempool, LType, Trees, Tasks, JobOK
<1> QED
  BY <1>1, <1>2, <1>3, <1>4, <1>5 DEF Next

\* The stores, the mempool and the workers keep their types, for any tree of
\* blocks and any number of handlers and restarts: every stored root has its
\* parent stored, so a roll back of the tip finds a block, and the scan cursor
\* and the heights a pass goes through are heights of the chain.
THEOREM TypeCorrect == Spec => []TypeOK
<1>1. LType => TypeOK
  BY DEF LType, Trees, Tasks, JobRecords, TypeOK
<1> QED
  BY <1>1, TypeInit, TypeStep, PTL DEF Spec

-----------------------------------------------------------------------------
(* Grants *)

\* A job that starts has gone through no grant.
LEMMA StartsGranted ==
  ASSUME NEW S, NEW pc, NEW via, NEW b, NEW todo, NEW rest
  PROVE  /\ GrantedSoFar(Job(pc, via, b, todo), S)
         /\ GrantedSoFar(Idle, S)
         /\ GrantedSoFar(Resume(rest), S)
<1>1. \A p, v, c, t : GrantedSoFar(Job(p, v, c, t), S)
  <2> SUFFICES ASSUME NEW p, NEW v, NEW c, NEW t, c \in Blocks
               PROVE  \A i \in GrantsIn(c) \ Job(p, v, c, t).left :
                        Sponsee[Carries[c][i]] \in S
    BY DEF GrantedSoFar, Job
  <2>1. Job(p, v, c, t).left = GrantsIn(c)
    BY LedgerConstants DEF Job
  <2> QED
    BY <2>1, ZenonT(60)
<1> QED
  BY <1>1, ZenonT(60) DEF Idle, Resume

\* A step that gives one worker another job and takes no grant back.
LEMMA OneGrant ==
  ASSUME Tasks, Granting, sponsored \subseteq sponsored', NEW w \in Workers, NEW j,
         job' = [job EXCEPT ![w] = j], GrantedSoFar(j, sponsored')
  PROVE  \A v \in Workers : GrantedSoFar(job'[v], sponsored')
<1> SUFFICES ASSUME NEW v \in Workers
             PROVE  GrantedSoFar(job'[v], sponsored')
  OBVIOUS
<1>1. CASE v = w
  BY <1>1, ZenonT(60) DEF Tasks
<1>2. CASE v # w
  <2>1. job'[v] = job[v] /\ GrantedSoFar(job[v], sponsored)
    BY <1>2 DEF Tasks, Granting
  <2> QED
    BY <2>1 DEF GrantedSoFar
<1> QED
  BY <1>1, <1>2

\* A move inside a handler keeps what it has gone through.
LEMMA MovedGrant ==
  ASSUME LType, Granting, sponsored' = sponsored, NEW w \in Workers, NEW pc \in PCs, Goto(w, pc)
  PROVE  \A v \in Workers : GrantedSoFar(job'[v], sponsored')
<1> DEFINE j == [job[w] EXCEPT !.pc = pc]
<1>1. j \in JobRecords /\ job' = [job EXCEPT ![w] = j]
  BY Moved DEF LType
<1>2. j.blk = job[w].blk /\ j.left = job[w].left /\ j.full = job[w].full
  BY DEF LType, Tasks, JobRecords
<1> HIDE DEF j
<1>3. GrantedSoFar(j, sponsored')
  BY <1>2, ZenonT(60) DEF Granting, GrantedSoFar
<1> QED
  BY <1>1, <1>3, OneGrant, ZenonT(60) DEF LType

\* Stages that only fall leave the stage-2 blocks granted.
LEMMA StagesFall ==
  ASSUME Granting, sponsored \subseteq sponsored',
         \A b \in Blocks : state'[b] = 2 => state[b] = 2
  PROVE  \A b \in Blocks : state'[b] = 2 => GrantedAll(b, sponsored')
BY DEF Granting, GrantedAll

LEMMA AdoptFalls ==
  ASSUME NEW b, Adopt(b)
  PROVE  \A c \in Blocks : state'[c] = 2 => state[c] = 2
BY DEF Adopt

LEMMA DeliverGranting ==
  ASSUME LType, Granting, NEW w \in Handlers, NEW b \in Blocks \ {Genesis},
         Deliver(w, b) \/ FormBlock(w, b)
  PROVE  Granting'
<1>1. sponsored' = sponsored
  BY ZenonT(60) DEF Deliver, FormBlock, ReceiveHeader, ReceiveBlock
<1>2. \A c \in Blocks : state'[c] = 2 => state[c] = 2
  BY AdoptFalls, ZenonT(60) DEF Deliver, FormBlock, ReceiveHeader, ReceiveBlock
<1>3. job' = job \/ \E pc, via : job' = [job EXCEPT ![w] = Job(pc, via, b, {})]
  BY ZenonT(60) DEF Deliver, FormBlock, ReceiveHeader, ReceiveBlock, Start
<1>4. \A v \in Workers : GrantedSoFar(job'[v], sponsored')
  <2>1. CASE job' = job
    BY <1>1, <2>1 DEF Granting, GrantedSoFar
  <2>2. CASE \E pc, via : job' = [job EXCEPT ![w] = Job(pc, via, b, {})]
    <3>1. PICK pc, via : job' = [job EXCEPT ![w] = Job(pc, via, b, {})]
      BY <2>2, ZenonT(60)
    <3>2. GrantedSoFar(Job(pc, via, b, {}), sponsored')
      BY StartsGranted
    <3> QED
      BY <1>1, <3>1, <3>2, OneGrant, ZenonT(60) DEF LType, Workers
  <2> QED
    BY <1>3, <2>1, <2>2, ZenonT(60)
<1>5. \A c \in Blocks : state'[c] = 2 => GrantedAll(c, sponsored')
  BY <1>1, <1>2, StagesFall
<1> QED
  BY <1>4, <1>5 DEF Granting

\* One grant: the pass stays full only if the sponsor was known, and then the
\* sponsee is in the store.
LEMMA GrantGranting ==
  ASSUME LType, Granting, NEW w \in Workers, ApplyGrant(w)
  PROVE  Granting'
<1> DEFINE b == job[w].blk
<1>1. /\ job[w] \in JobRecords /\ b \in Blocks /\ Tasks
      /\ job[w].full \in BOOLEAN
      /\ GrantedSoFar(job[w], sponsored)
  BY ZenonT(60) DEF ApplyGrant, LType, Tasks, JobOK, JobRecords, Granting
<1>2. PICK i \in job[w].left :
        /\ sponsored' = IF Authorized(Author[Carries[b][i]])
                          THEN sponsored \cup {Sponsee[Carries[b][i]]} ELSE sponsored
        /\ job' = [job EXCEPT ![w].left = @ \ {i},
                              ![w].full = @ /\ Authorized(Author[Carries[b][i]])]
  BY ZenonT(60) DEF ApplyGrant
<1> DEFINE known == Authorized(Author[Carries[b][i]])
           j == [job[w] EXCEPT !.left = @ \ {i}, !.full = @ /\ known]
<1>3. known \in BOOLEAN
  BY DEF Authorized
<1> HIDE DEF known
<1>4. job' = [job EXCEPT ![w] = j]
  BY <1>1, <1>2, ZenonT(60) DEF known, Tasks
<1>5. j.blk = b /\ j.left = job[w].left \ {i} /\ j.full = (job[w].full /\ known)
  BY <1>1 DEF JobRecords
<1> HIDE DEF j
<1>6. sponsored \subseteq sponsored' /\ (known => Sponsee[Carries[b][i]] \in sponsored')
  BY <1>2 DEF known
<1>7. GrantedSoFar(j, sponsored')
  <2> SUFFICES ASSUME job[w].full, known, NEW k \in GrantsIn(b) \ (job[w].left \ {i})
               PROVE  Sponsee[Carries[b][k]] \in sponsored'
    BY <1>5, ZenonT(60) DEF GrantedSoFar
  <2>1. CASE k = i
    BY <1>6, <2>1
  <2>2. CASE k # i
    BY <1>1, <1>6, <2>2 DEF GrantedSoFar
  <2> QED
    BY <2>1, <2>2, ZenonT(60)
<1>8. \A v \in Workers : GrantedSoFar(job'[v], sponsored')
  BY <1>1, <1>4, <1>6, <1>7, OneGrant, ZenonT(60)
<1>9. state' = state
  BY DEF ApplyGrant
<1> QED
  BY <1>6, <1>8, <1>9, StagesFall, ZenonT(60) DEF Granting

LEMMA WorkGranting ==
  ASSUME LType, Granting, NEW w \in Workers, Work(w)
  PROVE  Granting'
<1>1. ASSUME sponsored' = sponsored, \A b \in Blocks : state'[b] = 2 => state[b] = 2,
             NEW pc \in PCs, Goto(w, pc)
      PROVE  Granting'
  BY <1>1, MovedGrant, StagesFall, ZenonT(60) DEF Granting
<1>2. ASSUME sponsored' = sponsored, \A b \in Blocks : state'[b] = 2 => GrantedAll(b, sponsored),
             NEW j, job' = [job EXCEPT ![w] = j], GrantedSoFar(j, sponsored)
      PROVE  Granting'
  BY <1>2, OneGrant, ZenonT(60) DEF LType, Granting
<1>3. CASE ClearMarks(w)
  BY <1>1, <1>3, ZenonT(60) DEF ClearMarks, PCs
<1>4. CASE StoreBody(w)
  <2>1. sponsored' = sponsored /\ state' = state
    BY <1>4, ZenonT(60) DEF StoreBody
  <2>2. Goto(w, "put") \/ job' = [job EXCEPT ![w] = Idle]
    BY <1>4 DEF StoreBody
  <2>3. \A b \in Blocks : state'[b] = 2 => GrantedAll(b, sponsored)
    BY <2>1, ZenonT(60) DEF Granting
  <2> QED
    BY <1>1, <1>2, <2>1, <2>2, <2>3, StartsGranted, ZenonT(60) DEF PCs
<1>5. CASE PutRoot(w)
  <2>1. sponsored' = sponsored /\ Goto(w, "read")
    BY <1>5, ZenonT(60) DEF PutRoot
  <2>2. \A b \in Blocks : state'[b] = 2 => state[b] = 2
    BY <1>5, AdoptFalls, ZenonT(60) DEF PutRoot
  <2> QED
    BY <1>1, <2>1, <2>2, ZenonT(60) DEF PCs
<1>6. CASE ReadState(w)
  <2>1. sponsored' = sponsored /\ state' = state
    BY <1>6, ZenonT(60) DEF ReadState, store
  <2>2. \/ \E pc, via, b, todo : job' = [job EXCEPT ![w] = Job(pc, via, b, todo)]
        \/ \E rest : job' = [job EXCEPT ![w] = Resume(rest)]
    <3> DEFINE h == IF job[w].via = "scan"
                    THEN CHOOSE k \in job[w].todo : \A j \in job[w].todo : k <= j
                    ELSE Height[job[w].blk]
               b == IF job[w].via = "scan" THEN (IF h <= Latest THEN At(h) ELSE NoBlock)
                    ELSE job[w].blk
               rest == job[w].todo \ {h}
               stage == IF state[b] < 1 THEN "effects" ELSE "grants"
    <3>1. \/ job' = [job EXCEPT ![w] = Job(stage, job[w].via, b, rest)]
          \/ job' = [job EXCEPT ![w] = Resume(rest)]
      BY <1>6, ZenonT(60) DEF ReadState
    <3> HIDE DEF h, b, rest, stage
    <3> QED
      BY <3>1, ZenonT(60)
  <2>3. \A b \in Blocks : state'[b] = 2 => GrantedAll(b, sponsored)
    BY <2>1 DEF Granting
  <2> QED
    BY <1>2, <2>1, <2>2, <2>3, StartsGranted, ZenonT(60)
<1>7. CASE ApplyEffects(w)
  BY <1>1, <1>7 DEF ApplyEffects, PCs
<1>8. CASE SetStage1(w)
  <2>1. \A b \in Blocks : state'[b] = 2 => state[b] = 2
    BY <1>8 DEF SetStage1, LType, Trees
  <2> QED
    BY <1>1, <1>8, <2>1 DEF SetStage1, PCs
<1>9. CASE ApplyGrant(w)
  BY <1>9, GrantGranting
<1>10. CASE SetStage2(w)
  <2>1. /\ sponsored' = sponsored /\ job[w].left = {} /\ job[w].blk \in Blocks
        /\ state' = IF job[w].full THEN [state EXCEPT ![job[w].blk] = 2] ELSE state
    BY <1>10, ZenonT(60) DEF SetStage2, LType, Tasks, JobOK
  <2>2. job[w].full => GrantedAll(job[w].blk, sponsored)
    BY <2>1, ZenonT(60) DEF Granting, GrantedSoFar, GrantedAll
  <2>3. \A b \in Blocks : state'[b] = 2 => GrantedAll(b, sponsored)
    BY <2>1, <2>2, ZenonT(60) DEF Granting, LType, Trees
  <2>4. job' = [job EXCEPT ![w] = Resume(job[w].todo)]
    BY <1>10, ZenonT(60) DEF SetStage2, LType, Tasks
  <2> QED
    BY <1>2, <2>1, <2>3, <2>4, StartsGranted, ZenonT(60)
<1> QED
  BY <1>3, <1>4, <1>5, <1>6, <1>7, <1>8, <1>9, <1>10 DEF Work

LEMMA GrantingStep == LType /\ Granting /\ [Next]_vars => Granting'
<1> SUFFICES ASSUME LType, Granting, [Next]_vars
             PROVE  Granting'
  OBVIOUS
<1>1. CASE SyncTick
  <2>1. sponsored' = sponsored
    BY <1>1, ZenonT(60) DEF SyncTick
  <2>2. \A b \in Blocks : state'[b] = 2 => state[b] = 2
    BY <1>1, AdoptFalls, ZenonT(60) DEF SyncTick
  <2>3. \E rest : job' = [job EXCEPT ![SyncLoop] = Resume(rest)]
    BY <1>1, ZenonT(60) DEF SyncTick
  <2>4. \A v \in Workers : GrantedSoFar(job'[v], sponsored')
    BY <2>1, <2>3, StartsGranted, OneGrant, ZenonT(60) DEF LType, Workers
  <2> QED
    BY <2>1, <2>2, <2>4, StagesFall, ZenonT(60) DEF Granting
<1>2. CASE Restart
  <2>1. sponsored' = sponsored /\ state' = state
    BY <1>2, ZenonT(60) DEF Restart, store
  <2>2. \A v \in Workers : job'[v] = Idle \/ \E rest : job'[v] = Resume(rest)
    BY <1>2, ZenonT(60) DEF Restart
  <2> QED
    BY <2>1, <2>2, StartsGranted, ZenonT(60) DEF Granting
<1>3. CASE \E a \in Heard : ReceiveAction(a)
  BY <1>3, ZenonT(60) DEF ReceiveAction, store, Granting
<1>4. CASE UNCHANGED vars
  BY <1>4 DEF vars, store, Granting
<1> QED
  BY <1>1, <1>2, <1>3, <1>4, DeliverGranting, WorkGranting, ZenonT(60) DEF Next

\* For any blocks, grants and order of application: stage 2, which takes a block
\* out of every later pass, is recorded only once every identity its Sponsor
\* actions admit is in the sponsorship store.
THEOREM AppliedMeansGrantedAlways == Spec => []AppliedMeansGranted
<1>1. Init => Granting
  <2> SUFFICES ASSUME Init
               PROVE  Granting
    OBVIOUS
  <2>1. \A w \in Workers : GrantedSoFar(job[w], sponsored)
    BY StartsGranted, ZenonT(60) DEF Init
  <2>2. GrantsIn(Genesis) = {}
    <3>1. Carries[Genesis] = << >> /\ DOMAIN << >> = {}
      BY LedgerConstants
    <3> QED
      BY <3>1, ZenonT(60) DEF GrantsIn
  <2> QED
    BY <2>1, <2>2 DEF Init, Granting, GrantedAll
<1>2. Granting => AppliedMeansGranted
  <2> SUFFICES ASSUME Granting, NEW b \in Blocks, state[b] = 2,
                      NEW a \in ActionsOf(b) \cap Grants
               PROVE  Sponsee[a] \in sponsored
    BY ZenonT(60) DEF AppliedMeansGranted
  <2>1. PICK i \in DOMAIN Carries[b] : Carries[b][i] = a
    BY ZenonT(60) DEF ActionsOf
  <2>2. i \in GrantsIn(b)
    BY <2>1, ZenonT(60) DEF GrantsIn
  <2> QED
    BY <2>1, <2>2, ZenonT(60) DEF Granting, GrantedAll
<1> QED
  BY <1>1, <1>2, TypeInit, TypeStep, GrantingStep, PTL DEF Spec

-----------------------------------------------------------------------------
(* Effects *)

\* make_canonical clears the stage of what it displaces and owes the effects of
\* what it adopts.
LEMMA AdoptOwing ==
  ASSUME Owing, NEW b \in Blocks, Adopt(b),
         \A w \in Workers :
           job[w].pc = "flag" => job'[w].pc = "flag" /\ job'[w].blk = job[w].blk
  PROVE  Owing'
<1> SUFFICES ASSUME NEW c \in Blocks, Canonical(c)', state'[c] = 0
             PROVE  c \in owed' \/ \E w \in Workers : job'[w].pc = "flag" /\ job'[w].blk = c
  BY DEF Owing
<1>1. Height[c] <= Height[b] /\ Chain[b][Height[c]] = c
  BY ZenonT(60) DEF Adopt, Canonical, Latest, At
<1>2. CASE ~Canonical(c)
  BY <1>1, <1>2, ZenonT(60) DEF Adopt, NewlyCanonical
<1>3. CASE Canonical(c)
  <2>1. c \notin Displaced(b)
    BY <1>1, ZenonT(60) DEF Displaced
  <2>2. state[c] = 0
    BY <2>1, ZenonT(60) DEF Adopt
  <2>3. c \in owed \/ \E w \in Workers : job[w].pc = "flag" /\ job[w].blk = c
    BY <1>3, <2>2, ZenonT(60) DEF Owing
  <2> QED
    BY <2>3, ZenonT(60) DEF Adopt
<1> QED
  BY <1>2, <1>3, ZenonT(60)

\* Below the tip, the chain of its parent is the chain of the tip.
LEMMA RollbackCanonical ==
  ASSUME Trees, tip # Genesis, tip' = Parent[tip], NEW c \in Blocks
  PROVE  /\ Canonical(c)' => Canonical(c)
         /\ Canonical(c) /\ ~Canonical(c)' => c = tip
<1>1. tip \in Blocks
  BY ZenonT(60) DEF Trees
<1>2. /\ Height[tip] = Height[tip'] + 1 /\ Height[tip'] \in Nat
      /\ \A h \in 0..Height[tip'] : Chain[tip][h] = Chain[tip'][h]
  BY <1>1, ParentFacts, ZenonT(60)
<1>3. Height[c] \in Nat /\ Chain[tip][Height[tip]] = tip
  BY <1>1, ChainFacts, ZenonT(60)
<1>4. /\ Canonical(c) <=> Height[c] <= Height[tip] /\ Chain[tip][Height[c]] = c
      /\ Canonical(c)' <=> Height[c] <= Height[tip'] /\ Chain[tip'][Height[c]] = c
  BY ZenonT(60) DEF Canonical, Latest, At
<1>5. CASE Height[c] <= Height[tip']
  <2>1. Height[c] \in 0..Height[tip'] /\ Height[c] <= Height[tip]
    BY <1>2, <1>3, <1>5
  <2>2. Chain[tip][Height[c]] = Chain[tip'][Height[c]]
    BY <1>2, <2>1, ZenonT(60)
  <2> QED
    BY <1>4, <1>5, <2>1, <2>2, ZenonT(60)
<1>6. CASE ~(Height[c] <= Height[tip'])
  <2>1. Height[c] <= Height[tip] => Height[c] = Height[tip]
    BY <1>2, <1>3, <1>6
  <2> QED
    BY <1>3, <1>4, <1>6, <2>1, ZenonT(60)
<1> QED
  BY <1>5, <1>6, ZenonT(60)

\* A step that neither adopts nor clears a stage.
LEMMA SameOwing ==
  ASSUME Owing,
         \A c \in Blocks : Canonical(c)' => Canonical(c),
         \A c \in Blocks : state'[c] = 0 => state[c] = 0,
         \A c \in owed : c \in owed' \/ \E w \in Workers : job'[w].pc = "flag" /\ job'[w].blk = c,
         \A w \in Workers : job[w].pc = "flag" =>
           \/ job'[w].pc = "flag" /\ job'[w].blk = job[w].blk
           \/ job[w].blk \in owed'
           \/ state'[job[w].blk] # 0
  PROVE  Owing'
<1> SUFFICES ASSUME NEW c \in Blocks, Canonical(c)', state'[c] = 0
             PROVE  c \in owed' \/ \E w \in Workers : job'[w].pc = "flag" /\ job'[w].blk = c
  BY ZenonT(60) DEF Owing
<1>1. c \in owed \/ \E w \in Workers : job[w].pc = "flag" /\ job[w].blk = c
  BY DEF Owing
<1> QED
  BY <1>1, ZenonT(60)

\* A step of a worker that is not about to record stage 1.
LEMMA FlagsKept ==
  ASSUME Tasks, NEW w \in Workers, job[w].pc # "flag", NEW j, job' = [job EXCEPT ![w] = j]
  PROVE  \A v \in Workers :
           job[v].pc = "flag" => job'[v].pc = "flag" /\ job'[v].blk = job[v].blk
BY ZenonT(60) DEF Tasks

LEMMA SameTip ==
  ASSUME tip' = tip
  PROVE  \A c \in Blocks : Canonical(c)' <=> Canonical(c)
BY ZenonT(60) DEF Canonical, Latest, At

LEMMA DeliverOwing ==
  ASSUME LType, Owing, NEW w \in Handlers, NEW b \in Blocks \ {Genesis},
         Deliver(w, b) \/ FormBlock(w, b)
  PROVE  Owing'
<1>1. w \in Workers /\ Tasks /\ Trees
  BY ZenonT(60) DEF Workers, LType
<1>2. CASE ReceiveHeader(w, b)
  <2>1. job' = job
    BY <1>2, ZenonT(60) DEF ReceiveHeader
  <2>2. CASE Adopt(b)
    BY <2>1, <2>2, AdoptOwing, ZenonT(60)
  <2>3. CASE UNCHANGED <<tip, marks, state, skipped, mempool, owed>>
    BY <2>1, <2>3, SameTip, SameOwing, ZenonT(60)
  <2> QED
    BY <1>2, <2>2, <2>3, ZenonT(60) DEF ReceiveHeader
<1>3. ASSUME job' = job \/ \E pc, via : Start(w, pc, via, b), state' = state, owed' = owed,
             \A c \in Blocks : Canonical(c)' => Canonical(c)
      PROVE  Owing'
  <2>1. \A v \in Workers :
          job[v].pc = "flag" => job'[v].pc = "flag" /\ job'[v].blk = job[v].blk
    BY <1>1, <1>3, FlagsKept, ZenonT(60) DEF Start
  <2> QED
    BY <1>3, <2>1, SameOwing, ZenonT(60)
<1>4. ASSUME NEW via \in {"data", "blocks", "orphan"}, ReceiveBlock(w, b, via)
      PROVE  Owing'
  <2>1. state' = state /\ owed' = owed
    BY <1>4, ZenonT(60) DEF ReceiveBlock
  <2>2. job' = job \/ \E pc, v : Start(w, pc, v, b)
    BY <1>4, ZenonT(60) DEF ReceiveBlock
  <2>3. \A c \in Blocks : Canonical(c)' => Canonical(c)
    <3>1. CASE tip' = tip
      BY <3>1, SameTip, ZenonT(60)
    <3>2. CASE WinsHeight(b, via) /\ tip' = Parent[tip]
      <4>1. tip # Genesis
        BY <1>1, <3>2, RolledBack, ZenonT(60) DEF WinsHeight
      <4> QED
        BY <1>1, <3>2, <4>1, RollbackCanonical, ZenonT(60)
    <3> QED
      BY <1>4, <3>1, <3>2, ZenonT(60) DEF ReceiveBlock
  <2> QED
    BY <1>3, <2>1, <2>2, <2>3, ZenonT(60)
<1>5. CASE FormBlock(w, b)
  BY <1>3, <1>5, SameTip, ZenonT(60) DEF FormBlock
<1> QED
  BY <1>2, <1>4, <1>5, ZenonT(60) DEF Deliver

LEMMA WorkOwing ==
  ASSUME LType, Owing, NEW w \in Workers, Work(w)
  PROVE  Owing'
<1>1. Tasks /\ Trees
  BY ZenonT(60) DEF LType
<1>2. ASSUME NEW j, job' = [job EXCEPT ![w] = j], job[w].pc # "flag",
             tip' = tip, owed' = owed, \A c \in Blocks : state'[c] = 0 => state[c] = 0
      PROVE  Owing'
  BY <1>1, <1>2, FlagsKept, SameTip, SameOwing, ZenonT(60)
<1>3. \A pc \in PCs : Goto(w, pc) =>
        job' = [job EXCEPT ![w] = [job[w] EXCEPT !.pc = pc]]
  BY <1>1, Moved, ZenonT(60)
<1>4. CASE ClearMarks(w)
  BY <1>2, <1>3, <1>4 DEF ClearMarks, PCs
<1>5. CASE StoreBody(w)
  <2>1. Goto(w, "put") \/ job' = [job EXCEPT ![w] = Idle]
    BY <1>5 DEF StoreBody
  <2>2. job[w].pc # "flag" /\ tip' = tip /\ owed' = owed /\ state' = state
    BY <1>5 DEF StoreBody
  <2> QED
    BY <1>2, <1>3, <2>1, <2>2 DEF PCs
<1>6. CASE PutRoot(w)
  <2>1. job[w].pc # "flag" /\ Goto(w, "read") /\ job[w].blk \in Blocks
    BY <1>1, <1>6, ZenonT(60) DEF PutRoot, Tasks, JobOK
  <2>2. job' = [job EXCEPT ![w] = [job[w] EXCEPT !.pc = "read"]]
    BY <1>3, <2>1 DEF PCs
  <2>3. CASE Adopt(job[w].blk)
    BY <1>1, <2>1, <2>2, <2>3, FlagsKept, AdoptOwing, ZenonT(60)
  <2>4. CASE UNCHANGED <<tip, marks, state, skipped, mempool, owed>>
    BY <1>2, <2>1, <2>2, <2>4, ZenonT(60)
  <2> QED
    BY <1>6, <2>3, <2>4, ZenonT(60) DEF PutRoot
<1>7. CASE ReadState(w)
  <2>1. \E j : job' = [job EXCEPT ![w] = j]
    BY <1>7, ZenonT(60) DEF ReadState
  <2>2. job[w].pc # "flag" /\ tip' = tip /\ owed' = owed /\ state' = state
    BY <1>7, ZenonT(60) DEF ReadState, store
  <2> QED
    BY <1>2, <2>1, <2>2, ZenonT(60)
<1>8. CASE ApplyEffects(w)
  <2>1. /\ job[w].pc # "flag" /\ tip' = tip /\ state' = state
        /\ owed' = owed \ {job[w].blk} /\ Goto(w, "flag")
    BY <1>8 DEF ApplyEffects
  <2>2. job' = [job EXCEPT ![w] = [job[w] EXCEPT !.pc = "flag"]]
    BY <1>3, <2>1 DEF PCs
  <2>3. job'[w].pc = "flag" /\ job'[w].blk = job[w].blk
    BY <1>1, <2>2 DEF Tasks, JobRecords
  <2>4. \A v \in Workers :
          job[v].pc = "flag" => job'[v].pc = "flag" /\ job'[v].blk = job[v].blk
    BY <1>1, <2>1, <2>2, FlagsKept, ZenonT(60)
  <2>5. \A c \in owed : c \in owed' \/ \E v \in Workers : job'[v].pc = "flag" /\ job'[v].blk = c
    BY <2>1, <2>3, ZenonT(60)
  <2>6. \A c \in Blocks : Canonical(c)' => Canonical(c)
    BY <2>1, SameTip, ZenonT(60)
  <2> QED
    BY <2>1, <2>4, <2>5, <2>6, SameOwing, ZenonT(60)
<1>9. CASE SetStage1(w)
  <2>1. /\ tip' = tip /\ owed' = owed /\ Goto(w, "grants") /\ job[w].blk \in Blocks
        /\ state' = [state EXCEPT ![job[w].blk] = 1]
    BY <1>1, <1>9 DEF SetStage1, Tasks, JobOK
  <2>2. \A v \in Workers \ {w} : job'[v] = job[v]
    BY <1>1, <2>1, ZenonT(60) DEF Goto, Tasks
  <2>3. /\ state'[job[w].blk] = 1
        /\ \A c \in Blocks : state'[c] = 0 => state[c] = 0
    BY <1>1, <2>1 DEF Trees
  <2>4. \A c \in Blocks : Canonical(c)' => Canonical(c)
    BY <2>1, SameTip, ZenonT(60)
  <2>5. \A v \in Workers : job[v].pc = "flag" =>
           \/ job'[v].pc = "flag" /\ job'[v].blk = job[v].blk
           \/ state'[job[v].blk] # 0
    <3>1. 1 # 0
      OBVIOUS
    <3> QED
      BY <2>2, <2>3, <3>1, ZenonT(60)
  <2> QED
    BY <2>1, <2>3, <2>4, <2>5, SameOwing, ZenonT(60)
<1>10. CASE ApplyGrant(w)
  <2>1. \E j : job' = [job EXCEPT ![w] = j]
    BY <1>1, <1>10, ZenonT(60) DEF ApplyGrant, Tasks
  <2>2. job[w].pc # "flag" /\ tip' = tip /\ owed' = owed /\ state' = state
    BY <1>10 DEF ApplyGrant
  <2> QED
    BY <1>2, <2>1, <2>2
<1>11. CASE SetStage2(w)
  <2>1. \E j : job' = [job EXCEPT ![w] = j]
    BY <1>11, ZenonT(60) DEF SetStage2
  <2>2. /\ job[w].pc # "flag" /\ tip' = tip /\ owed' = owed
        /\ state' = IF job[w].full THEN [state EXCEPT ![job[w].blk] = 2] ELSE state
    BY <1>11 DEF SetStage2
  <2>3. \A c \in Blocks : state'[c] = 0 => state[c] = 0
    BY <1>1, <2>2 DEF Trees
  <2> QED
    BY <1>2, <2>1, <2>2, <2>3, ZenonT(60)
<1> QED
  BY <1>4, <1>5, <1>6, <1>7, <1>8, <1>9, <1>10, <1>11 DEF Work

LEMMA OwingStep == LType /\ Owing /\ [Next]_vars => Owing'
<1> SUFFICES ASSUME LType, Owing, [Next]_vars
             PROVE  Owing'
  OBVIOUS
<1>1. CASE SyncTick
  <2>1. job[SyncLoop].pc # "flag" /\ \E j : job' = [job EXCEPT ![SyncLoop] = j]
    BY <1>1, ZenonT(60) DEF SyncTick
  <2>2. \A v \in Workers :
          job[v].pc = "flag" => job'[v].pc = "flag" /\ job'[v].blk = job[v].blk
    BY <2>1, FlagsKept DEF Workers, LType
  <2>3. CASE \E b \in Heaviest : Adopt(b)
    BY <2>2, <2>3, AdoptOwing DEF Heaviest, Adoptable, LType, Trees
  <2>4. CASE UNCHANGED <<tip, marks, state, skipped, mempool, owed>>
    BY <2>2, <2>4, SameTip, SameOwing, ZenonT(60)
  <2> QED
    BY <1>1, <2>3, <2>4, ZenonT(60) DEF SyncTick
<1>2. CASE Restart
  <2>1. tip' = tip /\ state' = state
    BY <1>2, ZenonT(60) DEF Restart, store
  <2>2. owed' = owed \cup {job[w].blk : w \in {v \in Workers : job[v].pc = "flag"}}
    BY <1>2 DEF Restart
  <2>3. \A c \in Blocks : Canonical(c)' => Canonical(c)
    BY <2>1, SameTip, ZenonT(60)
  <2> QED
    BY <2>1, <2>2, <2>3, SameOwing, ZenonT(60)
<1>3. CASE \E a \in Heard : ReceiveAction(a)
  BY <1>3, SameTip, SameOwing, ZenonT(60) DEF ReceiveAction, store
<1>4. CASE UNCHANGED vars
  BY <1>4, SameTip, SameOwing, ZenonT(60) DEF vars, store
<1> QED
  BY <1>1, <1>2, <1>3, <1>4, DeliverOwing, WorkOwing DEF Next

\* For any number of handlers beside the sync loop and the startup repair: a pass
\* whose reads still hold when it runs a block's content effects finds them owed
\* since the block was last adopted, so that no counter is incremented twice.
THEOREM EffectsOnceAlways == Spec => EffectsOnce
<1>1. Init => Owing
  <2> SUFFICES ASSUME Init, NEW b \in Blocks, Canonical(b)
               PROVE  state[b] # 0
    BY ZenonT(60) DEF Owing
  <2>1. Height[Genesis] = 0 /\ Chain[Genesis][0] = Genesis /\ Height[b] \in Nat
    BY LedgerConstants, LedgerChains, ZenonT(60)
  <2>2. b = Genesis
    <3>1. tip = Genesis
      BY ZenonT(60) DEF Init
    <3>2. Height[b] <= Height[Genesis] /\ Chain[Genesis][Height[b]] = b
      BY <3>1, ZenonT(60) DEF Canonical, Latest, At
    <3>3. Height[b] = 0
      BY <2>1, <3>2
    <3> QED
      BY <2>1, <3>2, <3>3, ZenonT(60)
  <2> QED
    BY <2>2 DEF Init
<1>2. ASSUME LType, Owing, NEW w \in Workers, job[w].pc = "effects", ~Stale(w)
      PROVE  job[w].blk \in owed
  <2>1. job[w].blk \in Blocks
    BY <1>2, ZenonT(60) DEF LType, Tasks, JobOK
  <2> QED
    BY <1>2, <2>1, ZenonT(60) DEF Stale, Owing
<1>3. LType /\ Owing =>
        [\A w \in Workers :
           job[w].pc = "effects" /\ job'[w].pc = "flag" /\ ~Stale(w) => job[w].blk \in owed]_vars
  BY <1>2
<1> QED
  BY <1>1, <1>3, TypeInit, TypeStep, OwingStep, PTL DEF Spec, EffectsOnce

-----------------------------------------------------------------------------
(* Displaced actions *)

\* What the steps that displace blocks B do with their actions.
LEMMA RequeueReturns ==
  ASSUME NEW B, NEW m, NEW c \in B \cap bodies, NEW a \in ActionsOf(c)
  PROVE  \/ a \in Returned(B, m) \ seen
         \/ a \in pending
         \/ a \in seen \ pending
         \/ m[a] # Unmarked
BY ZenonT(60) DEF Returned

LEMMA AdoptDisplaces ==
  ASSUME NEW b, Adopt(b), NEW c \in Blocks, Canonical(c), ~Canonical(c)'
  PROVE  c \in Displaced(b)
BY ZenonT(60) DEF Adopt, Displaced, Canonical, Latest, At

\* A tip rolled back or a branch adopted: its actions return.
LEMMA ReturnStep ==
  ASSUME Trees, NEW B, Requeue(B, marks'), NEW c \in bodies \cap B, NEW a \in ActionsOf(c)
  PROVE  a \in pending' \cup (seen \ pending) \/ marks'[a] # Unmarked
BY RequeueReturns, ZenonT(60) DEF Requeue

LEMMA LosersStep ==
  ASSUME LType, [Next]_vars, NEW c \in bodies, Canonical(c), ~Canonical(c)',
         \A w \in Handlers :
           job[w].pc = "put" /\ job'[w].pc = "read" => job[w].via \in {"data", "blocks"},
         NEW a \in ActionsOf(c)
  PROVE  a \in pending' \cup (seen \ pending) \cup ActionsOf(tip') \/ marks'[a] # Unmarked
<1>1. c \in Blocks /\ Trees /\ Tasks /\ tip' # tip
  BY SameTip, ZenonT(60) DEF LType, Trees
<1>2. ASSUME NEW b, Adopt(b), Requeue(Displaced(b), marks')
      PROVE  a \in pending' \cup (seen \ pending) \/ marks'[a] # Unmarked
  <2>1. c \in Displaced(b)
    BY <1>1, <1>2, AdoptDisplaces, ZenonT(60)
  <2> QED
    BY <1>1, <1>2, <2>1, ReturnStep, ZenonT(60)
<1>3. ASSUME NEW w \in Handlers, NEW b \in Blocks \ {Genesis}, Deliver(w, b) \/ FormBlock(w, b)
      PROVE  a \in pending' \cup (seen \ pending) \/ marks'[a] # Unmarked
  <2>1. CASE ReceiveHeader(w, b)
    BY <1>1, <1>2, <2>1, ZenonT(60) DEF ReceiveHeader
  <2>2. ASSUME NEW via \in {"data", "blocks", "orphan"}, ReceiveBlock(w, b, via)
        PROVE  a \in pending' \cup (seen \ pending) \/ marks'[a] # Unmarked
    <3>1. WinsHeight(b, via) /\ tip' = Parent[tip] /\ Requeue({tip}, marks')
      BY <1>1, <2>2, ZenonT(60) DEF ReceiveBlock
    <3>2. tip # Genesis
      BY <1>1, <3>1, RolledBack, ZenonT(60) DEF WinsHeight
    <3>3. c = tip
      BY <1>1, <3>1, <3>2, RollbackCanonical, ZenonT(60)
    <3> QED
      BY <1>1, <3>1, <3>3, ReturnStep, ZenonT(60)
  <2>3. CASE FormBlock(w, b)
    BY <1>1, <2>3, ZenonT(60) DEF FormBlock
  <2> QED
    BY <1>3, <2>1, <2>2, <2>3, ZenonT(60) DEF Deliver
<1>4. ASSUME NEW w \in Workers, Work(w)
      PROVE  a \in pending' \cup (seen \ pending) \cup ActionsOf(tip') \/ marks'[a] # Unmarked
  <2> DEFINE b == job[w].blk
             back == Returned(Displaced(b), marks') \ seen
  <2>1. PutRoot(w)
    BY <1>1, <1>4, ZenonT(60) DEF Work, ClearMarks, StoreBody, ReadState, ApplyEffects, SetStage1, ApplyGrant,
                      SetStage2, store
  <2>2. w \in Handlers /\ job[w].pc = "put" /\ Goto(w, "read")
    BY <1>1, <2>1, ZenonT(60) DEF PutRoot, Tasks, JobOK
  <2>3. job'[w].pc = "read"
    BY <1>1, <2>2, ZenonT(60) DEF Goto, Tasks, JobRecords
  <2>4. job[w].via \in {"data", "blocks"}
    BY <2>2, <2>3, ZenonT(60)
  <2>5. /\ Adopt(b)
        /\ \/ pending' = (pending \cup back) \ ActionsOf(b)
           \/ Requeue(Displaced(b), marks')
    BY <1>1, <2>1, <2>4, ZenonT(60) DEF PutRoot
  <2>6. tip' = b /\ c \in Displaced(b)
    BY <1>1, <2>5, AdoptDisplaces, ZenonT(60) DEF Adopt
  <2>7. CASE pending' = (pending \cup back) \ ActionsOf(b)
    <3>1. a \in back \/ a \in pending \/ a \in seen \ pending \/ marks'[a] # Unmarked
      BY <2>6, RequeueReturns, ZenonT(60)
    <3> QED
      BY <2>6, <2>7, <3>1, ZenonT(60)
  <2> QED
    BY <1>2, <2>5, <2>7, ZenonT(60)
<1>5. CASE SyncTick
  BY <1>1, <1>2, <1>5, ZenonT(60) DEF SyncTick
<1>6. CASE Restart \/ \E x \in Heard : ReceiveAction(x)
  BY <1>1, <1>6, ZenonT(60) DEF Restart, ReceiveAction, store
<1>7. CASE UNCHANGED vars
  BY <1>1, <1>7, ZenonT(60) DEF vars, store
<1> QED
  BY <1>3, <1>4, <1>5, <1>6, <1>7, ZenonT(60) DEF Next

\* For any two chains and whatever displaces a block: each of its actions is
\* pending again, finalized elsewhere, in the block put in its place, or drained
\* by this node's own builder before.
THEOREM LosersReturnAlways == Spec => LosersReturn
<1>1. LType /\ [Next]_vars =>
        [\A c \in bodies :
           /\ Canonical(c) /\ ~Canonical(c)'
           /\ \A w \in Handlers :
                job[w].pc = "put" /\ job'[w].pc = "read" => job[w].via \in {"data", "blocks"}
           => \A a \in ActionsOf(c) :
                a \in pending' \cup (seen \ pending) \cup ActionsOf(tip') \/ marks'[a] # Unmarked]_vars
  BY LosersStep, ZenonT(60)
<1> QED
  BY <1>1, TypeInit, TypeStep, PTL DEF Spec, LosersReturn
=============================================================================
