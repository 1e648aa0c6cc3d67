-------------------------- MODULE PeerLinksProofs --------------------------
(***************************************************************************)
(* PooledIsRead and LivePeersAreCounted for any peers, sockets and limits. *)
(* Neither is inductive: a clean-up is safe because of what its loop saw,  *)
(* and a dial because its handle came before its pool entry.               *)
(***************************************************************************)
EXTENDS PeerLinks, TLAPS

\* A read loop runs only for a socket that was pooled.
LoopsArePooled == \A c \in Conns : loop[c] # "none" => setup[c] = "pooled"

\* remove_connection is reached by a loop that saw its peer's slot empty.
ForgetsHaveLooked == \A c \in Conns : loop[c] = "forget" => c \in left

\* LivePeersAreCounted, for connections on their way to the pool too.
ConnectedAreCounted ==
  \A p \in Peers \ unlisted :
    \/ handles[p] # None
    \/ pool[p] = None /\ \A c \in Conns : PeerOf[c] = p => setup[c] # "registered"

LInv ==
  /\ TypeOK
  /\ PooledIsRead
  /\ LoopsArePooled
  /\ ForgetsHaveLooked
  /\ ConnectedAreCounted

-----------------------------------------------------------------------------

\* LInv holds before the first connection.
LEMMA LInvInit == Init => LInv
BY LinkConstants
   DEF Init, LInv, TypeOK, PooledIsRead, LoopsArePooled, ForgetsHaveLooked,
       ConnectedAreCounted, Kinds, Setups, Reading, Leaving

\* The handshake of a socket touches neither table.
LEMMA HandshakeKeeps ==
  ASSUME LInv, NEW c \in Conns, NEW k \in Kinds, Handshake(c, k)
  PROVE  LInv'
BY LinkConstants
   DEF LInv, TypeOK, PooledIsRead, LoopsArePooled, ForgetsHaveLooked,
       ConnectedAreCounted, Kinds, Setups, Reading, Leaving,
       Handshake, links, signals, sends, history

\* add_connection: a refused socket unlists its peer if that is connected.
LEMMA RegisterKeeps ==
  ASSUME LInv, NEW c \in Conns, Register(c)
  PROVE  LInv'
<1> DEFINE p == PeerOf[c]
           ok == HasRoom(CountedBut(p), Inbound(c))
<1>1. p \in Peers /\ loop[c] = "none"
  BY LinkConstants DEF LInv, LoopsArePooled, Register
<1>2. /\ setup[c] = "handshaken"
      /\ handles' = [handles EXCEPT ![p] = IF ok THEN c ELSE None]
      /\ setup' = [setup EXCEPT ![c] = IF ok \/ kind[c] = "connect" THEN "registered"
                                       ELSE "dropped"]
      /\ IF ok THEN unlisted' = unlisted \ {p} ELSE Unlist({p})
      /\ UNCHANGED <<pool, kind, loop, signals, sends, left>>
  BY DEF Register
<1> HIDE DEF p, ok
<1>3. TypeOK'
  BY <1>1, <1>2 DEF LInv, TypeOK, Setups, Unlist, signals, sends
<1>4. (PooledIsRead /\ LoopsArePooled /\ ForgetsHaveLooked)'
  BY <1>1, <1>2 DEF LInv, TypeOK, PooledIsRead, LoopsArePooled, ForgetsHaveLooked
<1>5. ConnectedAreCounted'
  <2>1. CASE ok
    BY <1>1, <1>2, <2>1, LinkConstants DEF LInv, TypeOK, ConnectedAreCounted, p
  <2>2. CASE ~ok
    BY <1>1, <1>2, <2>2 DEF LInv, TypeOK, ConnectedAreCounted, Unlist, Connected, p
  <2> QED BY <2>1, <2>2
<1> QED BY <1>3, <1>4, <1>5 DEF LInv

\* A manual disconnect unlists a peer that is connected.
LEMMA DisconnectKeeps ==
  ASSUME LInv, NEW p \in Peers, Disconnect(p)
  PROVE  LInv'
BY LinkConstants
   DEF LInv, TypeOK, PooledIsRead, LoopsArePooled, ForgetsHaveLooked,
       ConnectedAreCounted, Disconnect, Unlist, Connected, dials, signals, sends

\* add: the new entry is read, and its handle came first.
LEMMA PoolAddKeeps ==
  ASSUME LInv, NEW c \in Conns, PoolAdd(c)
  PROVE  LInv'
<1> USE LinkConstants DEF PoolAdd, Close, sends, history
<1>1. TypeOK'
  <2>1. {pool[PeerOf[c]]} \ {None} \subseteq Conns
    BY ZenonT(60) DEF LInv, TypeOK
  <2>2. pool' \in [Peers -> Conns \cup {None}] /\ setup' \in [Conns -> Setups]
    BY ZenonT(60) DEF LInv, TypeOK, Setups
  <2>3. loop' \in [Conns -> {"none"} \cup Reading \cup Leaving]
    BY DEF LInv, TypeOK, Reading
  <2> QED BY <2>1, <2>2, <2>3 DEF LInv, TypeOK
<1>2. PooledIsRead'
  BY DEF LInv, TypeOK, PooledIsRead, Reading
<1>3. LoopsArePooled'
  BY DEF LInv, TypeOK, LoopsArePooled
<1>4. ForgetsHaveLooked'
  BY DEF LInv, TypeOK, ForgetsHaveLooked
<1>5. ConnectedAreCounted'
  BY DEF LInv, TypeOK, ConnectedAreCounted
<1> QED BY <1>1, <1>2, <1>3, <1>4, <1>5, ZenonT(60) DEF LInv

\* remove only empties a slot.
LEMMA EvictKeeps ==
  ASSUME LInv, NEW c \in Conns, Evict(c)
  PROVE  LInv'
BY LinkConstants
   DEF LInv, TypeOK, PooledIsRead, LoopsArePooled, ForgetsHaveLooked,
       ConnectedAreCounted, Evict, Close, dials, history

\* Sends and wake-ups touch neither table nor loop.
LEMMA SendsKeep ==
  ASSUME LInv,
         \/ \E c \in Conns : Notify(c) \/ EndSend(c, TRUE) \/ EndSend(c, FALSE)
         \/ \E p \in Peers : StartSend(p)
  PROVE  LInv'
<1> USE DEF links, dials, signals, history
<1>1. TypeOK' /\ UNCHANGED <<links, dials, loop, history>>
  <2>1. ASSUME NEW c \in Conns, Notify(c) PROVE TypeOK' /\ UNCHANGED <<links, dials, loop, history>>
    BY <2>1, ZenonT(60) DEF Notify, LInv, TypeOK, sends
  <2>2. ASSUME NEW c \in Conns, NEW ok \in BOOLEAN, EndSend(c, ok)
        PROVE  TypeOK' /\ UNCHANGED <<links, dials, loop, history>>
    <3>1. (IF ok THEN 0 ELSE strikes[c] + 1) \in Nat
      BY DEF LInv, TypeOK
    <3> QED BY <2>2, <3>1 DEF EndSend, LInv, TypeOK
  <2>3. ASSUME NEW p \in Peers, StartSend(p)
        PROVE  TypeOK' /\ UNCHANGED <<links, dials, loop, history>>
    BY <2>3 DEF StartSend, LInv, TypeOK
  <2> QED BY <2>1, <2>2, <2>3, ZenonT(60)
<1> QED
  BY <1>1 DEF LInv, PooledIsRead, LoopsArePooled, ForgetsHaveLooked, ConnectedAreCounted

\* A loop that reads on, or decides to stop, keeps its entry.
LEMMA ReadsKeep ==
  ASSUME LInv, NEW c \in Conns,
         \/ Listen(c) \/ Check(c) \/ Wake(c) \/ Message(c) \/ Replied(c) \/ Hangup(c)
  PROVE  LInv'
<1> USE DEF links, dials, signals, sends, history
<1>1. PICK pc \in Reading : Goto(c, pc)
  BY ZenonT(60) DEF Listen, Check, Wake, Message, Replied, Hangup, Reading
<1>2. loop[c] \in Reading
  BY DEF Listen, Check, Wake, Message, Replied, Hangup, Reading
<1>3. /\ UNCHANGED <<links, dials, closed, closing, sends, history>>
      /\ woken' \in {woken, woken \ {c}}
  BY DEF Listen, Check, Wake, Message, Replied, Hangup
<1>4. TypeOK'
  BY <1>1, <1>3 DEF LInv, TypeOK, Goto
<1>5. (PooledIsRead /\ LoopsArePooled /\ ForgetsHaveLooked)'
  BY <1>1, <1>2, <1>3
     DEF LInv, TypeOK, PooledIsRead, LoopsArePooled, ForgetsHaveLooked, Goto, Reading
<1>6. ConnectedAreCounted'
  BY <1>3 DEF LInv, ConnectedAreCounted
<1> QED BY <1>4, <1>5, <1>6, ZenonT(60) DEF LInv

\* The clean-up's look at the pool: it removes its own entry only, and goes on to
\* the manager only if the slot is empty.
LEMMA LeaveKeeps ==
  ASSUME LInv, NEW c \in Conns, Leave(c)
  PROVE  LInv'
<1> DEFINE p == PeerOf[c]
<1>0. p \in Peers
  BY LinkConstants, ZenonT(60)
<1>1. CASE RemoveIfSame(c) /\ pool[p] = c
  BY <1>0, <1>1, LinkConstants
     DEF LInv, TypeOK, PooledIsRead, LoopsArePooled, ForgetsHaveLooked, ConnectedAreCounted,
         Leave, RemoveIfSame, Close, Goto, Reading, Leaving, dials, sends
<1>2. CASE RemoveIfSame(c) /\ pool[p] # c
  BY <1>0, <1>2, LinkConstants
     DEF LInv, TypeOK, PooledIsRead, LoopsArePooled, ForgetsHaveLooked, ConnectedAreCounted,
         Leave, RemoveIfSame, Goto, Reading, Leaving, dials, sends, signals
<1>3. CASE Probe(c)
  BY <1>0, <1>3, LinkConstants
     DEF LInv, TypeOK, PooledIsRead, LoopsArePooled, ForgetsHaveLooked, ConnectedAreCounted,
         Leave, Probe, Goto, Reading, Leaving, links, dials, sends, signals
<1> QED BY <1>1, <1>2, <1>3 DEF Leave

\* remove_connection unlists a peer that has connected since.
LEMMA ForgetKeeps ==
  ASSUME LInv, NEW c \in Conns, Forget(c)
  PROVE  LInv'
<1>1. PeerOf[c] \in Peers /\ c \in left
  BY LinkConstants, ZenonT(60) DEF LInv, ForgetsHaveLooked, Forget
<1>2. TypeOK'
  BY <1>1, ZenonT(60) DEF LInv, TypeOK, Forget, Goto, Unlist, Leaving, dials, signals, sends
<1>3. (PooledIsRead /\ LoopsArePooled /\ ForgetsHaveLooked)'
  BY <1>1 DEF LInv, TypeOK, PooledIsRead, LoopsArePooled, ForgetsHaveLooked,
              Forget, Goto, Reading, dials
<1>4. ConnectedAreCounted'
  BY <1>1 DEF LInv, TypeOK, ConnectedAreCounted, Forget, Unlist, Connected, dials
<1> QED BY <1>2, <1>3, <1>4 DEF LInv

-----------------------------------------------------------------------------

\* Every step of dials, read loops, senders and RPC calls keeps LInv.
LEMMA LInvNext == LInv /\ [Next]_vars => LInv'
<1> SUFFICES ASSUME LInv, [Next]_vars PROVE LInv'
  OBVIOUS
<1>1. ASSUME NEW c \in Conns, Arrive(c)
      PROVE  LInv'
  BY <1>1, HandshakeKeeps, ZenonT(60) DEF Arrive, Accept, AddPeer, Bootstrap, DnsSeed,
     DhtDiscovery, GetaddrDiscovery, HolePunch, Connect, Kinds
<1>2. ASSUME NEW c \in Conns, SetUp(c)
      PROVE  LInv'
  BY <1>2, RegisterKeeps, PoolAddKeeps DEF SetUp
<1>3. ASSUME NEW c \in Conns, ReadLoop(c) \/ Message(c) \/ Replied(c) \/ Hangup(c)
      PROVE  LInv'
  BY <1>3, ReadsKeep, LeaveKeeps, ForgetKeeps DEF ReadLoop
<1>4. ASSUME NEW c \in Conns, Notify(c) \/ EndSend(c, TRUE) \/ EndSend(c, FALSE) \/ Evict(c)
      PROVE  LInv'
  BY <1>4, SendsKeep, EvictKeeps, ZenonT(60)
<1>5. ASSUME NEW p \in Talkers, Disconnect(p) \/ StartSend(p)
      PROVE  LInv'
  BY <1>5, LinkConstants, DisconnectKeeps, SendsKeep, ZenonT(60)
<1>6. CASE UNCHANGED vars
  BY <1>6 DEF LInv, TypeOK, PooledIsRead, LoopsArePooled, ForgetsHaveLooked,
              ConnectedAreCounted, vars, links, dials, signals, sends, history
<1> QED BY <1>1, <1>2, <1>3, <1>4, <1>5, <1>6, ZenonT(60) DEF Next

\* LInv is an invariant of the node.
LEMMA LinksInvariant == Spec => []LInv
BY LInvInit, LInvNext, PTL DEF Spec

\* Every pooled connection has a read loop that runs and is of the right peer,
\* for any number of peers and sockets and any limits: remove_if_same and close()
\* leave no dead entry behind.
THEOREM PooledIsReadAlways == Spec => []PooledIsRead
<1>1. LInv => PooledIsRead
  BY DEF LInv
<1> QED BY <1>1, LinksInvariant, PTL

\* A pooled peer is counted by the manager unless one of the three known steps
\* dropped its handle: the clean-up guard of the read loop is enough.
THEOREM LivePeersAreCountedAlways == Spec => []LivePeersAreCounted
<1>1. LInv => LivePeersAreCounted
  BY DEF LInv, ConnectedAreCounted, LivePeersAreCounted
<1> QED BY <1>1, LinksInvariant, PTL

\* The tables and task states keep their types.
THEOREM LinkTypes == Spec => []TypeOK
<1>1. LInv => TypeOK
  BY DEF LInv
<1> QED BY <1>1, LinksInvariant, PTL
=============================================================================
