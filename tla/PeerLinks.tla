----------------------------- MODULE PeerLinks -----------------------------
(***************************************************************************)
(* Peer connections of one node: the ConnectionManager, which counts them  *)
(* (src/node/connection_manager.rs), the PeerConnectionPool, which sends   *)
(* on them (src/node/peer_connections.rs), and the read loop that owns     *)
(* each (src/node/tasks.rs).  Nothing keeps manager and pool together but  *)
(* the order in which dials, read loops, senders and RPC calls use them.   *)
(*                                                                         *)
(* A connection is one TCP socket that has completed its handshake.  Its   *)
(* socket is released when its read loop is done.  Bans are left out: no   *)
(* caller of the running node bans a peer.                                 *)
(***************************************************************************)
EXTENDS Integers, FiniteSets, FiniteSetsExt

CONSTANTS
  Peers,
  Conns,             \* sockets the node may come to have
  PeerOf,            \* socket -> the peer at its other end
  Talkers,           \* bound: the peers with traffic once they are connected
  Ways,              \* bound: socket -> the ways it may come about
  None,
  max_inbound, max_outbound, max_connections, target_peers,
  MAX_SEND_STRIKES,
  MaxStrikes         \* bound: strikes on record, over all connections

ASSUME LinkConstants ==
  /\ PeerOf \in [Conns -> Peers]
  /\ Talkers \subseteq Peers
  /\ Ways \in [Conns -> SUBSET {"inbound", "outbound", "connect"}]
  /\ None \notin Conns
  /\ {max_inbound, max_outbound, max_connections, target_peers} \subseteq Nat
  /\ MAX_SEND_STRIKES \in Nat \ {0}
  /\ MaxStrikes \in Nat

VARIABLES
  handles,   \* ConnectionManager.connections: peer -> the socket it describes
  pool,      \* PeerConnectionPool.connections: peer -> socket
  kind,      \* socket -> how it came about
  setup,     \* socket -> how far its setup task is
  loop,      \* socket -> where its read loop is
  closed,    \* sockets whose closed flag is set
  woken,     \* sockets whose registered recv has been notified
  closing,   \* sockets between the two halves of close(), under the pool's lock
  strikes,   \* socket -> send_strikes
  sending,   \* sockets with a timed send in progress
  evicting,  \* sockets whose sender is about to call remove(peer_id)
  left,      \* history: read loops that found or left their peer's slot empty
  unlisted   \* history: peers whose handle went while they had a connection

links == <<handles, pool>>
dials == <<kind, setup>>
signals == <<closed, woken, closing>>
sends == <<strikes, sending, evicting>>
history == <<left, unlisted>>
vars == <<links, dials, loop, signals, sends, history>>

Kinds == {"none", "inbound", "outbound", "connect"}
Setups == {"none", "handshaken", "registered", "pooled", "dropped"}
Reading == {"recv", "check", "parked", "replying", "exit"}
Leaving == {"probe", "forget", "done"}

Init ==
  /\ handles = [p \in Peers |-> None]
  /\ pool = [p \in Peers |-> None]
  /\ kind = [c \in Conns |-> "none"]
  /\ setup = [c \in Conns |-> "none"]
  /\ loop = [c \in Conns |-> "none"]
  /\ closed = {}
  /\ woken = {}
  /\ closing = {}
  /\ strikes = [c \in Conns |-> 0]
  /\ sending = {}
  /\ evicting = {}
  /\ left = {}
  /\ unlisted = {}

-----------------------------------------------------------------------------
(* ConnectionManager *)

Inbound(c) == kind[c] = "inbound"
\* Connections it counts to peers other than p.
CountedBut(p) == {q \in Peers \ {p} : handles[q] # None}
Counted == {q \in Peers : handles[q] # None}
HasRoom(Q, inbound) ==
  /\ Cardinality({q \in Q : Inbound(handles[q]) = inbound})
       < (IF inbound THEN max_inbound ELSE max_outbound)
  /\ Cardinality(Q) < max_connections

\* The peer has a connection in the pool, or one on its way there after the step.
Connected(p) ==
  \/ pool[p] # None
  \/ \E c \in Conns : PeerOf[c] = p /\ setup'[c] = "registered"
Unlist(Q) == unlisted' = unlisted \cup {p \in Q : Connected(p)}

\* The handshake of a new socket is complete.
Handshake(c, k) ==
  /\ setup[c] = "none"
  /\ k \in Ways[c]
  /\ kind' = [kind EXCEPT ![c] = k]
  /\ setup' = [setup EXCEPT ![c] = "handshaken"]
  /\ UNCHANGED <<links, loop, signals, sends, history>>

\* Where sockets come from, and what each asks before it dials: the two discovery
\* tasks whether peers are wanted, the hole-punch dialer whether the peer is
\* already pooled, NodeManager::connect whether there is room, the rest nothing.
Accept(c) == Handshake(c, "inbound")
AddPeer(c) == Handshake(c, "outbound")
Bootstrap(c) == Handshake(c, "outbound")
DnsSeed(c) == Handshake(c, "outbound")
NeedsMorePeers == Cardinality(Counted) < target_peers
DhtDiscovery(c) == NeedsMorePeers /\ Handshake(c, "outbound")
GetaddrDiscovery(c) == NeedsMorePeers /\ Handshake(c, "outbound")
HolePunch(c) == pool[PeerOf[c]] = None /\ Handshake(c, "outbound")
Connect(c) == HasRoom(Counted, FALSE) /\ Handshake(c, "connect")
Arrive(c) ==
  \/ Accept(c) \/ AddPeer(c) \/ Bootstrap(c) \/ DnsSeed(c)
  \/ DhtDiscovery(c) \/ GetaddrDiscovery(c) \/ HolePunch(c) \/ Connect(c)

\* add_connection: an old handle of the peer goes first, then the limits are
\* checked.  A socket that is refused is dropped, but NodeManager::connect goes
\* on with it.
Register(c) ==
  LET p == PeerOf[c]
      ok == HasRoom(CountedBut(p), Inbound(c))
  IN  /\ setup[c] = "handshaken"
      /\ handles' = [handles EXCEPT ![p] = IF ok THEN c ELSE None]
      /\ setup' = [setup EXCEPT ![c] = IF ok \/ kind[c] = "connect" THEN "registered"
                                       ELSE "dropped"]
      /\ IF ok THEN unlisted' = unlisted \ {p} ELSE Unlist({p})
      /\ UNCHANGED <<pool, kind, loop, signals, sends, left>>

\* remove_peer and NodeManager::disconnect: the handle goes, the socket stays.
Disconnect(p) ==
  /\ handles[p] # None
  /\ handles' = [handles EXCEPT ![p] = None]
  /\ UNCHANGED <<pool, dials, loop, signals, sends, left>>
  /\ Unlist({p})

-----------------------------------------------------------------------------
(* PeerConnectionPool *)

Unlocked == closing = {}

\* The first half of close(), for what leaves the pool; the lock is held.
Close(C) ==
  /\ closed' = closed \cup C
  /\ closing' = C
  /\ UNCHANGED woken

\* Its second half, notify_waiters: reaches a recv that has registered.
Notify(c) ==
  /\ c \in closing
  /\ closing' = closing \ {c}
  /\ woken' = IF loop[c] \in {"check", "parked"} THEN woken \cup {c} ELSE woken
  /\ UNCHANGED <<links, dials, loop, closed, sends, history>>

\* Variant: a replaced connection is closed although there is none.
PoolAddAlwaysCloses(c) ==
  /\ Unlocked
  /\ setup[c] = "registered"
  /\ pool' = [pool EXCEPT ![PeerOf[c]] = c]
  /\ Close({pool[PeerOf[c]]})
  /\ setup' = [setup EXCEPT ![c] = "pooled"]
  /\ loop' = [loop EXCEPT ![c] = "recv"]
  /\ UNCHANGED <<handles, kind, sends, history>>

\* add, which closes the connection it replaces, and the spawn of the read loop.
PoolAdd(c) ==
  /\ Unlocked
  /\ setup[c] = "registered"
  /\ pool' = [pool EXCEPT ![PeerOf[c]] = c]
  /\ Close({pool[PeerOf[c]]} \ {None})
  /\ setup' = [setup EXCEPT ![c] = "pooled"]
  /\ loop' = [loop EXCEPT ![c] = "recv"]
  /\ UNCHANGED <<handles, kind, sends, history>>

StrikesOnRecord == MapThenSumSet(LAMBDA c : strikes[c], Conns)

\* send_to or a broadcast takes the peer's connection, sends without the lock
\* within PEER_SEND_TIMEOUT, and keeps score.
StartSend(p) ==
  /\ Unlocked
  /\ pool[p] \notin sending \cup {None}
  /\ StrikesOnRecord < MaxStrikes
  /\ sending' = sending \cup {pool[p]}
  /\ UNCHANGED <<links, dials, loop, signals, strikes, evicting, history>>

EndSend(c, ok) ==
  LET n == IF ok THEN 0 ELSE strikes[c] + 1
  IN  /\ c \in sending
      /\ sending' = sending \ {c}
      /\ strikes' = [strikes EXCEPT ![c] = n]
      /\ evicting' = IF n >= MAX_SEND_STRIKES THEN evicting \cup {c} ELSE evicting
      /\ UNCHANGED <<links, dials, loop, signals, history>>

\* remove, by peer id: whatever connection the peer has by now.
Evict(c) ==
  LET p == PeerOf[c] IN
  /\ Unlocked
  /\ c \in evicting
  /\ evicting' = evicting \ {c}
  /\ pool' = [pool EXCEPT ![p] = None]
  /\ Close({pool[p]} \ {None})
  /\ UNCHANGED <<handles, dials, loop, strikes, sending, history>>

-----------------------------------------------------------------------------
(* message_read_loop_with_timeout *)

Goto(c, pc) == loop' = [loop EXCEPT ![c] = pc]

\* recv registers for the wake-up...
Listen(c) ==
  /\ loop[c] = "recv"
  /\ Goto(c, "check")
  /\ woken' = woken \ {c}
  /\ UNCHANGED <<links, dials, closed, closing, sends, history>>

\* Variant: the flag was loaded before the registration.
CheckNever(c) ==
  /\ loop[c] = "check"
  /\ Goto(c, "parked")
  /\ UNCHANGED <<links, dials, signals, sends, history>>

\* ...then loads the flag, and parks.
Check(c) ==
  /\ loop[c] = "check"
  /\ Goto(c, IF c \in closed THEN "exit" ELSE "parked")
  /\ UNCHANGED <<links, dials, signals, sends, history>>

Wake(c) ==
  /\ loop[c] = "parked" /\ c \in woken
  /\ Goto(c, "exit")
  /\ woken' = woken \ {c}
  /\ UNCHANGED <<links, dials, closed, closing, sends, history>>

\* The peer: a message, which the router handles and perhaps answers, without a
\* timeout; its window open for the answer; its end of the connection closed, a
\* read error, or silence for idle_timeout.
Message(c) ==
  /\ PeerOf[c] \in Talkers
  /\ loop[c] = "parked"
  /\ Goto(c, "recv") \/ Goto(c, "replying")
  /\ UNCHANGED <<links, dials, signals, sends, history>>
Replied(c) ==
  /\ loop[c] = "replying"
  /\ Goto(c, "recv")
  /\ UNCHANGED <<links, dials, signals, sends, history>>
Hangup(c) ==
  /\ PeerOf[c] \in Talkers
  /\ loop[c] \in {"parked", "replying"}
  /\ Goto(c, "exit")
  /\ UNCHANGED <<links, dials, signals, sends, history>>

\* Variant: the entry is left to whoever replaces it.
RemoveIfSameNever(c) ==
  /\ Unlocked
  /\ loop[c] = "exit"
  /\ Goto(c, "probe")
  /\ UNCHANGED <<links, dials, signals, sends>>

\* Clean-up: remove_if_same,
RemoveIfSame(c) ==
  LET p == PeerOf[c] IN
  /\ Unlocked
  /\ loop[c] = "exit"
  /\ \/ /\ pool[p] = c
        /\ pool' = [pool EXCEPT ![p] = None]
        /\ Close({c})
        /\ Goto(c, "forget")
     \/ /\ pool[p] # c
        /\ Goto(c, "probe")
        /\ UNCHANGED <<pool, signals>>
  /\ UNCHANGED <<handles, dials, sends>>

\* Variant: the manager is left to others when the entry was not the loop's own.
ProbeNever(c) ==
  /\ Unlocked
  /\ loop[c] = "probe"
  /\ Goto(c, "done")
  /\ UNCHANGED <<links, dials, signals, sends>>

\* Variant: the handle is removed by peer id, whoever has the slot.
ProbeBlindly(c) ==
  /\ Unlocked
  /\ loop[c] = "probe"
  /\ Goto(c, "forget")
  /\ UNCHANGED <<links, dials, signals, sends>>

\* get, when the entry was not its own,
Probe(c) ==
  /\ Unlocked
  /\ loop[c] = "probe"
  /\ Goto(c, IF pool[PeerOf[c]] = None THEN "forget" ELSE "done")
  /\ UNCHANGED <<links, dials, signals, sends>>

\* and remove_connection.  A connection made since the slot was seen empty loses
\* its handle with it.
Forget(c) ==
  LET p == PeerOf[c] IN
  /\ loop[c] = "forget"
  /\ handles' = [handles EXCEPT ![p] = None]
  /\ Goto(c, "done")
  /\ left' = left \ {c}
  /\ UNCHANGED <<pool, dials, signals, sends>>
  /\ Unlist({q \in {p} : c \in left})

Leave(c) ==
  /\ RemoveIfSame(c) \/ Probe(c)
  /\ left' = IF pool'[PeerOf[c]] = None THEN left \cup {c} ELSE left
  /\ UNCHANGED unlisted

ReadLoop(c) == Listen(c) \/ Check(c) \/ Wake(c) \/ Leave(c) \/ Forget(c)
SetUp(c) == Register(c) \/ PoolAdd(c)

Next ==
  \/ \E c \in Conns :
       \/ Arrive(c) \/ SetUp(c) \/ ReadLoop(c) \/ Notify(c)
       \/ Message(c) \/ Replied(c) \/ Hangup(c)
       \/ EndSend(c, TRUE) \/ EndSend(c, FALSE) \/ Evict(c)
  \/ \E p \in Talkers : Disconnect(p) \/ StartSend(p)

Spec == Init /\ [][Next]_vars

\* Tasks of the node run on.  Nothing is asked of the peer, nor of a reply to it.
FairSpec ==
  /\ Spec
  /\ \A c \in Conns : WF_vars(SetUp(c)) /\ WF_vars(ReadLoop(c)) /\ WF_vars(Notify(c))

-----------------------------------------------------------------------------
(* Properties *)

\* The types of the two tables, the sockets and their tasks.
TypeOK ==
  /\ handles \in [Peers -> Conns \cup {None}]
  /\ pool \in [Peers -> Conns \cup {None}]
  /\ kind \in [Conns -> Kinds]
  /\ setup \in [Conns -> Setups]
  /\ loop \in [Conns -> {"none"} \cup Reading \cup Leaving]
  /\ closed \subseteq Conns /\ woken \subseteq Conns /\ closing \subseteq Conns
  /\ strikes \in [Conns -> Nat]
  /\ sending \subseteq Conns /\ evicting \subseteq Conns
  /\ left \subseteq Conns /\ unlisted \subseteq Peers

\* The pool holds no dead entry: the read loop of every pooled connection runs,
\* through replacements, evictions and clean-ups that race each other.
PooledIsRead ==
  \A p \in Peers : pool[p] # None => PeerOf[pool[p]] = p /\ loop[pool[p]] \in Reading

\* The clean-up guard of the read loop: a peer with a pooled connection is one
\* the manager counts, whatever connections of its were replaced or evicted.
\* Three steps do unlist a connected peer, until it registers again: a manual
\* disconnect; a refused registration, which has dropped the old handle; and a
\* connection set up across a clean-up's look at the empty slot and its
\* remove_connection.
LivePeersAreCounted ==
  \A p \in Peers \ unlisted : pool[p] # None => handles[p] # None

\* close() and its ordering contract with recv(): a connection that has been
\* replaced in the pool or evicted from it ends its read loop, which releases the
\* socket.  The exception is a loop that is sending a reply, which neither the
\* flag nor the wake-up interrupts.
UnpooledLoopsEnd ==
  \A c \in {d \in Conns : PeerOf[d] \in Talkers} :
    (setup[c] = "pooled" /\ pool[PeerOf[c]] # c) ~> (loop[c] \in {"done", "replying"})

\* A peer whose connection was evicted for failed sends is not counted for ever:
\* the read loop that finds the slot empty removes the handle, unless it is
\* stuck in a reply.
EvictedIsForgotten ==
  \A p \in Talkers :
    (handles[p] # None /\ pool[p] = None)
      ~> \/ handles[p] = None \/ pool[p] # None
         \/ \E c \in Conns : PeerOf[c] = p /\ loop[c] = "replying"
=============================================================================
