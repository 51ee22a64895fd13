---------------------------- MODULE NetworkProofs ----------------------------
(***************************************************************************)
(* Proofs about how the node talks to others: Network, for any peers, any  *)
(* number of connections and streams, and any tree of blocks, and Rpc, for *)
(* any clients, requests and chains.                                       *)
(***************************************************************************)
EXTENDS Network, Rpc, TLAPS, FiniteSetTheorems, SequenceTheorems

(* Types of the registries *)

Ongoing == {"open", "stopping", "lost"}

ConnectionRecord ==
    [peer : Peer \cup Bootnode \cup {NoOne}, dialed : BOOLEAN,
     state : {"unused", "open", "stopping", "lost", "closed"}]
PeerRecord ==
    [ref : Connection \cup {NoOne}, persistent : BOOLEAN, retry : Nat,
     task : {"none", "sleeping", "dialing"},
     aux : [final : ChainBlock, best : ChainBlock \cup {NoOne}] \cup {NoOne}]

\* The registries map names of peers to connections and to what is known of
\* the peers.
RegistryTypes ==
    /\ conn \in [Connection -> ConnectionRecord]
    /\ peers \in [DOMAIN peers -> Connection]
    /\ peerInfo \in [DOMAIN peerInfo -> PeerRecord]

\* A name for a connection is taken when it is first used.
UnusedIsNobodys == \A c \in Connection : conn[c].state \in {"unused", "closed"} => conn[c].peer = NoOne

Named(info, p) == IF p \in DOMAIN info THEN info[p].ref ELSE NoOne
ConnectionOf(registry, p) == IF p \in DOMAIN registry THEN registry[p] ELSE NoOne

\* RegistriesAgree, of everything that is a key.
Agree(registry, info, made) ==
    \A p \in Peer :
        /\ Named(info, p) = ConnectionOf(registry, p)
        /\ Named(info, p) # NoOne =>
            /\ made[Named(info, p)].peer = p
            /\ made[Named(info, p)].state \in Ongoing

IInv ==
    /\ RegistryTypes
    /\ UnusedIsNobodys
    /\ Agree(peers, peerInfo, conn)

\* A registry without some of its keys.
LEMMA WithoutIs ==
  ASSUME NEW f, NEW S
  PROVE  WithoutKeys(f, S) = [x \in DOMAIN f \ S |-> f[x]]
  BY DEF WithoutKeys, Restrict

\* A peer that connects gets the connection in both registries.
LEMMA NewPeerStep ==
  ASSUME IInv, NEW c \in Connection, NEW p \in Peer, NEW dialed \in BOOLEAN,
         NEW info, info \in [DOMAIN info -> PeerRecord],
         \A q \in Peer : Named(info, q) = Named(peerInfo, q),
         NewPeer(c, p, dialed), peerInfo' = Connected(info, p, c)
  PROVE  IInv'
<1>1. /\ conn[c].state = "unused" /\ conn[c].peer = NoOne
      /\ conn' = [conn EXCEPT ![c] = [peer |-> p, dialed |-> dialed, state |-> "open"]]
      /\ peers' = With(peers, p, c)
  BY DEF NewPeer, PeerConnected, IInv, UnusedIsNobodys
<1>2. /\ conn' \in [Connection -> ConnectionRecord]
      /\ conn'[c].peer = p /\ conn'[c].state = "open"
      /\ \A d \in Connection : d # c => conn'[d] = conn[d]
  BY <1>1 DEF IInv, RegistryTypes, ConnectionRecord
<1>3. /\ peers' \in [DOMAIN peers' -> Connection]
      /\ DOMAIN peers' = DOMAIN peers \cup {p} /\ peers'[p] = c
      /\ \A q \in DOMAIN peers : q # p => peers'[q] = peers[q]
  BY <1>1 DEF With, IInv, RegistryTypes
<1>4. /\ peerInfo' \in [DOMAIN peerInfo' -> PeerRecord]
      /\ DOMAIN peerInfo' = DOMAIN info \cup {p} /\ peerInfo'[p].ref = c
      /\ \A q \in DOMAIN info : q # p => peerInfo'[q] = info[q]
  <2>1. CASE p \in DOMAIN info
    <3> DEFINE new == [info[p] EXCEPT !.ref = c, !.retry = @ \div 2]
    <3>1. new \in PeerRecord /\ new.ref = c
      <4>1. info[p] \in PeerRecord
        BY <2>1
      <4>2. info[p].retry \div 2 \in Nat
        BY <4>1 DEF PeerRecord
      <4> QED
        BY <4>1, <4>2 DEF PeerRecord
    <3>2. peerInfo' = With(info, p, new)
      BY <2>1 DEF Connected
    <3> HIDE DEF new
    <3> QED
      BY <3>1, <3>2 DEF With
  <2>2. CASE p \notin DOMAIN info
    <3> DEFINE new == [Fresh EXCEPT !.ref = c]
    <3>1. new \in PeerRecord /\ new.ref = c
      BY DEF Fresh, PeerRecord
    <3>2. peerInfo' = With(info, p, new)
      BY <2>2 DEF Connected
    <3> HIDE DEF new
    <3> QED
      BY <3>1, <3>2 DEF With
  <2> QED
    BY <2>1, <2>2
<1>5. UnusedIsNobodys'
  BY <1>2 DEF IInv, UnusedIsNobodys
<1>6. ASSUME NEW q \in Peer
      PROVE  /\ Named(peerInfo', q) = ConnectionOf(peers', q)
             /\ Named(peerInfo', q) # NoOne =>
                  /\ conn'[Named(peerInfo', q)].peer = q
                  /\ conn'[Named(peerInfo', q)].state \in Ongoing
  <2>1. CASE q = p
    BY <2>1, <1>2, <1>3, <1>4 DEF Named, ConnectionOf, Ongoing
  <2>2. CASE q # p
    <3>1. Named(peerInfo', q) = Named(peerInfo, q) /\ ConnectionOf(peers', q) = ConnectionOf(peers, q)
      BY <2>2, <1>3, <1>4 DEF Named, ConnectionOf
    <3>2. Named(peerInfo, q) # NoOne => Named(peerInfo, q) \in Connection /\ Named(peerInfo, q) # c
      BY <1>1 DEF IInv, Agree, Named, RegistryTypes, PeerRecord, Ongoing
    <3> QED
      BY <3>1, <3>2, <1>2 DEF IInv, Agree
  <2> QED
    BY <2>1, <2>2
<1> QED
  BY <1>2, <1>3, <1>4, <1>5, <1>6 DEF IInv, RegistryTypes, Agree

\* A step that only moves a connection on, or changes what else is known of a
\* peer, keeps the registries.
LEMMA KeepsRegistries ==
  ASSUME IInv, conn' \in [Connection -> ConnectionRecord],
         \A c \in Connection : conn'[c].peer = conn[c].peer /\ (conn'[c].state \in Ongoing <=> conn[c].state \in Ongoing),
         peers' = peers, peerInfo' \in [DOMAIN peerInfo' -> PeerRecord],
         \A p \in Peer : Named(peerInfo', p) = Named(peerInfo, p)
  PROVE  IInv'
<1>1. \A c \in Connection : conn'[c].state \in {"unused", "closed"} => conn[c].state \in {"unused", "closed"}
  BY DEF IInv, RegistryTypes, ConnectionRecord, Ongoing
<1>2. UnusedIsNobodys' /\ RegistryTypes'
  BY <1>1 DEF IInv, UnusedIsNobodys, RegistryTypes
<1>3. \A p \in Peer : Named(peerInfo, p) # NoOne => Named(peerInfo, p) \in Connection
  BY DEF IInv, RegistryTypes, PeerRecord, Named
<1>4. Agree(peers, peerInfo, conn)'
  BY <1>3 DEF IInv, Agree, Ongoing
<1> QED
  BY <1>2, <1>4 DEF IInv

\* Ending a connection ourselves.
LEMMA DisconnectedStep ==
  ASSUME IInv, NEW c, conn' = Disconnected(c), UNCHANGED <<peers, peerInfo>>
  PROVE  IInv'
<1>1. conn \in [Connection -> ConnectionRecord] /\ peerInfo \in [DOMAIN peerInfo -> PeerRecord]
  BY DEF IInv, RegistryTypes
<1>2. CASE c \in Connection /\ conn[c].state = "open"
  <2>1. conn' = [conn EXCEPT ![c].state = "stopping"]
    BY <1>2 DEF Disconnected
  <2>2. /\ conn' \in [Connection -> ConnectionRecord]
        /\ \A d \in Connection : conn'[d].peer = conn[d].peer /\ (conn'[d].state \in Ongoing <=> conn[d].state \in Ongoing)
    BY <2>1, <1>1, <1>2 DEF ConnectionRecord, Ongoing
  <2> QED
    BY <2>2, <1>1, KeepsRegistries
<1>3. CASE c \notin Connection \/ conn[c].state # "open"
  <2>1. conn' = conn
    BY <1>1, <1>3 DEF Disconnected
  <2> QED
    BY <2>1, <1>1, KeepsRegistries
<1> QED
  BY <1>2, <1>3

\* What a peer tells changes its aux data only.
LEMMA NotedKeeps ==
  ASSUME IInv, NEW s, NEW final \in ChainBlock, NEW best \in ChainBlock \cup {NoOne}, Noted(s, final, best)
  PROVE  /\ peerInfo' \in [DOMAIN peerInfo' -> PeerRecord]
         /\ \A p \in Peer : Named(peerInfo', p) = Named(peerInfo, p)
<1> DEFINE known == PeerOf(io, Id(s))
           new(p) == IF p \in known THEN [peerInfo[p] EXCEPT !.aux = [final |-> final, best |-> best]] ELSE peerInfo[p]
<1>1. peerInfo' = [p \in DOMAIN peerInfo |-> new(p)]
  BY DEF Noted
<1>2. \A p \in DOMAIN peerInfo : new(p) \in PeerRecord /\ new(p).ref = peerInfo[p].ref
  BY DEF IInv, RegistryTypes, PeerRecord
<1> HIDE DEF new
<1> QED
  BY <1>1, <1>2 DEF Named

\* A reconnect is planned, or the peer given up.
LEMMA RescheduledKeeps ==
  ASSUME NEW info, info \in [DOMAIN info -> PeerRecord], NEW p, Named(info, p) = NoOne
  PROVE  /\ Rescheduled(info, p) \in [DOMAIN Rescheduled(info, p) -> PeerRecord]
         /\ \A q \in Peer : Named(Rescheduled(info, p), q) = Named(info, q)
<1>1. CASE p \notin DOMAIN info
  BY <1>1 DEF Rescheduled
<1>2. CASE p \in DOMAIN info /\ info[p].retry < MaxRetries
  <2> DEFINE new == [info[p] EXCEPT !.retry = @ + 1, !.task = "sleeping"]
  <2>1. Rescheduled(info, p) = [info EXCEPT ![p] = new]
    BY <1>2 DEF Rescheduled
  <2>2. new \in PeerRecord /\ new.ref = info[p].ref
    <3>1. info[p] \in PeerRecord
      BY <1>2
    <3>2. info[p].retry + 1 \in Nat
      BY <3>1 DEF PeerRecord
    <3> QED
      BY <3>1, <3>2 DEF PeerRecord
  <2> HIDE DEF new
  <2> QED
    BY <2>1, <2>2, <1>2 DEF Named
<1>3. CASE p \in DOMAIN info /\ ~(info[p].retry < MaxRetries) /\ info[p].persistent
  <2>1. Rescheduled(info, p) = [info EXCEPT ![p].task = "sleeping"]
    BY <1>3 DEF Rescheduled
  <2> QED
    BY <2>1, <1>3 DEF PeerRecord, Named
<1>4. CASE p \in DOMAIN info /\ ~(info[p].retry < MaxRetries) /\ ~info[p].persistent
  <2>1. Rescheduled(info, p) = [q \in DOMAIN info \ {p} |-> info[q]]
    BY <1>4, WithoutIs DEF Rescheduled
  <2> QED
    BY <2>1, <1>4 DEF Named
<1> QED
  BY <1>1, <1>2, <1>3, <1>4

\* A connection ends: its peer leaves both registries, whichever of its
\* connections they name.
LEMMA ConnectionClosesStep ==
  ASSUME IInv, NEW c \in Connection, ConnectionCloses(c)
  PROVE  IInv'
<1> DEFINE p == conn[c].peer
           info == [peerInfo EXCEPT ![p].ref = NoOne]
<1>1. /\ conn' = [conn EXCEPT ![c] = [peer |-> NoOne, dialed |-> FALSE, state |-> "closed"]]
      /\ peers' = WithoutKeys(peers, {p})
      /\ peerInfo' = IF p \in DOMAIN peerInfo THEN Rescheduled(info, p) ELSE peerInfo
  BY DEF ConnectionCloses, PeerDisconnected
<1>2. /\ conn' \in [Connection -> ConnectionRecord]
      /\ \A d \in Connection : d # c => conn'[d] = conn[d]
      /\ conn'[c].peer = NoOne
  BY <1>1 DEF IInv, RegistryTypes, ConnectionRecord
<1>3. /\ peers' \in [DOMAIN peers' -> Connection]
      /\ \A q \in Peer : ConnectionOf(peers', q) = IF q = p THEN NoOne ELSE ConnectionOf(peers, q)
  <2>1. peers' = [q \in DOMAIN peers \ {p} |-> peers[q]]
    BY <1>1, WithoutIs
  <2> QED
    BY <2>1 DEF IInv, RegistryTypes, ConnectionOf
<1>4. /\ peerInfo' \in [DOMAIN peerInfo' -> PeerRecord]
      /\ \A q \in Peer : Named(peerInfo', q) = IF q = p THEN NoOne ELSE Named(peerInfo, q)
  <2>1. CASE p \in DOMAIN peerInfo
    <3>1. /\ info \in [DOMAIN info -> PeerRecord]
          /\ \A q \in Peer : Named(info, q) = IF q = p THEN NoOne ELSE Named(peerInfo, q)
          /\ Named(info, p) = NoOne
      BY <2>1 DEF IInv, RegistryTypes, PeerRecord, Named
    <3>2. peerInfo' = Rescheduled(info, p)
      BY <1>1, <2>1
    <3> HIDE DEF info, p
    <3> QED
      BY <3>1, <3>2, RescheduledKeeps
  <2>2. CASE p \notin DOMAIN peerInfo
    BY <2>2, <1>1 DEF IInv, RegistryTypes, Named
  <2> QED
    BY <2>1, <2>2
<1>5. UnusedIsNobodys'
  BY <1>2 DEF IInv, UnusedIsNobodys
<1>6. ASSUME NEW q \in Peer, Named(peerInfo', q) # NoOne
      PROVE  /\ conn'[Named(peerInfo', q)].peer = q
             /\ conn'[Named(peerInfo', q)].state \in Ongoing
  <2>1. q # p /\ Named(peerInfo', q) = Named(peerInfo, q)
    BY <1>4, <1>6
  <2>2. Named(peerInfo, q) \in Connection
    BY <2>1, <1>6 DEF IInv, RegistryTypes, PeerRecord, Named
  <2>3. conn[Named(peerInfo, q)].peer = q /\ conn[Named(peerInfo, q)].state \in Ongoing
    BY <2>1, <1>6 DEF IInv, Agree
  <2>4. Named(peerInfo, q) # c
    BY <2>1, <2>3
  <2> QED
    BY <2>1, <2>2, <2>3, <2>4, <1>2
<1>7. \A q \in Peer : Named(peerInfo', q) = ConnectionOf(peers', q)
  BY <1>3, <1>4 DEF IInv, Agree
<1> QED
  BY <1>2, <1>3, <1>4, <1>5, <1>6, <1>7 DEF IInv, RegistryTypes, Agree

LEMMA InitIInv == NetworkInit => IInv
<1> SUFFICES ASSUME NetworkInit PROVE IInv
  OBVIOUS
<1>1. /\ conn = [c \in Connection |-> [peer |-> NoOne, dialed |-> FALSE, state |-> "unused"]]
      /\ peers = <<>>
      /\ peerInfo = [p \in Bootnode |-> [Fresh EXCEPT !.persistent = TRUE, !.retry = 1, !.task = "sleeping"]]
  BY DEF NetworkInit
<1>2. peers \in [DOMAIN peers -> Connection] /\ DOMAIN peers = {}
  BY <1>1
<1>3. RegistryTypes
  BY <1>1, <1>2 DEF RegistryTypes, ConnectionRecord, PeerRecord, Fresh
<1>4. UnusedIsNobodys /\ Agree(peers, peerInfo, conn)
  BY <1>1, <1>2 DEF UnusedIsNobodys, Agree, Named, ConnectionOf, Fresh
<1> QED
  BY <1>3, <1>4 DEF IInv

\* Every step keeps the invariant.
LEMMA StepIInv == IInv /\ [NetworkNext]_networkVars => IInv'
<1> SUFFICES ASSUME IInv, [NetworkNext]_networkVars PROVE IInv'
  OBVIOUS
<1>0. conn \in [Connection -> ConnectionRecord] /\ peerInfo \in [DOMAIN peerInfo -> PeerRecord]
  BY DEF IInv, RegistryTypes
<1>1. ASSUME NEW c \in Connection, NEW p \in Peer, IncomingConnection(c, p)
      PROVE  IInv'
  BY <1>0, <1>1, NewPeerStep DEF IncomingConnection
<1>2. ASSUME NEW c \in Connection, NEW p \in Peer, DialSucceeds(c, p)
      PROVE  IInv'
  <2> DEFINE info == [peerInfo EXCEPT ![p].task = "none"]
  <2>1. info \in [DOMAIN info -> PeerRecord] /\ \A q \in Peer : Named(info, q) = Named(peerInfo, q)
    BY <1>0 DEF PeerRecord, Named
  <2>2. NewPeer(c, p, TRUE) /\ peerInfo' = Connected(info, p, c)
    BY <1>2 DEF DialSucceeds
  <2> HIDE DEF info
  <2> QED
    BY <2>1, <2>2, NewPeerStep
<1>3. ASSUME NEW c \in Connection, ConnectionBreaks(c)
      PROVE  IInv'
  <2>1. conn' = [conn EXCEPT ![c].state = "lost"] /\ conn[c].state = "open" /\ UNCHANGED <<peers, peerInfo>>
    BY <1>3 DEF ConnectionBreaks
  <2>2. /\ conn' \in [Connection -> ConnectionRecord]
        /\ \A d \in Connection : conn'[d].peer = conn[d].peer /\ (conn'[d].state \in Ongoing <=> conn[d].state \in Ongoing)
    BY <2>1, <1>0 DEF ConnectionRecord, Ongoing
  <2> QED
    BY <2>1, <2>2, <1>0, KeepsRegistries
<1>4. ASSUME NEW c \in Connection, ConnectionCloses(c)
      PROVE  IInv'
  BY <1>4, ConnectionClosesStep
<1>5. ASSUME NEW p \in Peer, RetryTimer(p)
      PROVE  IInv'
  <2> DEFINE next == IF peerInfo[p].ref # NoOne \/ p \in DOMAIN peers THEN "none" ELSE "dialing"
  <2>1. peerInfo' = [peerInfo EXCEPT ![p].task = next] /\ UNCHANGED <<conn, peers>> /\ p \in DOMAIN peerInfo
    BY <1>5 DEF RetryTimer
  <2>2. next \in {"none", "dialing"}
    OBVIOUS
  <2> HIDE DEF next
  <2>3. peerInfo' \in [DOMAIN peerInfo' -> PeerRecord] /\ \A q \in Peer : Named(peerInfo', q) = Named(peerInfo, q)
    BY <2>1, <2>2, <1>0 DEF PeerRecord, Named
  <2> QED
    BY <2>1, <2>3, <1>0, KeepsRegistries
<1>6. ASSUME NEW p \in Peer, DialFails(p)
      PROVE  IInv'
  <2>1. p \in DOMAIN peerInfo /\ UNCHANGED <<conn, peers>>
    BY <1>6 DEF DialFails
  <2>2. peerInfo' \in [DOMAIN peerInfo' -> PeerRecord] /\ \A q \in Peer : Named(peerInfo', q) = Named(peerInfo, q)
    <3>1. CASE p \in DOMAIN peers
      <4>1. peerInfo' = [peerInfo EXCEPT ![p].task = "none"]
        BY <1>6, <3>1 DEF DialFails
      <4>2. /\ DOMAIN peerInfo' = DOMAIN peerInfo
            /\ peerInfo'[p] = [peerInfo[p] EXCEPT !.task = "none"]
            /\ \A q \in DOMAIN peerInfo : q # p => peerInfo'[q] = peerInfo[q]
        BY <2>1, <4>1, <1>0
      <4>3. peerInfo[p] \in PeerRecord
        BY <2>1, <1>0
      <4>4. peerInfo'[p] \in PeerRecord /\ peerInfo'[p].ref = peerInfo[p].ref
        BY <4>2, <4>3 DEF PeerRecord
      <4>5. peerInfo' \in [DOMAIN peerInfo' -> PeerRecord]
        BY <4>1, <4>2, <4>4, <1>0
      <4> QED
        BY <4>2, <4>4, <4>5 DEF Named
    <3>2. CASE p \notin DOMAIN peers
      <4>1. Named(peerInfo, p) = NoOne
        BY <3>2 DEF IInv, Agree, ConnectionOf
      <4>2. peerInfo' = Rescheduled(peerInfo, p)
        BY <1>6, <3>2 DEF DialFails
      <4> QED
        BY <4>1, <4>2, <1>0, RescheduledKeeps
    <3> QED
      BY <3>1, <3>2
  <2> QED
    BY <2>1, <2>2, <1>0, KeepsRegistries
<1>7. ASSUME NEW s \in io.live, StreamThrows(s)
      PROVE  IInv'
  <2>1. conn' = Disconnected(s.conn) /\ UNCHANGED <<peers, peerInfo>>
    BY <1>7 DEF StreamThrows
  <2> QED
    BY <2>1, DisconnectedStep
<1>8. ASSUME NEW s \in io.live, NEW b \in ChainBlock, Up0Handshake(s, b)
      PROVE  IInv'
  <2>1. CASE Id(s) \in io.handshakes
    <3>1. conn' = Disconnected(s.conn) /\ UNCHANGED <<peers, peerInfo>>
      BY <1>8, <2>1 DEF Up0Handshake
    <3> QED
      BY <3>1, DisconnectedStep
  <2>2. CASE Id(s) \notin io.handshakes
    <3>1. Noted(s, b, NoOne) /\ UNCHANGED <<conn, peers>>
      BY <1>8, <2>2 DEF Up0Handshake
    <3> QED
      BY <3>1, <1>0, NotedKeeps, KeepsRegistries
  <2> QED
    BY <2>1, <2>2
<1>9. ASSUME NEW s \in io.live, NEW b \in ChainBlock, Up0Announcement(s, b)
      PROVE  IInv'
  <2>1. Noted(s, b, b) /\ UNCHANGED <<conn, peers>>
    BY <1>9 DEF Up0Announcement
  <2> QED
    BY <2>1, <1>0, NotedKeeps, KeepsRegistries
<1>10. ASSUME UNCHANGED <<conn, peers, peerInfo>>
       PROVE  IInv'
  BY <1>10, <1>0, KeepsRegistries
<1>11. ASSUME NEW c \in Connection, NEW kind, IncomingStream(c, kind)
       PROVE  IInv'
  BY <1>10, <1>11 DEF IncomingStream
<1>12. ASSUME NEW s \in io.live, StreamEnds(s) \/ Answered(s) \/ Served(s)
       PROVE  IInv'
  BY <1>10, <1>12 DEF StreamEnds, Answered, Served
<1>13. CASE BroadcastHeader \/ MaintainSync
  BY <1>10, <1>13 DEF BroadcastHeader, MaintainSync
<1>14. ASSUME NEW batch \in arriving, ImportNext(batch)
       PROVE  IInv'
  BY <1>10, <1>14 DEF ImportNext
<1>15. ASSUME NEW b \in ChainBlock, Authored(b)
       PROVE  IInv'
  BY <1>10, <1>15 DEF Authored
<1>16. CASE UNCHANGED networkVars
  BY <1>10, <1>16 DEF networkVars
<1> QED
  BY <1>1, <1>2, <1>3, <1>4, <1>5, <1>6, <1>7, <1>8, <1>9, <1>11, <1>12, <1>13, <1>14, <1>15, <1>16 DEF NetworkNext

-----------------------------------------------------------------------------

\* A peer counts as connected in both registries or in none, and the
\* connection they name is its own and has not ended.
THEOREM RegistriesStayInStep == NetworkSpec => []RegistriesAgree
<1>1. IInv => RegistriesAgree
  BY DEF IInv, Agree, RegistriesAgree, Named, ConnectionOf, Ongoing
<1> QED
  BY <1>1, InitIInv, StepIInv, PTL DEF NetworkSpec

------------------------------------------------------------------------------
(* The rpc server and its clients.                                         *)

RpcSpec == RpcInit /\ [][RpcNext]_rpcVars

Known == 0..(nextSubscription - 1)
On(id) == [id |-> id, on |-> TRUE]
Off(id) == [id |-> id, on |-> FALSE]
Unsubscription(id) == [method |-> "unsubscribe", params |-> id]

\* In a list of messages, those that bring the id of a subscription; whether
\* one says that it was ended.
Bringing(messages, queue, id) ==
  {i \in AnswersIn(messages) :
     /\ queue[messages[i].call].method \in SubscribableMethods
     /\ messages[i].answer = Result(id)}
Ending(messages, queue, id) ==
  \E i \in AnswersIn(messages) :
    Succeeds(messages[i].answer) /\ queue[messages[i].call] = Unsubscription(id)

\* AllIsHeard of what is told, heard and missed of a subscription.
Hears(t, h, m, messages, id) ==
  /\ m + Len(h) <= Len(t)
  /\ \A i \in DOMAIN h : h[i] = t[m + i]
  /\ {messages[i].nth : i \in NotesOf(messages, id)} = (m + Len(h) + 1)..Len(t)
  /\ \A i \in NotesOf(messages, id) :
       /\ messages[i].answer = t[messages[i].nth]
       /\ \A j \in NotesOf(messages, id) : i < j => messages[i].nth < messages[j].nth

\* Each of the calls in D is asked, worked at or answered, and only once.
CallsIn(asked) == {asked[i].call : i \in DOMAIN asked}
AnsweredCalls(messages) == {messages[i].call : i \in AnswersIn(messages)}
OnlyOnce(messages) == \A i, j \in AnswersIn(messages) : i # j => messages[i].call # messages[j].call
Placed(D, asked, worked, messages) ==
  /\ D = CallsIn(asked) \cup worked \cup AnsweredCalls(messages)
  /\ CallsIn(asked) \cap worked = {} /\ AnsweredCalls(messages) \cap (CallsIn(asked) \cup worked) = {}
  /\ \A i, j \in DOMAIN asked : i # j => asked[i].call # asked[j].call
  /\ OnlyOnce(messages)
WorkedFor(c) == {u.call : u \in {x \in underWay : x.ws = c}}

Early(c, id) == Bringing(toClient[c], messageQueue[c], id) # {} \/ On(id) \in resolved[c]
Owns(c, id) == Early(c, id) \/ id \in emitters[c]

IsList(s) == \E T : s \in Seq(T)
IsMessage(message, known) ==
  \/ \E n \in Nat : \E answer : message = ResponseTo(n, answer)
  \/ \E id \in known : \E nth \in Nat : \E answer : message = Notification(id, answer, nth)

ConnectionsOk ==
  /\ DOMAIN connections = Clients /\ DOMAIN toServer = Clients /\ DOMAIN toClient = Clients
  /\ DOMAIN messageQueue = Clients /\ DOMAIN resolved = Clients /\ DOMAIN emitters = Clients /\ DOMAIN sent = Clients
  /\ underWay \subseteq [ws : Clients, call : Nat]

PollingOk ==
  /\ IsList(polling)
  /\ \A i \in DOMAIN polling :
       polling[i].id \in DOMAIN subscriptions /\ polling[i] = [id |-> polling[i].id, header |-> polling[i].header]

\* The server's subscriptions, and what is known of each there ever was.
ServerOk ==
  /\ nextSubscription \in Nat
  /\ DOMAIN told = Known /\ DOMAIN heard = Known /\ DOMAIN missed = Known
  /\ \A id \in Known : IsList(told[id]) /\ IsList(heard[id]) /\ missed[id] \in Nat
  /\ DOMAIN subscriptions \subseteq Known
  /\ \A id \in DOMAIN subscriptions : subscriptions[id].ws \in Clients
  /\ PollingOk

ToldOk == SubscriptionsAreKept /\ OnlyChangesAreTold

\* What c asked, and what is under way between c and the server.
ListsOk(c) ==
  /\ IsList(toServer[c]) /\ IsList(toClient[c]) /\ sent[c] \in Nat
  /\ \A i \in DOMAIN toServer[c] : toServer[c][i].call \in Nat
  /\ \A i \in DOMAIN toClient[c] : IsMessage(toClient[c][i], Known)
  /\ connections[c] # "open" => toClient[c] = <<>>
CallsOk(c) ==
  /\ ListsOk(c)
  /\ DOMAIN messageQueue[c] \subseteq 1..sent[c]
  /\ \A n \in DOMAIN messageQueue[c] :
       messageQueue[c][n].method = "unsubscribe" => \E id \in Known : messageQueue[c][n] = Unsubscription(id)
  /\ resolved[c] \subseteq [id : Known, on : BOOLEAN]
  /\ connections[c] = "open" =>
       /\ Placed(DOMAIN messageQueue[c], toServer[c], WorkedFor(c), toClient[c])
       /\ \A i \in DOMAIN toServer[c] :
            /\ toServer[c][i].method = messageQueue[c][toServer[c][i].call].method
            /\ toServer[c][i].params = messageQueue[c][toServer[c][i].call].params
       /\ \A n \in WorkedFor(c) : messageQueue[c][n].method = "refineWorkPackage"
       /\ \A i \in AnswersIn(toClient[c]) :
            messageQueue[c][toClient[c][i].call].method \in SubscribableMethods =>
              \E id \in Known : toClient[c][i].answer = Result(id)

\* An id that c owns or hears of is c's alone.
IsAlone(c, id) ==
  Owns(c, id) \/ NotesOf(toClient[c], id) # {} =>
    /\ id \in Known
    /\ id \in DOMAIN subscriptions => subscriptions[id].ws = c
    /\ \A d \in Clients \ {c} : ~Owns(d, id)
\* Before the emitter is there, nothing was heard or ended.
IsEarly(c, id) ==
  Early(c, id) =>
    /\ id \notin emitters[c] /\ heard[id] = <<>> /\ Off(id) \notin resolved[c]
    /\ \A n \in DOMAIN messageQueue[c] : messageQueue[c][n] # Unsubscription(id)
    /\ \A i, j \in Bringing(toClient[c], messageQueue[c], id) : i = j
    /\ Bringing(toClient[c], messageQueue[c], id) = {} \/ On(id) \notin resolved[c]
    /\ connections[c] = "open" => id \in DOMAIN subscriptions
IsServed(c, id) ==
  connections[c] = "open" =>
    /\ Owns(c, id) => Hears(told[id], heard[id], missed[id], toClient[c], id)
    /\ id \in emitters[c] =>
         \/ id \in DOMAIN subscriptions
         \/ Ending(toClient[c], messageQueue[c], id)
         \/ Off(id) \in resolved[c]

IdsOk(c) == \A id : IsAlone(c, id) /\ IsEarly(c, id) /\ IsServed(c, id)
RpcInv == ConnectionsOk /\ ServerOk /\ ToldOk /\ \A c \in Clients : CallsOk(c) /\ IdsOk(c)

------------------------------------------------------------------------------
(* Lists.                                                                  *)

LEMMA EmptyList == IsList(<<>>) /\ Len(<<>>) = 0 /\ DOMAIN <<>> = {}
BY DEF IsList

LEMMA ListShape == ASSUME NEW s, IsList(s) PROVE Len(s) \in Nat /\ DOMAIN s = 1..Len(s)
BY DEF IsList

LEMMA GrownList ==
  ASSUME NEW s, IsList(s), NEW x
  PROVE  /\ IsList(Append(s, x)) /\ Len(s) \in Nat /\ Len(Append(s, x)) = Len(s) + 1
         /\ DOMAIN s = 1..Len(s) /\ DOMAIN Append(s, x) = 1..(Len(s) + 1)
         /\ Append(s, x)[Len(s) + 1] = x /\ \A i \in 1..Len(s) : Append(s, x)[i] = s[i]
<1>1. PICK T : s \in Seq(T)
  BY DEF IsList
<1>2. s \in Seq(T \cup {x}) /\ x \in T \cup {x}
  <2>1. s \in [1..Len(s) -> T] /\ Len(s) \in Nat
    BY <1>1
  <2>2. s \in [1..Len(s) -> T \cup {x}]
    BY <2>1
  <2> QED
    BY <2>1, <2>2, IsASeq
<1>3. Append(s, x) \in Seq(T \cup {x})
  BY <1>2
<1> QED
  BY <1>2, <1>3 DEF IsList

LEMMA ShrunkList ==
  ASSUME NEW s, IsList(s), s # <<>>
  PROVE  /\ IsList(Tail(s)) /\ Len(s) \in Nat /\ Len(s) > 0 /\ Len(Tail(s)) = Len(s) - 1
         /\ DOMAIN s = 1..Len(s) /\ DOMAIN Tail(s) = 1..(Len(s) - 1)
         /\ 1 \in DOMAIN s /\ Head(s) = s[1] /\ \A i \in 1..(Len(s) - 1) : Tail(s)[i] = s[i + 1]
<1>1. PICK T : s \in Seq(T)
  BY DEF IsList
<1>2. Tail(s) \in Seq(T)
  BY <1>1
<1> QED
  BY <1>1, <1>2 DEF IsList

\* The kinds of messages.
LEMMA ResponseShape ==
  ASSUME NEW n, NEW a
  PROVE  ~IsNote(ResponseTo(n, a)) /\ ResponseTo(n, a).call = n /\ ResponseTo(n, a).answer = a
BY DEF IsNote, ResponseTo

LEMMA NotificationShape ==
  ASSUME NEW id, NEW a, NEW k
  PROVE  /\ IsNote(Notification(id, a, k)) /\ Notification(id, a, k).id = id
         /\ Notification(id, a, k).answer = a /\ Notification(id, a, k).nth = k
BY DEF IsNote, Notification

LEMMA AnswerShape ==
  ASSUME NEW v, NEW e
  PROVE  /\ Succeeds(Result(v)) /\ ~Succeeds(Failure(e)) /\ Result(v).result = v
         /\ "error" \notin DOMAIN Result(v) /\ "error" \in DOMAIN Failure(e)
         /\ Failure(e) # Result(v) /\ \A w : Result(w) = Result(v) => w = v
<1>1. /\ DOMAIN Result(v) = {"result"} /\ DOMAIN Failure(e) = {"error"} /\ Result(v).result = v
      /\ \A w : Result(w).result = w
  BY DEF Result, Failure
<1> QED
  BY <1>1 DEF Succeeds

LEMMA EnteredShape ==
  ASSUME NEW f, NEW k, NEW v
  PROVE  /\ DOMAIN Entered(f, k, v) = DOMAIN f \cup {k} /\ Entered(f, k, v)[k] = v
         /\ \A x \in DOMAIN f : x # k => Entered(f, k, v)[x] = f[x]
BY DEF Entered

(* What a message adds to a list, and what a list loses with its first.    *)

LEMMA NoMessages ==
  ASSUME NEW queue, NEW id
  PROVE  /\ AnswersIn(<<>>) = {} /\ NotesOf(<<>>, id) = {} /\ AnsweredCalls(<<>>) = {}
         /\ Bringing(<<>>, queue, id) = {} /\ ~Ending(<<>>, queue, id)
BY EmptyList DEF AnswersIn, NotesOf, AnsweredCalls, Bringing, Ending

LEMMA NoteComes ==
  ASSUME NEW s, IsList(s), NEW x, IsNote(x), NEW queue, NEW id
  PROVE  /\ AnswersIn(Append(s, x)) = AnswersIn(s) /\ AnsweredCalls(Append(s, x)) = AnsweredCalls(s)
         /\ NotesOf(Append(s, x), id) = NotesOf(s, id) \cup {i \in {Len(s) + 1} : x.id = id}
         /\ Bringing(Append(s, x), queue, id) = Bringing(s, queue, id)
         /\ Ending(s, queue, id) => Ending(Append(s, x), queue, id)
<1> DEFINE t == Append(s, x)
<1>1. /\ DOMAIN t = DOMAIN s \cup {Len(s) + 1} /\ Len(s) + 1 \notin DOMAIN s /\ t[Len(s) + 1] = x
      /\ \A i \in DOMAIN s : t[i] = s[i]
  BY GrownList
<1> HIDE DEF t
<1>2. AnswersIn(t) = AnswersIn(s) /\ \A i \in AnswersIn(s) : i \in DOMAIN s
  BY <1>1 DEF AnswersIn
<1>3. AnsweredCalls(t) = AnsweredCalls(s)
  BY <1>1, <1>2 DEF AnsweredCalls
<1>4. Bringing(t, queue, id) = Bringing(s, queue, id)
  BY <1>1, <1>2 DEF Bringing
<1>5. Ending(s, queue, id) => Ending(t, queue, id)
  BY <1>1, <1>2 DEF Ending
<1>6. NotesOf(t, id) = NotesOf(s, id) \cup {i \in {Len(s) + 1} : x.id = id}
  BY <1>1 DEF NotesOf
<1> QED
  BY <1>2, <1>3, <1>4, <1>5, <1>6 DEF t

LEMMA AnswerComes ==
  ASSUME NEW s, IsList(s), NEW x, ~IsNote(x), NEW queue, NEW id
  PROVE  /\ AnswersIn(Append(s, x)) = AnswersIn(s) \cup {Len(s) + 1}
         /\ AnsweredCalls(Append(s, x)) = AnsweredCalls(s) \cup {x.call}
         /\ NotesOf(Append(s, x), id) = NotesOf(s, id)
         /\ Bringing(Append(s, x), queue, id) = Bringing(s, queue, id)
              \cup {i \in {Len(s) + 1} : queue[x.call].method \in SubscribableMethods /\ x.answer = Result(id)}
         /\ Ending(Append(s, x), queue, id) <=>
              Ending(s, queue, id) \/ (Succeeds(x.answer) /\ queue[x.call] = Unsubscription(id))
<1> DEFINE t == Append(s, x)
<1>1. /\ DOMAIN t = DOMAIN s \cup {Len(s) + 1} /\ Len(s) + 1 \notin DOMAIN s /\ t[Len(s) + 1] = x
      /\ \A i \in DOMAIN s : t[i] = s[i]
  BY GrownList
<1> HIDE DEF t
<1>2. AnswersIn(t) = AnswersIn(s) \cup {Len(s) + 1} /\ \A i \in AnswersIn(s) : i \in DOMAIN s
  BY <1>1 DEF AnswersIn
<1>3. AnsweredCalls(t) = AnsweredCalls(s) \cup {x.call}
  BY <1>1, <1>2 DEF AnsweredCalls
<1>4. Bringing(t, queue, id) = Bringing(s, queue, id)
              \cup {i \in {Len(s) + 1} : queue[x.call].method \in SubscribableMethods /\ x.answer = Result(id)}
  BY <1>1, <1>2 DEF Bringing
<1>5. Ending(t, queue, id) <=> Ending(s, queue, id) \/ (Succeeds(x.answer) /\ queue[x.call] = Unsubscription(id))
  BY <1>1, <1>2 DEF Ending
<1>6. NotesOf(t, id) = NotesOf(s, id)
  BY <1>1 DEF NotesOf
<1> QED
  BY <1>2, <1>3, <1>4, <1>5, <1>6 DEF t

LEMMA MessageGoes ==
  ASSUME NEW s, IsList(s), s # <<>>, NEW queue, NEW id
  PROVE  /\ \A i : i \in AnswersIn(Tail(s)) <=> i \in DOMAIN Tail(s) /\ i + 1 \in AnswersIn(s)
         /\ \A i : i \in NotesOf(Tail(s), id) <=> i \in DOMAIN Tail(s) /\ i + 1 \in NotesOf(s, id)
         /\ \A i : i \in Bringing(Tail(s), queue, id) <=> i \in DOMAIN Tail(s) /\ i + 1 \in Bringing(s, queue, id)
         /\ \A i \in DOMAIN s : i = 1 \/ (i - 1 \in DOMAIN Tail(s) /\ (i - 1) + 1 = i)
         /\ \A i \in DOMAIN Tail(s) : i \in Nat /\ i + 1 \in DOMAIN s /\ i + 1 > 1 /\ Tail(s)[i] = s[i + 1]
         /\ 1 \in DOMAIN s /\ s[1] = Head(s) /\ DOMAIN s \subseteq Nat
<1> DEFINE t == Tail(s)
<1>1. /\ \A i \in DOMAIN t : i \in Nat /\ i + 1 \in DOMAIN s /\ i + 1 > 1 /\ t[i] = s[i + 1]
      /\ \A i \in DOMAIN s : i = 1 \/ (i - 1 \in DOMAIN t /\ (i - 1) + 1 = i)
      /\ 1 \in DOMAIN s /\ s[1] = Head(s) /\ DOMAIN s \subseteq Nat
  BY ShrunkList
<1> HIDE DEF t
<1>2. \A i : i \in AnswersIn(t) <=> i \in DOMAIN t /\ i + 1 \in AnswersIn(s)
  BY <1>1 DEF AnswersIn
<1>3. \A i : i \in NotesOf(t, id) <=> i \in DOMAIN t /\ i + 1 \in NotesOf(s, id)
  BY <1>1 DEF NotesOf
<1>4. \A i : i \in Bringing(t, queue, id) <=> i \in DOMAIN t /\ i + 1 \in Bringing(s, queue, id)
  BY <1>1, <1>2 DEF Bringing
<1> QED
  BY <1>1, <1>2, <1>3, <1>4 DEF t

LEMMA NotesGo ==
  ASSUME NEW s, IsList(s), s # <<>>, NEW id
  PROVE  NotesOf(Tail(s), id) = {i \in DOMAIN Tail(s) : i + 1 \in NotesOf(s, id)}
BY ShrunkList DEF NotesOf

\* A queue matters where an answer is awaited.
LEMMA QueueMatters ==
  ASSUME NEW s, NEW q, NEW r, NEW id, \A i \in AnswersIn(s) : r[s[i].call] = q[s[i].call]
  PROVE  Bringing(s, r, id) = Bringing(s, q, id) /\ (Ending(s, r, id) <=> Ending(s, q, id))
BY Zenon DEF Bringing, Ending

------------------------------------------------------------------------------
(* What is told, and heard, of a subscription.                             *)

LEMMA HearsNothing == ASSUME NEW s, NEW id, NotesOf(s, id) = {} PROVE Hears(<<>>, <<>>, 0, s, id)
BY DEF Hears

\* Another message comes.
LEMMA HearsStill ==
  ASSUME NEW t, NEW h, NEW m, NEW s, IsList(s), NEW x, NEW id, Hears(t, h, m, s, id), ~(IsNote(x) /\ x.id = id)
  PROVE  Hears(t, h, m, Append(s, x), id) /\ NotesOf(Append(s, x), id) = NotesOf(s, id)
<1>1. NotesOf(Append(s, x), id) = NotesOf(s, id)
  <2>1. CASE IsNote(x)
    <3>1. NotesOf(Append(s, x), id) = NotesOf(s, id) \cup {i \in {Len(s) + 1} : x.id = id}
      BY <2>1, NoteComes, Zenon
    <3> QED
      BY <2>1, <3>1
  <2>2. CASE ~IsNote(x)
    BY <2>2, AnswerComes, Zenon
  <2> QED
    BY <2>1, <2>2
<1>2. \A i \in NotesOf(s, id) : Append(s, x)[i] = s[i]
  BY GrownList DEF NotesOf
<1>3. {Append(s, x)[i].nth : i \in NotesOf(s, id)} = {s[i].nth : i \in NotesOf(s, id)}
  BY <1>2
<1> QED
  BY <1>1, <1>2, <1>3 DEF Hears

\* It is told.
LEMMA HearsMore ==
  ASSUME NEW t, IsList(t), NEW h, IsList(h), NEW m \in Nat, NEW s, IsList(s), NEW id, NEW a, Hears(t, h, m, s, id)
  PROVE  Hears(Append(t, a), h, m, Append(s, Notification(id, a, Len(t) + 1)), id)
<1> DEFINE x == Notification(id, a, Len(t) + 1)
           s2 == Append(s, x)
           t2 == Append(t, a)
           N == NotesOf(s, id)
<1>1. IsNote(x) /\ x.id = id /\ x.answer = a /\ x.nth = Len(t) + 1
  BY NotificationShape
<1>2. /\ Len(s) \in Nat /\ DOMAIN s = 1..Len(s) /\ s2[Len(s) + 1] = x /\ \A i \in 1..Len(s) : s2[i] = s[i]
  BY GrownList
<1>3. /\ Len(t) \in Nat /\ Len(t2) = Len(t) + 1 /\ t2[Len(t) + 1] = a /\ \A i \in 1..Len(t) : t2[i] = t[i]
  BY GrownList
<1>4. Len(h) \in Nat /\ DOMAIN h = 1..Len(h)
  BY ListShape
<1>5. NotesOf(s2, id) = N \cup {Len(s) + 1}
  <2>1. NotesOf(s2, id) = N \cup {i \in {Len(s) + 1} : x.id = id}
    BY <1>1, NoteComes
  <2> QED
    BY <1>1, <2>1
<1>6. N \subseteq 1..Len(s)
  BY <1>2 DEF NotesOf
<1> HIDE DEF x, s2, t2, N
<1>7. \A i \in N : s2[i] = s[i]
  BY <1>2, <1>6
<1>8. {s[i].nth : i \in N} = (m + Len(h) + 1)..Len(t)
  BY DEF Hears, N
<1>9. \A i \in N : s[i].nth \in (m + Len(h) + 1)..Len(t) /\ s[i].nth \in 1..Len(t)
  <2>1. \A i \in N : s[i].nth \in (m + Len(h) + 1)..Len(t)
    BY <1>8
  <2>2. m + Len(h) + 1 \in Nat /\ m + Len(h) + 1 > 0
    BY <1>4
  <2>3. \A k \in (m + Len(h) + 1)..Len(t) : k \in 1..Len(t)
    BY <1>3, <2>2
  <2> QED
    BY <2>1, <2>3
<1>10. {s2[i].nth : i \in N \cup {Len(s) + 1}} = (m + Len(h) + 1)..(Len(t) + 1)
  <2>1. {s2[i].nth : i \in N \cup {Len(s) + 1}} = {s2[i].nth : i \in N} \cup {Len(t) + 1}
    <3>1. s2[Len(s) + 1].nth = Len(t) + 1
      BY <1>1, <1>2
    <3> QED
      BY <3>1
  <2>2. {s2[i].nth : i \in N} = {s[i].nth : i \in N}
    BY <1>7
  <2>3. m + Len(h) <= Len(t)
    BY DEF Hears
  <2>4. (m + Len(h) + 1)..(Len(t) + 1) = ((m + Len(h) + 1)..Len(t)) \cup {Len(t) + 1}
    BY <1>3, <1>4, <2>3
  <2> QED
    BY <1>8, <2>1, <2>2, <2>4
<1>11. m + Len(h) <= Len(t2) /\ \A i \in DOMAIN h : h[i] = t2[m + i]
  <2>1. m + Len(h) <= Len(t) /\ \A i \in DOMAIN h : h[i] = t[m + i]
    BY DEF Hears
  <2> QED
    BY <1>3, <1>4, <2>1
<1>12. ASSUME NEW i \in N \cup {Len(s) + 1}
       PROVE  /\ s2[i].answer = t2[s2[i].nth]
              /\ \A j \in N \cup {Len(s) + 1} : i < j => s2[i].nth < s2[j].nth
  <2>1. CASE i \in N
    <3>1. s2[i] = s[i] /\ s[i].nth \in 1..Len(t) /\ s[i].answer = t[s[i].nth]
      BY <1>7, <1>9, <2>1 DEF Hears, N
    <3>2. ASSUME NEW j \in N \cup {Len(s) + 1}, i < j PROVE s2[i].nth < s2[j].nth
      <4>1. CASE j \in N
        <5>1. s[i].nth < s[j].nth
          BY <2>1, <3>2, <4>1 DEF Hears, N
        <5> QED
          BY <1>7, <3>1, <4>1, <5>1
      <4>2. CASE j = Len(s) + 1
        BY <1>1, <1>2, <1>3, <3>1, <4>2
      <4> QED
        BY <4>1, <4>2
    <3> QED
      BY <1>3, <3>1, <3>2
  <2>2. CASE i = Len(s) + 1
    BY <1>1, <1>2, <1>3, <1>6, <2>2
  <2> QED
    BY <2>1, <2>2
<1> QED
  BY <1>3, <1>5, <1>10, <1>11, <1>12 DEF Hears, x, s2, t2

\* Another message is taken.
LEMMA HearsRest ==
  ASSUME NEW t, NEW h, NEW m, NEW s, IsList(s), s # <<>>, NEW id, Hears(t, h, m, s, id),
         ~(IsNote(Head(s)) /\ Head(s).id = id)
  PROVE  Hears(t, h, m, Tail(s), id)
<1> DEFINE r == Tail(s)
           N == NotesOf(s, id)
           M == NotesOf(r, id)
<1>1. M = {i \in DOMAIN r : i + 1 \in N}
  BY NotesGo, Zenon
<1>2. /\ \A i \in DOMAIN s : i = 1 \/ (i - 1 \in DOMAIN r /\ (i - 1) + 1 = i)
      /\ \A i \in DOMAIN r : i \in Nat /\ i + 1 \in DOMAIN s /\ i + 1 > 1 /\ r[i] = s[i + 1]
      /\ 1 \in DOMAIN s /\ s[1] = Head(s) /\ DOMAIN s \subseteq Nat
  BY MessageGoes
<1>3. \A i \in N : i - 1 \in M /\ (i - 1) + 1 = i
  BY <1>1, <1>2 DEF NotesOf
<1> HIDE DEF r, M, N
<1>4. \A i \in M : i \in Nat /\ i + 1 \in N /\ r[i] = s[i + 1]
  BY <1>1, <1>2
<1>5. {r[i].nth : i \in M} = {s[i].nth : i \in N}
  <2>1. \A i \in M : r[i].nth \in {s[j].nth : j \in N}
    BY <1>4
  <2>2. \A j \in N : s[j].nth \in {r[i].nth : i \in M}
    BY <1>3, <1>4
  <2> QED
    BY <2>1, <2>2
<1>6. \A i, j \in M : i < j => i + 1 < j + 1
  BY <1>4
<1>7. ASSUME NEW i \in M PROVE r[i].answer = t[r[i].nth] /\ \A j \in M : i < j => r[i].nth < r[j].nth
  BY <1>4, <1>6 DEF Hears, N
<1> QED
  BY <1>5, <1>7 DEF Hears, r, M, N

\* The next of it is taken, and heard if there is an emitter.
LEMMA HearsNext ==
  ASSUME NEW t, IsList(t), NEW h, IsList(h), NEW m \in Nat, NEW s, IsList(s), s # <<>>, NEW id, Hears(t, h, m, s, id),
         IsNote(Head(s)), Head(s).id = id
  PROVE  /\ Hears(t, Append(h, Head(s).answer), m, Tail(s), id)
         /\ h = <<>> => Hears(t, h, m + 1, Tail(s), id)
<1> DEFINE r == Tail(s)
           N == NotesOf(s, id)
           M == NotesOf(r, id)
           n == m + Len(h) + 1
<1>1. M = {i \in DOMAIN r : i + 1 \in N}
  BY NotesGo, Zenon
<1>2. /\ \A i \in DOMAIN s : i = 1 \/ (i - 1 \in DOMAIN r /\ (i - 1) + 1 = i)
      /\ \A i \in DOMAIN r : i \in Nat /\ i + 1 \in DOMAIN s /\ i + 1 > 1 /\ r[i] = s[i + 1]
      /\ 1 \in DOMAIN s /\ s[1] = Head(s) /\ DOMAIN s \subseteq Nat
  BY MessageGoes
<1>3. \A i \in N : i = 1 \/ (i - 1 \in M /\ (i - 1) + 1 = i /\ i > 1)
  BY <1>1, <1>2 DEF NotesOf
<1>4. 1 \in N
  BY <1>2 DEF NotesOf
<1>5. Len(t) \in Nat /\ Len(h) \in Nat /\ DOMAIN h = 1..Len(h)
  BY ListShape
<1> HIDE DEF r, M, N
<1>6. \A i \in M : i \in Nat /\ i + 1 \in N /\ r[i] = s[i + 1] /\ 1 < i + 1
  BY <1>1, <1>2
<1>7. {s[i].nth : i \in N} = n..Len(t)
  BY DEF Hears, N
<1>8. \A i \in N : s[i].nth \in n..Len(t)
  BY <1>7
<1>9. \A i, j \in N : i < j => s[i].nth < s[j].nth
  BY DEF Hears, N
<1>10. s[1].nth = n /\ n <= Len(t)
  <2>1. s[1].nth \in n..Len(t)
    BY <1>4, <1>8
  <2>2. n \in n..Len(t)
    BY <1>5, <2>1
  <2>3. PICK i \in N : s[i].nth = n
    BY <1>7, <2>2
  <2>4. CASE i = 1
    BY <1>5, <2>1, <2>3, <2>4
  <2>5. CASE i > 1
    BY <1>4, <1>5, <1>9, <2>1, <2>3, <2>5
  <2> QED
    BY <1>3, <2>4, <2>5
<1>11. {r[i].nth : i \in M} = (n + 1)..Len(t)
  <2>1. ASSUME NEW i \in M PROVE r[i].nth \in (n + 1)..Len(t)
    <3>1. s[1].nth < s[i + 1].nth /\ s[i + 1].nth \in n..Len(t)
      BY <1>4, <1>6, <1>8, <1>9
    <3> QED
      BY <1>5, <1>6, <1>10, <3>1
  <2>2. ASSUME NEW k \in (n + 1)..Len(t) PROVE k \in {r[i].nth : i \in M}
    <3>1. k \in n..Len(t) /\ k # n
      BY <1>5
    <3>2. PICK j \in N : s[j].nth = k
      BY <1>7, <3>1
    <3>3. j - 1 \in M /\ (j - 1) + 1 = j
      BY <1>3, <1>10, <3>1, <3>2
    <3>4. r[j - 1] = s[j]
      BY <1>6, <3>3
    <3> QED
      BY <3>2, <3>3, <3>4
  <2> QED
    BY <2>1, <2>2
<1>12. \A i, j \in M : i < j => i + 1 < j + 1
  BY <1>6
<1>13. ASSUME NEW i \in M PROVE r[i].answer = t[r[i].nth] /\ \A j \in M : i < j => r[i].nth < r[j].nth
  BY <1>6, <1>12 DEF Hears, N
<1>14. s[1].answer = t[n]
  BY <1>4, <1>10 DEF Hears, N
<1>15. \A i \in DOMAIN h : h[i] = t[m + i]
  BY DEF Hears
<1>16. Hears(t, Append(h, Head(s).answer), m, r, id)
  <2> DEFINE g == Append(h, Head(s).answer)
  <2>1. /\ Len(g) = Len(h) + 1 /\ DOMAIN g = 1..(Len(h) + 1)
        /\ g[Len(h) + 1] = Head(s).answer /\ \A i \in 1..Len(h) : g[i] = h[i]
    BY GrownList
  <2> HIDE DEF g
  <2>2. m + Len(g) <= Len(t) /\ m + Len(g) + 1 = n + 1
    BY <1>5, <1>10, <2>1
  <2>3. ASSUME NEW i \in DOMAIN g PROVE g[i] = t[m + i]
    <3>1. CASE i \in 1..Len(h)
      BY <1>5, <1>15, <2>1, <3>1
    <3>2. CASE i = Len(h) + 1
      <4>1. m + i = n
        BY <1>5, <3>2
      <4> QED
        BY <1>2, <1>14, <2>1, <3>2, <4>1
    <3> QED
      BY <1>5, <2>1, <3>1, <3>2
  <2>4. Hears(t, g, m, r, id)
    BY <1>11, <1>13, <2>2, <2>3 DEF Hears, M
  <2> QED
    BY <2>4 DEF g
<1>17. ASSUME h = <<>> PROVE Hears(t, h, m + 1, r, id)
  <2>1. Len(h) = 0 /\ DOMAIN h = {}
    BY <1>17, EmptyList
  <2>2. (m + 1) + Len(h) <= Len(t) /\ (m + 1) + Len(h) + 1 = n + 1
    BY <1>5, <1>10, <2>1
  <2> QED
    BY <1>11, <1>13, <2>1, <2>2 DEF Hears, M
<1> QED
  BY <1>16, <1>17 DEF r

------------------------------------------------------------------------------
(* Where calls are.                                                        *)

LEMMA CallAsked ==
  ASSUME NEW D, NEW a, IsList(a), NEW w, NEW s, NEW x, Placed(D, a, w, s), x.call \notin D
  PROVE  Placed(D \cup {x.call}, Append(a, x), w, s)
<1> DEFINE b == Append(a, x)
<1>1. /\ DOMAIN b = DOMAIN a \cup {Len(a) + 1} /\ Len(a) + 1 \notin DOMAIN a /\ b[Len(a) + 1] = x
      /\ \A i \in DOMAIN a : b[i] = a[i]
  BY GrownList
<1> HIDE DEF b
<1>2. CallsIn(b) = CallsIn(a) \cup {x.call} /\ \A i \in DOMAIN a : a[i].call \in CallsIn(a)
  BY <1>1 DEF CallsIn
<1>3. CallsIn(a) \subseteq D
  BY DEF Placed
<1>4. \A i, j \in DOMAIN b : i # j => b[i].call # b[j].call
  BY <1>1, <1>2, <1>3 DEF Placed
<1> QED
  BY <1>2, <1>4 DEF Placed, b

\* The first of the calls asked.
LEMMA CallTaken ==
  ASSUME NEW a, IsList(a), a # <<>>, \A i, j \in DOMAIN a : i # j => a[i].call # a[j].call
  PROVE  /\ CallsIn(a) = CallsIn(Tail(a)) \cup {Head(a).call} /\ Head(a).call \notin CallsIn(Tail(a))
         /\ \A i, j \in DOMAIN Tail(a) : i # j => Tail(a)[i].call # Tail(a)[j].call
<1> DEFINE b == Tail(a)
<1>1. /\ \A i \in DOMAIN b : i \in Nat /\ i + 1 \in DOMAIN a /\ i + 1 > 1 /\ b[i] = a[i + 1]
      /\ \A i \in DOMAIN a : i = 1 \/ (i - 1 \in DOMAIN b /\ b[i - 1] = a[i])
      /\ 1 \in DOMAIN a /\ a[1] = Head(a)
  BY ShrunkList
<1> HIDE DEF b
<1>2. CallsIn(a) = CallsIn(b) \cup {Head(a).call}
  <2>1. CallsIn(b) \cup {Head(a).call} \subseteq CallsIn(a)
    BY <1>1 DEF CallsIn
  <2>2. ASSUME NEW i \in DOMAIN a PROVE a[i].call \in CallsIn(b) \cup {Head(a).call}
    BY <1>1 DEF CallsIn
  <2> QED
    BY <2>1, <2>2 DEF CallsIn
<1>3. Head(a).call \notin CallsIn(b)
  BY <1>1 DEF CallsIn
<1>4. ASSUME NEW i \in DOMAIN b, NEW j \in DOMAIN b, i # j PROVE b[i].call # b[j].call
  <2>1. i + 1 # j + 1
    BY <1>1, <1>4
  <2> QED
    BY <1>1, <2>1
<1> QED
  BY <1>2, <1>3, <1>4 DEF b

\* An answer is one more of the messages.
LEMMA CallAnswered ==
  ASSUME NEW s, IsList(s), NEW x, ~IsNote(x), x.call \notin AnsweredCalls(s),
         OnlyOnce(s)
  PROVE  /\ AnsweredCalls(Append(s, x)) = AnsweredCalls(s) \cup {x.call}
         /\ OnlyOnce(Append(s, x))
<1>1. AnsweredCalls(Append(s, x)) = AnsweredCalls(s) \cup {x.call} /\ AnswersIn(Append(s, x)) = AnswersIn(s) \cup {Len(s) + 1}
  BY AnswerComes
<1>2. \A i \in AnswersIn(s) : Append(s, x)[i] = s[i] /\ s[i].call \in AnsweredCalls(s)
  BY GrownList DEF AnswersIn, AnsweredCalls
<1>3. Append(s, x)[Len(s) + 1] = x
  BY GrownList
<1> QED
  BY <1>1, <1>2, <1>3 DEF OnlyOnce

LEMMA AnsweredAtOnce ==
  ASSUME NEW D, NEW a, IsList(a), a # <<>>, NEW w, NEW s, IsList(s), NEW x, ~IsNote(x), x.call = Head(a).call,
         Placed(D, a, w, s)
  PROVE  Placed(D, Tail(a), w, Append(s, x))
<1>1. /\ CallsIn(a) = CallsIn(Tail(a)) \cup {Head(a).call} /\ Head(a).call \notin CallsIn(Tail(a))
      /\ \A i, j \in DOMAIN Tail(a) : i # j => Tail(a)[i].call # Tail(a)[j].call
  BY CallTaken DEF Placed
<1>2. x.call \notin AnsweredCalls(s) /\ OnlyOnce(s)
  BY <1>1 DEF Placed
<1>3. AnsweredCalls(Append(s, x)) = AnsweredCalls(s) \cup {x.call} /\ OnlyOnce(Append(s, x))
  BY <1>2, CallAnswered
<1> QED
  BY <1>1, <1>2, <1>3 DEF Placed

LEMMA TakenForWork ==
  ASSUME NEW D, NEW a, IsList(a), a # <<>>, NEW w, NEW s, Placed(D, a, w, s)
  PROVE  Placed(D, Tail(a), w \cup {Head(a).call}, s)
<1>1. /\ CallsIn(a) = CallsIn(Tail(a)) \cup {Head(a).call} /\ Head(a).call \notin CallsIn(Tail(a))
      /\ \A i, j \in DOMAIN Tail(a) : i # j => Tail(a)[i].call # Tail(a)[j].call
  BY CallTaken DEF Placed
<1> QED
  BY <1>1 DEF Placed

LEMMA AnsweredLater ==
  ASSUME NEW D, NEW a, NEW w, NEW s, IsList(s), NEW x, ~IsNote(x), x.call \in w, Placed(D, a, w, s)
  PROVE  Placed(D, a, w \ {x.call}, Append(s, x))
<1>1. /\ x.call \notin AnsweredCalls(s) /\ x.call \notin CallsIn(a)
      /\ OnlyOnce(s)
  BY DEF Placed
<1>2. /\ AnsweredCalls(Append(s, x)) = AnsweredCalls(s) \cup {x.call}
      /\ OnlyOnce(Append(s, x))
  BY <1>1, CallAnswered
<1> QED
  BY <1>1, <1>2 DEF Placed

LEMMA PlacedWithNote ==
  ASSUME NEW D, NEW a, NEW w, NEW s, IsList(s), NEW x, IsNote(x), Placed(D, a, w, s)
  PROVE  Placed(D, a, w, Append(s, x))
<1>1. AnsweredCalls(Append(s, x)) = AnsweredCalls(s) /\ AnswersIn(Append(s, x)) = AnswersIn(s)
  BY NoteComes
<1>2. \A i \in AnswersIn(s) : Append(s, x)[i] = s[i]
  BY GrownList DEF AnswersIn
<1>3. OnlyOnce(s) => OnlyOnce(Append(s, x))
  BY <1>1, <1>2 DEF OnlyOnce
<1> QED
  BY <1>1, <1>3 DEF Placed

\* The client takes a message.
LEMMA AnswersGo ==
  ASSUME NEW s, IsList(s), s # <<>>, OnlyOnce(s)
  PROVE  /\ OnlyOnce(Tail(s))
         /\ IsNote(Head(s)) => AnsweredCalls(Tail(s)) = AnsweredCalls(s)
         /\ ~IsNote(Head(s)) => AnsweredCalls(Tail(s)) = AnsweredCalls(s) \ {Head(s).call} /\ Head(s).call \in AnsweredCalls(s)
<1> DEFINE r == Tail(s)
<1>1. \A i : i \in AnswersIn(r) <=> i \in DOMAIN r /\ i + 1 \in AnswersIn(s)
  BY MessageGoes
<1>2. /\ \A i \in DOMAIN s : i = 1 \/ (i - 1 \in DOMAIN r /\ (i - 1) + 1 = i)
      /\ \A i \in DOMAIN r : i \in Nat /\ i + 1 \in DOMAIN s /\ i + 1 > 1 /\ r[i] = s[i + 1]
      /\ 1 \in DOMAIN s /\ s[1] = Head(s) /\ DOMAIN s \subseteq Nat
  BY MessageGoes
<1> HIDE DEF r
<1>3. \A i \in AnswersIn(r) : i \in Nat /\ i + 1 \in AnswersIn(s) /\ i + 1 # 1 /\ r[i] = s[i + 1]
  BY <1>1, <1>2
<1>4. \A i \in AnswersIn(s) : i = 1 \/ (i - 1 \in AnswersIn(r) /\ r[i - 1] = s[i])
  BY <1>1, <1>2 DEF AnswersIn
<1>5. 1 \in AnswersIn(s) <=> ~IsNote(Head(s))
  BY <1>2 DEF AnswersIn
<1>6. OnlyOnce(r)
  <2>1. \A i, j \in AnswersIn(r) : i # j => i + 1 # j + 1
    BY <1>3
  <2> QED
    BY <1>3, <2>1 DEF OnlyOnce
<1>7. AnsweredCalls(r) \subseteq AnsweredCalls(s)
  BY <1>3 DEF AnsweredCalls
<1>8. \A n \in AnsweredCalls(s) : n \in AnsweredCalls(r) \/ (1 \in AnswersIn(s) /\ n = s[1].call)
  BY <1>4 DEF AnsweredCalls
<1>9. 1 \in AnswersIn(s) => s[1].call \in AnsweredCalls(s) /\ s[1].call \notin AnsweredCalls(r)
  BY <1>3 DEF AnsweredCalls, OnlyOnce
<1>10. IsNote(Head(s)) => AnsweredCalls(r) = AnsweredCalls(s)
  BY <1>5, <1>7, <1>8
<1>11. ~IsNote(Head(s)) => AnsweredCalls(r) = AnsweredCalls(s) \ {Head(s).call} /\ Head(s).call \in AnsweredCalls(s)
  BY <1>2, <1>5, <1>7, <1>8, <1>9
<1> QED
  BY <1>6, <1>10, <1>11 DEF r

LEMMA PlacedAfter ==
  ASSUME NEW D, NEW a, NEW w, NEW s, IsList(s), s # <<>>, Placed(D, a, w, s)
  PROVE  /\ IsNote(Head(s)) => Placed(D, a, w, Tail(s))
         /\ ~IsNote(Head(s)) => Placed(D \ {Head(s).call}, a, w, Tail(s)) /\ Head(s).call \in D
<1>1. /\ OnlyOnce(Tail(s))
      /\ IsNote(Head(s)) => AnsweredCalls(Tail(s)) = AnsweredCalls(s)
      /\ ~IsNote(Head(s)) => AnsweredCalls(Tail(s)) = AnsweredCalls(s) \ {Head(s).call} /\ Head(s).call \in AnsweredCalls(s)
  BY AnswersGo DEF Placed
<1> QED
  BY <1>1 DEF Placed

\* The ids which the answered calls of a client make known.
LEMMA KnownIds ==
  ASSUME NEW S, NEW R, R \subseteq [id : S, on : BOOLEAN]
  PROVE  /\ \A id : id \in {r.id : r \in {x \in R : x.on}} <=> On(id) \in R
         /\ \A id : id \in {r.id : r \in {x \in R : ~x.on}} <=> Off(id) \in R
<1>1. \A x \in R : x = [id |-> x.id, on |-> x.on] /\ x.on \in BOOLEAN
  OBVIOUS
<1>2. \A x \in R : (x.on => x = On(x.id)) /\ (~x.on => x = Off(x.id))
  BY <1>1 DEF On, Off
<1>3. \A id : On(id).id = id /\ On(id).on = TRUE /\ Off(id).id = id /\ Off(id).on = FALSE
  BY DEF On, Off
<1>4. ASSUME NEW id PROVE id \in {r.id : r \in {x \in R : x.on}} <=> On(id) \in R
  BY <1>2, <1>3
<1>5. ASSUME NEW id PROVE id \in {r.id : r \in {x \in R : ~x.on}} <=> Off(id) \in R
  BY <1>2, <1>3
<1> QED
  BY <1>4, <1>5

------------------------------------------------------------------------------
(* Steps which leave a client alone.                                       *)

LEMMA RpcStarts == RpcInit => RpcInv
<1> SUFFICES ASSUME RpcInit PROVE RpcInv
  OBVIOUS
<1> USE DEF RpcInit
<1>1. ConnectionsOk
  BY DEF ConnectionsOk
<1>2. Known = {}
  BY DEF Known
<1>3. ServerOk
  BY <1>2, EmptyList DEF ServerOk, PollingOk
<1>4. ToldOk
  BY DEF ToldOk, SubscriptionsAreKept, OnlyChangesAreTold
<1>5. ASSUME NEW c \in Clients PROVE CallsOk(c)
  <2>1. CallsIn(<<>>) = {} /\ AnsweredCalls(<<>>) = {} /\ AnswersIn(<<>>) = {} /\ WorkedFor(c) = {} /\ OnlyOnce(<<>>)
    BY DEF CallsIn, AnsweredCalls, AnswersIn, WorkedFor, OnlyOnce
  <2>2. Placed({}, <<>>, {}, <<>>)
    BY <2>1 DEF Placed
  <2>3. messageQueue[c] = <<>> /\ toServer[c] = <<>> /\ toClient[c] = <<>> /\ resolved[c] = {} /\ DOMAIN <<>> = {}
    OBVIOUS
  <2>4. ListsOk(c)
    BY <2>3, EmptyList DEF ListsOk
  <2> QED
    BY <2>1, <2>2, <2>3, <2>4 DEF CallsOk
<1>6. ASSUME NEW c \in Clients, NEW id PROVE IsAlone(c, id) /\ IsEarly(c, id) /\ IsServed(c, id)
  <2>1. toClient[c] = <<>> /\ resolved[c] = {} /\ emitters[c] = {}
    OBVIOUS
  <2>2. NotesOf(toClient[c], id) = {} /\ Bringing(toClient[c], messageQueue[c], id) = {}
    BY <2>1, NoMessages
  <2> QED
    BY <2>1, <2>2 DEF IsAlone, IsEarly, IsServed, Owns, Early
<1> QED
  BY <1>1, <1>3, <1>4, <1>5, <1>6 DEF RpcInv, IdsOk

\* What c has stays.
Stays(c) ==
  /\ connections'[c] = connections[c] /\ toServer'[c] = toServer[c] /\ toClient'[c] = toClient[c]
  /\ messageQueue'[c] = messageQueue[c] /\ resolved'[c] = resolved[c] /\ emitters'[c] = emitters[c] /\ sent'[c] = sent[c]

LEMMA SameOwner ==
  ASSUME NEW c, NEW id, toClient'[c] = toClient[c], messageQueue'[c] = messageQueue[c], resolved'[c] = resolved[c]
  PROVE  /\ Bringing(toClient[c], messageQueue[c], id)' = Bringing(toClient[c], messageQueue[c], id)
         /\ Ending(toClient[c], messageQueue[c], id)' <=> Ending(toClient[c], messageQueue[c], id)
         /\ NotesOf(toClient[c], id)' = NotesOf(toClient[c], id)
         /\ Early(c, id)' <=> Early(c, id)
         /\ emitters'[c] = emitters[c] => (Owns(c, id)' <=> Owns(c, id))
<1>1. Bringing(toClient[c], messageQueue[c], id)' = Bringing(toClient'[c], messageQueue'[c], id)
  BY DEF Bringing, AnswersIn, IsNote, Result
<1>2. Ending(toClient[c], messageQueue[c], id)' <=> Ending(toClient'[c], messageQueue'[c], id)
  BY DEF Ending, AnswersIn, IsNote, Succeeds, Unsubscription
<1>3. NotesOf(toClient[c], id)' = NotesOf(toClient'[c], id)
  BY DEF NotesOf, IsNote
<1>4. Early(c, id)' <=> Bringing(toClient[c], messageQueue[c], id)' # {} \/ On(id) \in resolved'[c]
  BY DEF Early, On
<1>5. Owns(c, id)' <=> Early(c, id)' \/ id \in emitters'[c]
  BY DEF Owns
<1> QED
  BY <1>1, <1>2, <1>3, <1>4, <1>5 DEF Early, Owns

LEMMA MoreKnown == ASSUME NEW n \in Nat, NEW m \in {n, n + 1} PROVE 0..(n - 1) \subseteq 0..(m - 1)
OBVIOUS

LEMMA OthersStay ==
  ASSUME NEW c \in Clients, CallsOk(c), \A id : IsEarly(c, id) /\ IsServed(c, id), Stays(c),
         WorkedFor(c)' = WorkedFor(c), nextSubscription \in Nat, nextSubscription' \in {nextSubscription, nextSubscription + 1},
         \A id : Owns(c, id) =>
           /\ heard'[id] = heard[id] /\ missed'[id] = missed[id]
           /\ connections[c] = "open" =>
                told'[id] = told[id] /\ (id \in DOMAIN subscriptions => id \in DOMAIN subscriptions')
  PROVE  CallsOk(c)' /\ \A id : IsEarly(c, id)' /\ IsServed(c, id)'
<1>1. Known \subseteq Known'
  BY MoreKnown DEF Known
<1>2. CallsOk(c)'
  <2>0. ListsOk(c)'
    <3>1. \A message : IsMessage(message, Known) => IsMessage(message, Known')
      BY <1>1 DEF IsMessage
    <3>2. ListsOk(c)
      BY DEF CallsOk
    <3>3. \A i \in DOMAIN toClient'[c] : IsMessage(toClient'[c][i], Known')
      BY <3>1, <3>2 DEF ListsOk, Stays
    <3>4. \A i \in DOMAIN toServer'[c] : toServer'[c][i].call \in Nat
      BY <3>2 DEF ListsOk, Stays
    <3>5. IsList(toServer'[c]) /\ IsList(toClient'[c]) /\ sent'[c] \in Nat
      BY <3>2 DEF ListsOk, Stays
    <3>6. \A message : IsMessage(message, Known)' <=> IsMessage(message, Known')
      BY DEF IsMessage, ResponseTo, Notification
    <3> QED
      BY <3>2, <3>3, <3>4, <3>5, <3>6 DEF ListsOk, Stays
  <2>1. DOMAIN messageQueue'[c] \subseteq 1..sent'[c]
    BY DEF CallsOk, Stays
  <2>2. \A n \in DOMAIN messageQueue'[c] :
          messageQueue'[c][n].method = "unsubscribe" => \E id \in Known' : messageQueue'[c][n] = Unsubscription(id)
    BY <1>1 DEF CallsOk, Stays
  <2>3. resolved'[c] \subseteq [id : Known', on : BOOLEAN]
    BY <1>1 DEF CallsOk, Stays
  <2>4. ASSUME connections'[c] = "open"
        PROVE  /\ Placed(DOMAIN messageQueue'[c], toServer'[c], WorkedFor(c)', toClient'[c])
               /\ \A i \in DOMAIN toServer'[c] :
                    /\ toServer'[c][i].method = messageQueue'[c][toServer'[c][i].call].method
                    /\ toServer'[c][i].params = messageQueue'[c][toServer'[c][i].call].params
               /\ \A n \in WorkedFor(c)' : messageQueue'[c][n].method = "refineWorkPackage"
               /\ \A i \in AnswersIn(toClient'[c]) :
                    messageQueue'[c][toClient'[c][i].call].method \in SubscribableMethods =>
                      \E id \in Known' : toClient'[c][i].answer = Result(id)
    <3>1. connections[c] = "open"
      BY <2>4 DEF Stays
    <3>2. Placed(DOMAIN messageQueue'[c], toServer'[c], WorkedFor(c)', toClient'[c])
      BY <3>1 DEF CallsOk, Stays
    <3> QED
      BY <1>1, <3>1, <3>2 DEF CallsOk, Stays
  <2> QED
    BY <2>0, <2>1, <2>2, <2>3, <2>4 DEF CallsOk
<1>3. ASSUME NEW id PROVE IsEarly(c, id)' /\ IsServed(c, id)'
  <2>1. /\ Bringing(toClient[c], messageQueue[c], id)' = Bringing(toClient[c], messageQueue[c], id)
        /\ Ending(toClient[c], messageQueue[c], id)' <=> Ending(toClient[c], messageQueue[c], id)
        /\ Early(c, id)' <=> Early(c, id)
        /\ Owns(c, id)' <=> Owns(c, id)
    BY SameOwner DEF Stays
  <2>2. IsEarly(c, id) /\ IsServed(c, id)
    OBVIOUS
  <2>3. IsEarly(c, id)'
    BY <2>1, <2>2 DEF IsEarly, Stays, Owns, On, Off
  <2>4. IsServed(c, id)'
    <3>1. Owns(c, id) /\ connections[c] = "open" => Hears(told[id], heard[id], missed[id], toClient[c], id)'
      <4>1. SUFFICES ASSUME Owns(c, id), connections[c] = "open" PROVE Hears(told[id], heard[id], missed[id], toClient[c], id)'
        OBVIOUS
      <4>2. Hears(told'[id], heard'[id], missed'[id], toClient'[c], id)
        BY <2>2, <4>1 DEF IsServed, Stays
      <4> QED
        BY <4>2
    <3> QED
      BY <2>1, <2>2, <3>1 DEF IsServed, Stays, Owns, Off
  <2> QED
    BY <2>3, <2>4
<1> QED
  BY <1>2, <1>3

\* No client comes to own more.
LEMMA StillAlone ==
  ASSUME RpcInv, nextSubscription' = nextSubscription,
         \A id \in DOMAIN subscriptions' : id \in DOMAIN subscriptions /\ subscriptions'[id].ws = subscriptions[id].ws,
         NEW c \in Clients, NEW id,
         Owns(c, id)' \/ NotesOf(toClient[c], id)' # {} => Owns(c, id) \/ NotesOf(toClient[c], id) # {},
         \A d \in Clients \ {c} : Owns(d, id)' => Owns(d, id)
  PROVE  IsAlone(c, id)'
<1>1. IsAlone(c, id) /\ Known' = Known
  BY DEF RpcInv, IdsOk, Known
<1> QED
  BY <1>1 DEF IsAlone

\* What the actions may leave alone.
UnchangedLists == UNCHANGED <<connections, toServer, toClient, messageQueue, resolved, emitters, sent>>
UnchangedSubscriptions == UNCHANGED <<subscriptions, lastResults, nextSubscription, told>>

LEMMA KnownParts ==
  ASSUME RpcInv
  PROVE  /\ ConnectionsOk /\ ServerOk /\ ToldOk /\ nextSubscription \in Nat
         /\ \A c \in Clients : CallsOk(c) /\ IdsOk(c) /\ ListsOk(c) /\ IsList(toServer[c]) /\ IsList(toClient[c])
         /\ \A c \in Clients : \A id : IsAlone(c, id) /\ IsEarly(c, id) /\ IsServed(c, id)
BY DEF RpcInv, ServerOk, IdsOk, CallsOk, ListsOk

LEMMA ServerStays ==
  ASSUME RpcInv, UnchangedSubscriptions, UNCHANGED <<heard, missed>>, PollingOk'
  PROVE  ServerOk'
<1>1. Known' = Known
  BY DEF UnchangedSubscriptions, Known
<1> QED
  BY <1>1, KnownParts DEF ServerOk, UnchangedSubscriptions

LEMMA PollingStays ==
  ASSUME RpcInv, UNCHANGED polling, DOMAIN subscriptions' = DOMAIN subscriptions \/ polling = <<>>
  PROVE  PollingOk'
<1>1. PollingOk /\ polling' = polling
  BY KnownParts DEF ServerOk
<1>2. CASE polling = <<>>
  BY <1>1, <1>2, EmptyList DEF PollingOk
<1>3. CASE DOMAIN subscriptions' = DOMAIN subscriptions
  BY <1>1, <1>3 DEF PollingOk
<1> QED
  BY <1>2, <1>3

LEMMA ToldStays ==
  ASSUME RpcInv, UnchangedSubscriptions, \A c \in Clients : connections'[c] = "closed" => connections[c] = "closed"
  PROVE  ToldOk'
<1>1. ToldOk /\ ServerOk
  BY KnownParts
<1>2. OnlyChangesAreTold'
  BY <1>1 DEF ToldOk, OnlyChangesAreTold, UnchangedSubscriptions
<1>3. SubscriptionsAreKept'
  BY <1>1 DEF ToldOk, SubscriptionsAreKept, UnchangedSubscriptions, ServerOk
<1> QED
  BY <1>2, <1>3 DEF ToldOk

\* Steps that move nothing between the clients and the server.
LEMMA UnheardStep ==
  ASSUME RpcInv, UnchangedLists, UnchangedSubscriptions, UNCHANGED <<underWay, heard, missed>>, PollingOk'
  PROVE  RpcInv'
<1>1. ConnectionsOk'
  BY KnownParts DEF ConnectionsOk, UnchangedLists
<1>2. ServerOk'
  BY ServerStays
<1>3. ToldOk'
  BY ToldStays DEF UnchangedLists
<1>4. \A c \in Clients : Stays(c)
  BY DEF UnchangedLists, Stays
<1>5. ASSUME NEW c \in Clients PROVE CallsOk(c)' /\ \A id : IsEarly(c, id)' /\ IsServed(c, id)'
  <2>1. WorkedFor(c)' = WorkedFor(c)
    BY DEF WorkedFor
  <2>2. CallsOk(c) /\ (\A id : IsEarly(c, id) /\ IsServed(c, id)) /\ nextSubscription \in Nat
    BY KnownParts
  <2>3. \A id : /\ heard'[id] = heard[id] /\ missed'[id] = missed[id] /\ told'[id] = told[id]
                /\ id \in DOMAIN subscriptions => id \in DOMAIN subscriptions'
    BY DEF UnchangedSubscriptions
  <2>4. nextSubscription' \in {nextSubscription, nextSubscription + 1}
    BY DEF UnchangedSubscriptions
  <2> QED
    BY <1>4, <2>1, <2>2, <2>3, <2>4, OthersStay
<1>6. ASSUME NEW c \in Clients, NEW id PROVE IsAlone(c, id)'
  <2>1. \A d \in Clients : (Owns(d, id)' <=> Owns(d, id)) /\ NotesOf(toClient[d], id)' = NotesOf(toClient[d], id)
    BY <1>4, SameOwner DEF Stays
  <2>2. \A i \in DOMAIN subscriptions' : i \in DOMAIN subscriptions /\ subscriptions'[i].ws = subscriptions[i].ws
    BY DEF UnchangedSubscriptions
  <2> QED
    BY <2>1, <2>2, StillAlone DEF UnchangedSubscriptions
<1> QED
  BY <1>1, <1>2, <1>3, <1>5, <1>6 DEF RpcInv, IdsOk

LEMMA DatabaseStep == ASSUME RpcInv, Import \/ Prune PROVE RpcInv'
<1>1. UnchangedLists /\ UnchangedSubscriptions /\ UNCHANGED <<underWay, heard, missed, polling>>
  BY DEF Import, Prune, UnchangedLists, UnchangedSubscriptions, serverVars, clientVars
<1>2. PollingOk'
  BY <1>1, PollingStays DEF UnchangedSubscriptions
<1> QED
  BY <1>1, <1>2, UnheardStep

LEMMA PollStep == ASSUME RpcInv, PollSubscriptions PROVE RpcInv'
<1>1. UnchangedLists /\ UnchangedSubscriptions /\ UNCHANGED <<underWay, heard, missed>>
  BY DEF PollSubscriptions, UnchangedLists, UnchangedSubscriptions, clientVars
<1>2. PICK ids \in [1..Cardinality(DOMAIN subscriptions) -> DOMAIN subscriptions] :
        polling' = [i \in DOMAIN ids |-> [id |-> ids[i], header |-> Null]]
  BY DEF PollSubscriptions
<1>3. Cardinality(DOMAIN subscriptions) \in Nat
  <2>1. DOMAIN subscriptions \subseteq 0..(nextSubscription - 1) /\ nextSubscription \in Nat
    BY KnownParts DEF ServerOk, Known
  <2>2. IsFiniteSet(0..(nextSubscription - 1))
    BY <2>1, FS_Interval
  <2> QED
    BY <2>1, <2>2, FS_Subset, FS_CardinalityType
<1>4. PollingOk'
  <2> DEFINE n == Cardinality(DOMAIN subscriptions)
             T == [id : DOMAIN subscriptions, header : {Null}]
  <2>1. polling' \in [1..n -> T]
    BY <1>2
  <2>2. polling' \in Seq(T)
    <3>1. n \in Nat
      BY <1>3
    <3> HIDE DEF n, T
    <3> QED
      BY <2>1, <3>1, IsASeq
  <2>3. \A i \in DOMAIN polling' : polling'[i] \in T
    BY <2>1
  <2>4. \A i \in DOMAIN polling' : polling'[i].id \in DOMAIN subscriptions'
            /\ polling'[i] = [id |-> polling'[i].id, header |-> polling'[i].header]
    BY <1>1, <2>3 DEF UnchangedSubscriptions
  <2> QED
    BY <2>2, <2>4 DEF PollingOk, IsList
<1> QED
  BY <1>1, <1>4, UnheardStep

LEMMA ReadStep == ASSUME RpcInv, ReadBest PROVE RpcInv'
<1>1. UnchangedLists /\ UnchangedSubscriptions /\ UNCHANGED <<underWay, heard, missed>>
  BY DEF ReadBest, UnchangedLists, UnchangedSubscriptions, clientVars
<1>2. polling' = [polling EXCEPT ![1].header = bestStored] /\ polling # <<>> /\ PollingOk
  BY KnownParts DEF ReadBest, ServerOk
<1>3. PICK T : polling \in Seq(T)
  BY <1>2 DEF PollingOk, IsList
<1>4. Len(polling) \in Nat /\ DOMAIN polling = 1..Len(polling) /\ 1 \in DOMAIN polling
  BY <1>2, <1>3
<1>5. DOMAIN polling' = 1..Len(polling)
  BY <1>2, <1>4
<1>6. polling'[1] = [id |-> polling[1].id, header |-> bestStored]
  <2> DEFINE first == polling[1]
             i1 == first.id
             h1 == first.header
  <2>1. first = [id |-> i1, header |-> h1]
    BY <1>2, <1>4 DEF PollingOk
  <2>2. polling'[1] = [first EXCEPT !.header = bestStored]
    BY <1>2, <1>4
  <2> HIDE DEF first, i1, h1
  <2>3. polling'[1] = [id |-> i1, header |-> bestStored]
    BY <2>1, <2>2
  <2> QED
    BY <2>3 DEF i1, first
<1>7. \A i \in 2..Len(polling) : polling'[i] = polling[i]
  BY <1>2, <1>4
<1>8. PollingOk'
  <2>1. \A i \in DOMAIN polling' : polling'[i].id \in DOMAIN subscriptions'
            /\ polling'[i] = [id |-> polling'[i].id, header |-> polling'[i].header]
    <3>1. SUFFICES ASSUME NEW i \in 1..Len(polling)
                   PROVE  polling'[i].id \in DOMAIN subscriptions /\ polling'[i] = [id |-> polling'[i].id, header |-> polling'[i].header]
      BY <1>1, <1>5 DEF UnchangedSubscriptions
    <3>2. CASE i = 1
      BY <1>2, <1>4, <1>6, <3>2 DEF PollingOk
    <3>3. CASE i # 1
      <4>1. polling'[i] = polling[i] /\ i \in DOMAIN polling
        BY <1>4, <1>7, <3>3
      <4> QED
        BY <1>2, <4>1 DEF PollingOk
    <3> QED
      BY <3>2, <3>3
  <2>2. IsList(polling')
    <3> DEFINE U == {polling'[i] : i \in 1..Len(polling)}
    <3>1. polling' = [i \in 1..Len(polling) |-> polling'[i]]
      BY <1>2, <1>4
    <3>2. polling' \in [1..Len(polling) -> U]
      BY <3>1
    <3>3. polling' \in Seq(U)
      BY <1>4, <3>2, IsASeq
    <3> QED
      BY <3>3 DEF IsList
  <2> QED
    BY <2>1, <2>2 DEF PollingOk, IsList
<1> QED
  BY <1>1, <1>8, UnheardStep

\* A step of one client, or of the server for it.
OthersKeep(c) ==
  \A d \in Clients \ {c} :
    /\ Stays(d) /\ WorkedFor(d)' = WorkedFor(d)
    /\ \A id : Owns(d, id) =>
         /\ heard'[id] = heard[id] /\ missed'[id] = missed[id]
         /\ connections[d] = "open" =>
              told'[id] = told[id] /\ (id \in DOMAIN subscriptions => id \in DOMAIN subscriptions')

LEMMA OneActs ==
  ASSUME RpcInv, NEW c \in Clients, OthersKeep(c), nextSubscription' \in {nextSubscription, nextSubscription + 1},
         ConnectionsOk', ServerOk', ToldOk', CallsOk(c)', \A id : IsEarly(c, id)' /\ IsServed(c, id)',
         \A d \in Clients : \A id : IsAlone(d, id)'
  PROVE  RpcInv'
<1>1. ASSUME NEW d \in Clients \ {c} PROVE CallsOk(d)' /\ \A id : IsEarly(d, id)' /\ IsServed(d, id)'
  <2>1. CallsOk(d) /\ (\A id : IsEarly(d, id) /\ IsServed(d, id)) /\ nextSubscription \in Nat
    BY KnownParts
  <2>2. /\ Stays(d) /\ WorkedFor(d)' = WorkedFor(d)
        /\ \A id : Owns(d, id) =>
             /\ heard'[id] = heard[id] /\ missed'[id] = missed[id]
             /\ connections[d] = "open" =>
                  told'[id] = told[id] /\ (id \in DOMAIN subscriptions => id \in DOMAIN subscriptions')
    BY DEF OthersKeep
  <2> QED
    BY <2>1, <2>2, OthersStay
<1>2. \A d \in Clients : CallsOk(d)' /\ \A id : IsEarly(d, id)' /\ IsServed(d, id)'
  BY <1>1
<1> QED
  BY <1>2 DEF RpcInv, IdsOk

\* No subscription is made, and only c may own less.
LEMMA AllStillAlone ==
  ASSUME RpcInv, NEW c \in Clients, nextSubscription' = nextSubscription, \A d \in Clients \ {c} : Stays(d),
         \A id \in DOMAIN subscriptions' : id \in DOMAIN subscriptions /\ subscriptions'[id].ws = subscriptions[id].ws,
         \A id : (Owns(c, id)' => Owns(c, id))
                   /\ (NotesOf(toClient[c], id)' # {} => Owns(c, id) \/ NotesOf(toClient[c], id) # {})
  PROVE  \A d \in Clients : \A id : IsAlone(d, id)'
<1>1. ASSUME NEW d \in Clients, NEW id
      PROVE  /\ Owns(d, id)' => Owns(d, id)
             /\ NotesOf(toClient[d], id)' # {} => Owns(d, id) \/ NotesOf(toClient[d], id) # {}
  <2>1. CASE d = c
    BY <2>1
  <2>2. CASE d # c
    BY <2>2, SameOwner DEF Stays
  <2> QED
    BY <2>1, <2>2
<1>2. ASSUME NEW d \in Clients, NEW id PROVE IsAlone(d, id)'
  BY <1>1, StillAlone
<1> QED
  BY <1>2

\* Nothing is told and nobody connects.
LEMMA ServerDrops ==
  ASSUME RpcInv, UNCHANGED <<nextSubscription, told, heard, missed>>, PollingOk',
         DOMAIN subscriptions' \subseteq DOMAIN subscriptions,
         \A id \in DOMAIN subscriptions' : subscriptions'[id] = subscriptions[id]
  PROVE  ServerOk'
<1>1. Known' = Known
  BY DEF Known
<1> QED
  BY <1>1, KnownParts DEF ServerOk

LEMMA ToldDrops ==
  ASSUME RpcInv, UNCHANGED told, NEW ids, DropSubscriptions(ids),
         \A id \in DOMAIN subscriptions \ ids : connections'[subscriptions[id].ws] = connections[subscriptions[id].ws]
  PROVE  /\ ToldOk'
         /\ DOMAIN subscriptions' = DOMAIN subscriptions \ ids
         /\ \A id \in DOMAIN subscriptions' : subscriptions'[id] = subscriptions[id]
<1>1. /\ DOMAIN subscriptions' = DOMAIN subscriptions \ ids /\ DOMAIN lastResults' = DOMAIN lastResults \ ids
      /\ \A id \in DOMAIN subscriptions' : subscriptions'[id] = subscriptions[id]
      /\ \A id \in DOMAIN lastResults' : lastResults'[id] = lastResults[id]
  BY DEF DropSubscriptions
<1>2. ToldOk
  BY KnownParts
<1>3. OnlyChangesAreTold'
  BY <1>2 DEF ToldOk, OnlyChangesAreTold
<1>4. SubscriptionsAreKept'
  <2>1. DOMAIN lastResults' \subseteq DOMAIN subscriptions'
    BY <1>1, <1>2 DEF ToldOk, SubscriptionsAreKept
  <2>2. ASSUME NEW id \in DOMAIN subscriptions'
        PROVE  /\ connections'[subscriptions'[id].ws] # "closed"
               /\ IF told'[id] = <<>> THEN id \notin DOMAIN lastResults'
                  ELSE id \in DOMAIN lastResults' /\ lastResults'[id] = told'[id][Len(told'[id])]
    <3>1. id \in DOMAIN subscriptions /\ id \notin ids /\ subscriptions'[id] = subscriptions[id]
      BY <1>1
    <3> QED
      BY <1>1, <1>2, <3>1 DEF ToldOk, SubscriptionsAreKept
  <2> QED
    BY <2>1, <2>2 DEF SubscriptionsAreKept
<1> QED
  BY <1>1, <1>3, <1>4 DEF ToldOk

LEMMA LostStep == ASSUME RpcInv, NEW c \in Clients, ConnectionLost(c) PROVE RpcInv'
<1>1. /\ connections[c] = "open" /\ connections' = [connections EXCEPT ![c] = "lost"] /\ toClient' = [toClient EXCEPT ![c] = <<>>]
      /\ UnchangedSubscriptions
      /\ UNCHANGED <<toServer, messageQueue, resolved, emitters, sent, polling, underWay, heard, missed>>
  BY DEF ConnectionLost, UnchangedSubscriptions, serverVars, clientVars
<1>2. ConnectionsOk' /\ connections'[c] = "lost" /\ toClient'[c] = <<>> /\ \A d \in Clients \ {c} : Stays(d)
  BY <1>1, KnownParts DEF ConnectionsOk, Stays
<1>3. ServerOk'
  BY <1>1, PollingStays, ServerStays DEF UnchangedSubscriptions
<1>4. ToldOk'
  <2>1. \A d \in Clients : connections'[d] = "closed" => connections[d] = "closed"
    BY <1>1, <1>2 DEF Stays
  <2> QED
    BY <1>1, <2>1, ToldStays
<1>5. OthersKeep(c)
  BY <1>1, <1>2 DEF OthersKeep, WorkedFor, UnchangedSubscriptions
<1>6. Known' = Known
  BY <1>1 DEF Known, UnchangedSubscriptions
<1>7. CallsOk(c)'
  <2>1. CallsOk(c) /\ ListsOk(c)
    BY KnownParts
  <2>2. ListsOk(c)'
    BY <1>1, <1>2, <2>1, EmptyList DEF ListsOk
  <2> QED
    BY <1>1, <1>2, <1>6, <2>1, <2>2 DEF CallsOk, Unsubscription
<1>8. ASSUME NEW id
      PROVE  /\ Bringing(toClient[c], messageQueue[c], id)' = {} /\ NotesOf(toClient[c], id)' = {}
             /\ Early(c, id)' => Early(c, id) /\ On(id) \in resolved[c]
             /\ Owns(c, id)' => Owns(c, id)
  <2>1. Bringing(toClient'[c], messageQueue'[c], id) = {} /\ NotesOf(toClient'[c], id) = {}
    BY <1>2, NoMessages
  <2>2. Bringing(toClient[c], messageQueue[c], id)' = {} /\ NotesOf(toClient[c], id)' = {}
    BY <2>1 DEF Bringing, AnswersIn, IsNote, Result, NotesOf
  <2>3. Early(c, id)' => Early(c, id) /\ On(id) \in resolved[c]
    BY <1>1, <2>2 DEF Early, On
  <2> QED
    BY <1>1, <2>2, <2>3 DEF Owns
<1>9. ASSUME NEW id PROVE IsEarly(c, id)' /\ IsServed(c, id)'
  <2>1. IsServed(c, id)'
    BY <1>2 DEF IsServed
  <2>2. IsEarly(c, id)
    BY KnownParts
  <2>3. IsEarly(c, id)'
    BY <1>1, <1>2, <1>8, <2>2 DEF IsEarly, Off, Unsubscription
  <2> QED
    BY <2>1, <2>3
<1>10. \A d \in Clients : \A id : IsAlone(d, id)'
  BY <1>1, <1>2, <1>8, AllStillAlone DEF UnchangedSubscriptions
<1> QED
  BY <1>1, <1>2, <1>3, <1>4, <1>5, <1>7, <1>9, <1>10, OneActs DEF UnchangedSubscriptions

LEMMA CloseStep == ASSUME RpcInv, NEW c \in Clients, OnClose(c) PROVE RpcInv'
<1> DEFINE ids == {id \in DOMAIN subscriptions : subscriptions[id].ws = c}
<1>1. /\ polling = <<>> /\ connections[c] = "lost" /\ connections' = [connections EXCEPT ![c] = "closed"]
      /\ DropSubscriptions(ids) /\ UNCHANGED <<nextSubscription, told, heard, missed>>
      /\ UNCHANGED <<toServer, toClient, messageQueue, resolved, emitters, sent, polling, underWay>>
  BY DEF OnClose, clientVars
<1>2. ConnectionsOk' /\ connections'[c] = "closed" /\ \A d \in Clients \ {c} : Stays(d) /\ connections'[d] = connections[d]
  BY <1>1, KnownParts DEF ConnectionsOk, Stays
<1>3. /\ ToldOk' /\ DOMAIN subscriptions' = DOMAIN subscriptions \ ids
      /\ \A id \in DOMAIN subscriptions' : subscriptions'[id] = subscriptions[id]
  <2>1. \A id \in DOMAIN subscriptions \ ids : connections'[subscriptions[id].ws] = connections[subscriptions[id].ws]
    BY <1>2, KnownParts DEF ServerOk
  <2> HIDE DEF ids
  <2> QED
    BY <1>1, <2>1, ToldDrops
<1>4. ServerOk'
  <2>1. PollingOk'
    BY <1>1, PollingStays
  <2> QED
    BY <1>1, <1>3, <2>1, ServerDrops
<1>5. OthersKeep(c)
  <2>1. ASSUME NEW d \in Clients \ {c}, NEW id, Owns(d, id), id \in DOMAIN subscriptions PROVE id \in DOMAIN subscriptions'
    <3>1. subscriptions[id].ws = d
      BY <2>1, KnownParts DEF IsAlone
    <3> QED
      BY <1>3, <2>1, <3>1
  <2> QED
    BY <1>1, <1>2, <2>1 DEF OthersKeep, WorkedFor
<1>6. Known' = Known
  BY <1>1 DEF Known
<1>7. CallsOk(c)'
  <2>1. CallsOk(c) /\ ListsOk(c)
    BY KnownParts
  <2>2. ListsOk(c)'
    <3>1. toClient[c] = <<>>
      BY <1>1, <2>1 DEF ListsOk
    <3> QED
      BY <1>1, <2>1, <3>1, EmptyList DEF ListsOk
  <2> QED
    BY <1>1, <1>2, <1>6, <2>1, <2>2 DEF CallsOk, Unsubscription
<1>8. \A id : /\ Bringing(toClient[c], messageQueue[c], id)' = Bringing(toClient[c], messageQueue[c], id)
              /\ NotesOf(toClient[c], id)' = NotesOf(toClient[c], id)
              /\ (Early(c, id)' <=> Early(c, id)) /\ (Owns(c, id)' <=> Owns(c, id))
  BY <1>1, SameOwner
<1>9. ASSUME NEW id PROVE IsEarly(c, id)' /\ IsServed(c, id)'
  <2>1. IsServed(c, id)'
    BY <1>2 DEF IsServed
  <2>2. IsEarly(c, id)
    BY KnownParts
  <2>3. IsEarly(c, id)'
    BY <1>1, <1>2, <1>8, <2>2 DEF IsEarly, Off, On, Unsubscription
  <2> QED
    BY <2>1, <2>3
<1>10. \A d \in Clients : \A id : IsAlone(d, id)'
  BY <1>1, <1>2, <1>3, <1>8, AllStillAlone
<1> QED
  BY <1>1, <1>2, <1>3, <1>4, <1>5, <1>7, <1>9, <1>10, OneActs

------------------------------------------------------------------------------
(* The client.                                                             *)

LEMMA CallStep ==
  ASSUME RpcInv, NEW c \in Clients, NEW request, Call(c, request),
         request.method = "unsubscribe" =>
           \E id \in Known : /\ request = Unsubscription(id)
                             /\ id \in emitters[c] \/ (id \in DOMAIN subscriptions /\ subscriptions[id].ws # c)
  PROVE  RpcInv'
<1> DEFINE n == sent[c] + 1
           x == [call |-> n, method |-> request.method, params |-> request.params]
           q == messageQueue[c]
           r == Entered(q, n, request)
<1>1. /\ connections[c] = "open"
      /\ sent' = [sent EXCEPT ![c] = n] /\ messageQueue' = [messageQueue EXCEPT ![c] = r]
      /\ toServer' = [toServer EXCEPT ![c] = Append(toServer[c], x)]
      /\ UnchangedSubscriptions
      /\ UNCHANGED <<connections, toClient, resolved, emitters, polling, underWay, heard, missed>>
  BY DEF Call, UnchangedSubscriptions, serverVars
<1>2. CallsOk(c) /\ ListsOk(c) /\ ConnectionsOk /\ sent[c] \in Nat /\ IsList(toServer[c]) /\ IsList(toClient[c])
  BY KnownParts DEF ListsOk
<1>3. /\ ConnectionsOk' /\ sent'[c] = n /\ messageQueue'[c] = r /\ toServer'[c] = Append(toServer[c], x)
      /\ \A d \in Clients \ {c} : Stays(d)
  BY <1>1, <1>2 DEF ConnectionsOk, Stays
<1>4. DOMAIN q \subseteq 1..sent[c] /\ n \notin DOMAIN q
  BY <1>2 DEF CallsOk
<1>5. /\ DOMAIN r = DOMAIN q \cup {n} /\ r[n] = request /\ \A k \in DOMAIN q : r[k] = q[k]
  <2> HIDE DEF n, q
  <2> QED
    BY <1>4 DEF Entered
<1>6. x.call = n /\ x.method = request.method /\ x.params = request.params
  OBVIOUS
<1> HIDE DEF n, x, r, q
<1>7. Placed(DOMAIN q, toServer[c], WorkedFor(c), toClient[c])
  BY <1>1, <1>2 DEF CallsOk, q
<1>8. /\ \A i \in AnswersIn(toClient[c]) : toClient[c][i].call \in DOMAIN q
      /\ \A i \in DOMAIN toServer[c] : toServer[c][i].call \in DOMAIN q
      /\ \A k \in WorkedFor(c) : k \in DOMAIN q
  BY <1>7 DEF Placed, AnsweredCalls, CallsIn
<1>9. ServerOk' /\ ToldOk'
  <2>1. PollingOk'
    BY <1>1, PollingStays DEF UnchangedSubscriptions
  <2> QED
    BY <1>1, <2>1, ServerStays, ToldStays
<1>10. OthersKeep(c) /\ WorkedFor(c)' = WorkedFor(c)
  BY <1>1, <1>3 DEF OthersKeep, WorkedFor, UnchangedSubscriptions
<1>11. Known' = Known
  BY <1>1 DEF Known, UnchangedSubscriptions
<1>12. CallsOk(c)'
  <2>1. /\ IsList(toServer'[c]) /\ DOMAIN toServer'[c] = DOMAIN toServer[c] \cup {Len(toServer[c]) + 1}
        /\ toServer'[c][Len(toServer[c]) + 1] = x
        /\ \A i \in DOMAIN toServer[c] : toServer'[c][i] = toServer[c][i]
    BY <1>2, <1>3, GrownList
  <2>2. ListsOk(c)'
    <3>1. n \in Nat
      BY <1>2 DEF n
    <3>2. \A i \in DOMAIN toServer'[c] : toServer'[c][i].call \in Nat
      BY <1>2, <1>6, <2>1, <3>1 DEF ListsOk
    <3>3. \A i \in DOMAIN toClient'[c] : IsMessage(toClient'[c][i], Known')
      BY <1>1, <1>2, <1>11 DEF ListsOk
    <3>4. \A message : IsMessage(message, Known)' <=> IsMessage(message, Known')
      BY DEF IsMessage, ResponseTo, Notification
    <3> QED
      BY <1>1, <1>2, <1>3, <2>1, <3>1, <3>2, <3>3, <3>4 DEF ListsOk
  <2>3. DOMAIN r \subseteq 1..n
    BY <1>2, <1>4, <1>5 DEF n
  <2>4. \A k \in DOMAIN r : r[k].method = "unsubscribe" => \E id \in Known : r[k] = Unsubscription(id)
    BY <1>2, <1>5 DEF CallsOk, q
  <2>5. Placed(DOMAIN r, toServer'[c], WorkedFor(c), toClient[c])
    <3>1. Placed(DOMAIN q \cup {x.call}, Append(toServer[c], x), WorkedFor(c), toClient[c])
      BY <1>2, <1>4, <1>6, <1>7, CallAsked
    <3> QED
      BY <1>3, <1>5, <1>6, <3>1
  <2>6. \A i \in DOMAIN toServer'[c] :
          /\ toServer'[c][i].method = r[toServer'[c][i].call].method
          /\ toServer'[c][i].params = r[toServer'[c][i].call].params
    <3>1. \A i \in DOMAIN toServer[c] :
            /\ toServer[c][i].method = q[toServer[c][i].call].method
            /\ toServer[c][i].params = q[toServer[c][i].call].params
      BY <1>1, <1>2 DEF CallsOk, q
    <3> QED
      BY <1>5, <1>6, <1>8, <2>1, <3>1
  <2>7. \A k \in WorkedFor(c) : r[k].method = "refineWorkPackage"
    BY <1>1, <1>2, <1>5, <1>8 DEF CallsOk, q
  <2>8. \A i \in AnswersIn(toClient[c]) :
          r[toClient[c][i].call].method \in SubscribableMethods => \E id \in Known : toClient[c][i].answer = Result(id)
    BY <1>1, <1>2, <1>5, <1>8 DEF CallsOk, q
  <2>9. resolved'[c] \subseteq [id : Known', on : BOOLEAN]
    BY <1>1, <1>2, <1>11 DEF CallsOk
  <2> QED
    BY <1>1, <1>3, <1>10, <1>11, <2>2, <2>3, <2>4, <2>5, <2>6, <2>7, <2>8, <2>9 DEF CallsOk, AnswersIn, IsNote, Unsubscription, Result
<1>13. ASSUME NEW id
       PROVE  /\ Bringing(toClient[c], messageQueue[c], id)' = Bringing(toClient[c], messageQueue[c], id)
              /\ Ending(toClient[c], messageQueue[c], id)' <=> Ending(toClient[c], messageQueue[c], id)
              /\ NotesOf(toClient[c], id)' = NotesOf(toClient[c], id)
              /\ Early(c, id)' <=> Early(c, id)
              /\ Owns(c, id)' <=> Owns(c, id)
  <2>1. \A i \in AnswersIn(toClient[c]) : r[toClient[c][i].call] = q[toClient[c][i].call]
    BY <1>5, <1>8
  <2>2. Bringing(toClient[c], r, id) = Bringing(toClient[c], q, id) /\ (Ending(toClient[c], r, id) <=> Ending(toClient[c], q, id))
    BY <2>1, QueueMatters
  <2>3. Bringing(toClient[c], messageQueue[c], id)' = Bringing(toClient[c], messageQueue[c], id)
    <3>1. Bringing(toClient[c], messageQueue[c], id)' = Bringing(toClient[c], r, id)
      BY <1>1, <1>3 DEF Bringing, AnswersIn, IsNote, Result
    <3> QED
      BY <2>2, <3>1 DEF q
  <2>4. Ending(toClient[c], messageQueue[c], id)' <=> Ending(toClient[c], messageQueue[c], id)
    <3>1. Ending(toClient[c], messageQueue[c], id)' <=> Ending(toClient[c], r, id)
      BY <1>1, <1>3 DEF Ending, AnswersIn, IsNote, Succeeds, Unsubscription
    <3> QED
      BY <2>2, <3>1 DEF q
  <2>5. NotesOf(toClient[c], id)' = NotesOf(toClient[c], id)
    BY <1>1 DEF NotesOf, IsNote
  <2>6. Early(c, id)' <=> Early(c, id)
    BY <1>1, <2>3 DEF Early, On
  <2>7. Owns(c, id)' <=> Owns(c, id)
    BY <1>1, <2>6 DEF Owns
  <2> QED
    BY <2>3, <2>4, <2>5, <2>6, <2>7
<1>14. ASSUME NEW id PROVE IsEarly(c, id)'
  <2>1. IsEarly(c, id) /\ IsAlone(c, id)
    BY KnownParts
  <2>2. SUFFICES ASSUME Early(c, id) PROVE \A k \in DOMAIN r : r[k] # Unsubscription(id)
    BY <1>1, <1>3, <1>13, <2>1 DEF IsEarly, UnchangedSubscriptions, On, Off, Unsubscription
  <2>3. id \notin emitters[c] /\ (id \in DOMAIN subscriptions => subscriptions[id].ws = c)
    BY <2>1, <2>2 DEF IsEarly, IsAlone, Owns
  <2>4. \A k : Unsubscription(k).method = "unsubscribe" /\ Unsubscription(k).params = k
    BY DEF Unsubscription
  <2>5. request # Unsubscription(id)
    BY <2>3, <2>4
  <2> QED
    BY <1>5, <2>1, <2>2, <2>5 DEF IsEarly, q
<1>15. ASSUME NEW id PROVE IsServed(c, id)'
  <2>1. IsServed(c, id)
    BY KnownParts
  <2>2. Hears(told[id], heard[id], missed[id], toClient[c], id)' <=> Hears(told[id], heard[id], missed[id], toClient[c], id)
    <3>1. Hears(told[id], heard[id], missed[id], toClient[c], id)' <=> Hears(told'[id], heard'[id], missed'[id], toClient'[c], id)
      BY DEF Hears, NotesOf, IsNote
    <3> QED
      BY <1>1, <3>1 DEF UnchangedSubscriptions
  <2> QED
    BY <1>1, <1>13, <2>1, <2>2 DEF IsServed, UnchangedSubscriptions, Off
<1>16. \A d \in Clients : \A id : IsAlone(d, id)'
  BY <1>1, <1>3, <1>13, AllStillAlone DEF UnchangedSubscriptions
<1> QED
  BY <1>1, <1>3, <1>9, <1>10, <1>12, <1>14, <1>15, <1>16, OneActs DEF UnchangedSubscriptions

LEMMA CallsStep ==
  ASSUME RpcInv, NEW c \in Clients, CallUnsubscribe(c) \/ \E r \in Requests[c] : Call(c, r)
  PROVE  RpcInv'
<1>1. CASE \E r \in Requests[c] : Call(c, r)
  <2>1. PICK r \in Requests[c] : Call(c, r)
    BY <1>1
  <2>2. r.method # "unsubscribe"
    BY RpcAssumption DEF RpcAssumption
  <2> QED
    BY <2>1, <2>2, CallStep
<1>2. CASE CallUnsubscribe(c)
  <2>1. PICK id \in emitters[c] \cup {i \in DOMAIN subscriptions : subscriptions[i].ws # c} : Call(c, Unsubscription(id))
    BY <1>2 DEF CallUnsubscribe, Unsubscription
  <2>2. id \in Known
    <3>1. CASE id \in emitters[c]
      BY <3>1, KnownParts DEF IsAlone, Owns
    <3>2. CASE id \in DOMAIN subscriptions
      BY <3>2, KnownParts DEF ServerOk
    <3> QED
      BY <3>1, <3>2
  <2> QED
    BY <2>1, <2>2, CallStep
<1> QED
  BY <1>1, <1>2

LEMMA AwaitedStep == ASSUME RpcInv, NEW c \in Clients, AnswersAwaited(c) PROVE RpcInv'
<1> DEFINE on == {r.id : r \in {x \in resolved[c] : x.on}}
           off == {r.id : r \in {x \in resolved[c] : ~x.on}}
<1>1. /\ emitters' = [emitters EXCEPT ![c] = (emitters[c] \cup on) \ off] /\ resolved' = [resolved EXCEPT ![c] = {}]
      /\ UnchangedSubscriptions
      /\ UNCHANGED <<connections, toServer, toClient, messageQueue, sent, polling, underWay, heard, missed>>
  BY DEF AnswersAwaited, UnchangedSubscriptions, serverVars
<1>2. \A id : (id \in on <=> On(id) \in resolved[c]) /\ (id \in off <=> Off(id) \in resolved[c])
  <2>1. resolved[c] \subseteq [id : Known, on : BOOLEAN]
    BY KnownParts DEF CallsOk
  <2> QED
    BY <2>1, KnownIds
<1> HIDE DEF on, off
<1>3. /\ ConnectionsOk' /\ emitters'[c] = (emitters[c] \cup on) \ off /\ resolved'[c] = {}
      /\ \A d \in Clients \ {c} : Stays(d)
  BY <1>1, KnownParts DEF ConnectionsOk, Stays
<1>4. ServerOk' /\ ToldOk'
  <2>1. PollingOk'
    BY <1>1, PollingStays DEF UnchangedSubscriptions
  <2> QED
    BY <1>1, <2>1, ServerStays, ToldStays
<1>5. OthersKeep(c) /\ WorkedFor(c)' = WorkedFor(c)
  BY <1>1, <1>3 DEF OthersKeep, WorkedFor, UnchangedSubscriptions
<1>6. Known' = Known
  BY <1>1 DEF Known, UnchangedSubscriptions
<1>7. CallsOk(c)'
  <2>1. CallsOk(c) /\ ListsOk(c)
    BY KnownParts
  <2>2. \A message : IsMessage(message, Known)' <=> IsMessage(message, Known)
    BY <1>6 DEF IsMessage, ResponseTo, Notification
  <2>3. ListsOk(c)'
    BY <1>1, <2>1, <2>2 DEF ListsOk
  <2>4. Placed(DOMAIN messageQueue[c], toServer[c], WorkedFor(c), toClient[c])'
          <=> Placed(DOMAIN messageQueue[c], toServer[c], WorkedFor(c), toClient[c])
    <3>1. Placed(DOMAIN messageQueue[c], toServer[c], WorkedFor(c), toClient[c])'
          <=> Placed(DOMAIN messageQueue'[c], toServer'[c], WorkedFor(c)', toClient'[c])
      BY DEF Placed, CallsIn, AnsweredCalls, AnswersIn, IsNote, OnlyOnce
    <3> QED
      BY <1>1, <1>5, <3>1
  <2> QED
    BY <1>1, <1>3, <1>5, <1>6, <2>1, <2>3, <2>4 DEF CallsOk, AnswersIn, IsNote, Unsubscription, Result
<1>8. ASSUME NEW id
      PROVE  /\ Bringing(toClient[c], messageQueue[c], id)' = Bringing(toClient[c], messageQueue[c], id)
             /\ Ending(toClient[c], messageQueue[c], id)' <=> Ending(toClient[c], messageQueue[c], id)
             /\ NotesOf(toClient[c], id)' = NotesOf(toClient[c], id)
             /\ Early(c, id)' <=> Bringing(toClient[c], messageQueue[c], id) # {}
             /\ id \in emitters'[c] <=> (id \in emitters[c] \/ On(id) \in resolved[c]) /\ Off(id) \notin resolved[c]
             /\ Owns(c, id)' => Owns(c, id)
  <2>1. Bringing(toClient[c], messageQueue[c], id)' = Bringing(toClient[c], messageQueue[c], id)
    BY <1>1 DEF Bringing, AnswersIn, IsNote, Result
  <2>2. Ending(toClient[c], messageQueue[c], id)' <=> Ending(toClient[c], messageQueue[c], id)
    BY <1>1 DEF Ending, AnswersIn, IsNote, Succeeds, Unsubscription
  <2>3. NotesOf(toClient[c], id)' = NotesOf(toClient[c], id)
    BY <1>1 DEF NotesOf, IsNote
  <2>4. Early(c, id)' <=> Bringing(toClient[c], messageQueue[c], id) # {}
    BY <1>3, <2>1 DEF Early, On
  <2>5. id \in emitters'[c] <=> (id \in emitters[c] \/ On(id) \in resolved[c]) /\ Off(id) \notin resolved[c]
    BY <1>2, <1>3
  <2>6. Owns(c, id)' => Owns(c, id)
    BY <2>4, <2>5 DEF Owns, Early
  <2> QED
    BY <2>1, <2>2, <2>3, <2>4, <2>5, <2>6
<1>9. ASSUME NEW id PROVE IsEarly(c, id)'
  <2>1. IsEarly(c, id)
    BY KnownParts
  <2> QED
    BY <1>1, <1>3, <1>8, <2>1 DEF IsEarly, Early, UnchangedSubscriptions, On, Off, Unsubscription
<1>10. ASSUME NEW id PROVE IsServed(c, id)'
  <2>1. IsServed(c, id) /\ IsEarly(c, id)
    BY KnownParts
  <2>2. Hears(told[id], heard[id], missed[id], toClient[c], id)' <=> Hears(told[id], heard[id], missed[id], toClient[c], id)
    <3>1. Hears(told[id], heard[id], missed[id], toClient[c], id)' <=> Hears(told'[id], heard'[id], missed'[id], toClient'[c], id)
      BY DEF Hears, NotesOf, IsNote
    <3> QED
      BY <1>1, <3>1 DEF UnchangedSubscriptions
  <2>3. connections[c] = "open" /\ On(id) \in resolved[c] => id \in DOMAIN subscriptions
    BY <2>1 DEF IsEarly, Early
  <2> QED
    BY <1>1, <1>8, <2>1, <2>2, <2>3 DEF IsServed, UnchangedSubscriptions
<1>11. \A d \in Clients : \A id : IsAlone(d, id)'
  BY <1>1, <1>3, <1>8, AllStillAlone DEF UnchangedSubscriptions
<1> QED
  BY <1>1, <1>3, <1>4, <1>5, <1>7, <1>9, <1>10, <1>11, OneActs DEF UnchangedSubscriptions

(* A message is taken.                                                     *)

LEMMA FirstGoes ==
  ASSUME NEW s, IsList(s), s # <<>>, NEW q, NEW id
  PROVE  /\ Bringing(Tail(s), q, id) # {} <=> \E i \in Bringing(s, q, id) : i # 1
         /\ (\A i, j \in Bringing(s, q, id) : i = j) => \A i, j \in Bringing(Tail(s), q, id) : i = j
         /\ Ending(s, q, id) <=>
              \/ Ending(Tail(s), q, id)
              \/ ~IsNote(Head(s)) /\ Succeeds(Head(s).answer) /\ q[Head(s).call] = Unsubscription(id)
         /\ NotesOf(Tail(s), id) # {} => NotesOf(s, id) # {}
         /\ 1 \in Bringing(s, q, id) <=>
              ~IsNote(Head(s)) /\ q[Head(s).call].method \in SubscribableMethods /\ Head(s).answer = Result(id)
         /\ IsNote(Head(s)) => NotesOf(s, Head(s).id) # {}
<1> DEFINE r == Tail(s)
<1>1. /\ \A i : i \in AnswersIn(r) <=> i \in DOMAIN r /\ i + 1 \in AnswersIn(s)
      /\ \A i : i \in NotesOf(r, id) <=> i \in DOMAIN r /\ i + 1 \in NotesOf(s, id)
      /\ \A i : i \in Bringing(r, q, id) <=> i \in DOMAIN r /\ i + 1 \in Bringing(s, q, id)
  BY MessageGoes
<1>2. /\ \A i \in DOMAIN s : i = 1 \/ (i - 1 \in DOMAIN r /\ (i - 1) + 1 = i)
      /\ \A i \in DOMAIN r : i \in Nat /\ i + 1 \in DOMAIN s /\ i + 1 > 1 /\ r[i] = s[i + 1]
      /\ 1 \in DOMAIN s /\ s[1] = Head(s) /\ DOMAIN s \subseteq Nat
  BY MessageGoes
<1> HIDE DEF r
<1>3. 1 \in AnswersIn(s) <=> ~IsNote(Head(s))
  BY <1>2 DEF AnswersIn
<1>4. \A i \in AnswersIn(s) : i = 1 \/ (i - 1 \in AnswersIn(r) /\ r[i - 1] = s[i])
  BY <1>1, <1>2 DEF AnswersIn
<1>5. \A i \in AnswersIn(r) : i + 1 \in AnswersIn(s) /\ r[i] = s[i + 1]
  BY <1>1, <1>2
<1>6. \A i \in Bringing(s, q, id) : i = 1 \/ (i - 1 \in Bringing(r, q, id) /\ i \in AnswersIn(s))
  BY <1>1, <1>2 DEF Bringing, AnswersIn
<1>7. \A i \in Bringing(r, q, id) : i + 1 \in Bringing(s, q, id) /\ i + 1 # 1 /\ i \in Nat
  BY <1>1, <1>2
<1>8. Bringing(r, q, id) # {} <=> \E i \in Bringing(s, q, id) : i # 1
  BY <1>6, <1>7
<1>9. ASSUME \A i, j \in Bringing(s, q, id) : i = j, NEW i \in Bringing(r, q, id), NEW j \in Bringing(r, q, id) PROVE i = j
  <2>1. i + 1 = j + 1 /\ i \in Nat /\ j \in Nat
    BY <1>7, <1>9
  <2> QED
    BY <2>1
<1>10. Ending(r, q, id) => Ending(s, q, id)
  BY <1>5 DEF Ending
<1>11. Ending(s, q, id) =>
         Ending(r, q, id) \/ (~IsNote(Head(s)) /\ Succeeds(Head(s).answer) /\ q[Head(s).call] = Unsubscription(id))
  BY <1>2, <1>3, <1>4 DEF Ending
<1>12. ~IsNote(Head(s)) /\ Succeeds(Head(s).answer) /\ q[Head(s).call] = Unsubscription(id) => Ending(s, q, id)
  BY <1>2, <1>3 DEF Ending
<1>13. NotesOf(r, id) # {} => NotesOf(s, id) # {}
  BY <1>1
<1>14. 1 \in Bringing(s, q, id) <=>
         ~IsNote(Head(s)) /\ q[Head(s).call].method \in SubscribableMethods /\ Head(s).answer = Result(id)
  BY <1>2, <1>3 DEF Bringing
<1>15. IsNote(Head(s)) => NotesOf(s, Head(s).id) # {}
  BY <1>2 DEF NotesOf
<1> QED
  BY <1>8, <1>9, <1>10, <1>11, <1>12, <1>13, <1>14, <1>15 DEF r

\* What is asked of the lists of c once its first message is gone.
LEMMA ListsAfter ==
  ASSUME RpcInv, NEW c \in Clients, toClient[c] # <<>>, toClient'[c] = Tail(toClient[c]),
         UNCHANGED <<connections, toServer, sent, nextSubscription>>
  PROVE  ListsOk(c)' /\ IsMessage(Head(toClient[c]), Known)
<1>1. ListsOk(c) /\ Known' = Known
  BY KnownParts DEF Known
<1>2. /\ IsList(toClient'[c]) /\ Head(toClient[c]) = toClient[c][1] /\ 1 \in DOMAIN toClient[c]
      /\ \A i \in DOMAIN toClient'[c] : i + 1 \in DOMAIN toClient[c] /\ toClient'[c][i] = toClient[c][i + 1]
  BY <1>1, ShrunkList DEF ListsOk
<1>3. \A i \in DOMAIN toClient'[c] : IsMessage(toClient'[c][i], Known)
  BY <1>1, <1>2 DEF ListsOk
<1>4. \A message : IsMessage(message, Known)' <=> IsMessage(message, Known)
  BY <1>1 DEF IsMessage, ResponseTo, Notification
<1>5. connections[c] = "open"
  BY <1>1 DEF ListsOk
<1> QED
  BY <1>1, <1>2, <1>3, <1>4, <1>5 DEF ListsOk

LEMMA NoteStep == ASSUME RpcInv, NEW c \in Clients, OnMessage(c), IsNote(Head(toClient[c])) PROVE RpcInv'
<1> DEFINE s == toClient[c]
           q == messageQueue[c]
           note == Head(s)
           k == note.id
<1>1. /\ connections[c] = "open" /\ s # <<>> /\ toClient' = [toClient EXCEPT ![c] = Tail(s)]
      /\ UnchangedSubscriptions
      /\ UNCHANGED <<connections, toServer, messageQueue, resolved, emitters, sent, polling, underWay>>
  BY DEF OnMessage, UnchangedSubscriptions, serverVars, IsNote
<1>2. IF k \in emitters[c]
      THEN heard' = [heard EXCEPT ![k] = Append(heard[k], note.answer)] /\ missed' = missed
      ELSE missed' = [missed EXCEPT ![k] = missed[k] + 1] /\ heard' = heard
  BY DEF OnMessage, IsNote
<1>3. CallsOk(c) /\ ListsOk(c) /\ ConnectionsOk /\ ServerOk /\ IsList(s)
  BY KnownParts
<1>4. ConnectionsOk' /\ toClient'[c] = Tail(s) /\ \A d \in Clients \ {c} : Stays(d)
  BY <1>1, <1>3 DEF ConnectionsOk, Stays
<1>5. ListsOk(c)' /\ IsMessage(note, Known)
  BY <1>1, <1>4, ListsAfter DEF UnchangedSubscriptions
<1>6. k \in Known
  <2>1. ~\E n \in Nat : \E a : note = ResponseTo(n, a)
    BY ResponseShape
  <2>2. PICK id \in Known : \E nth \in Nat : \E a : note = Notification(id, a, nth)
    BY <1>5, <2>1 DEF IsMessage
  <2> QED
    BY <2>2, NotificationShape
<1>7. Known' = Known
  BY <1>1 DEF Known, UnchangedSubscriptions
<1> HIDE DEF s, q, note, k
<1>8. IsNote(note) /\ note = Head(s) /\ k = note.id
  BY DEF note, s, k
<1>9. \A id \in Known : id # k => heard'[id] = heard[id] /\ missed'[id] = missed[id]
  BY <1>2, <1>3, <1>6 DEF ServerOk
<1>10. /\ k \in emitters[c] => heard'[k] = Append(heard[k], note.answer) /\ missed'[k] = missed[k]
       /\ k \notin emitters[c] => heard'[k] = heard[k] /\ missed'[k] = missed[k] + 1
  BY <1>2, <1>3, <1>6 DEF ServerOk
<1>11. IsList(told[k]) /\ IsList(heard[k]) /\ missed[k] \in Nat
  BY <1>3, <1>6 DEF ServerOk
<1>12. ServerOk' /\ ToldOk'
  <2>1. PollingOk'
    BY <1>1, PollingStays DEF UnchangedSubscriptions
  <2>2. DOMAIN heard' = Known /\ DOMAIN missed' = Known
    BY <1>2, <1>3 DEF ServerOk
  <2>3. \A id \in Known : IsList(heard'[id]) /\ missed'[id] \in Nat
    <3>1. IsList(Append(heard[k], note.answer)) /\ missed[k] + 1 \in Nat
      BY <1>11, GrownList
    <3> QED
      BY <1>3, <1>9, <1>10, <1>11, <3>1 DEF ServerOk
  <2>4. ServerOk'
    BY <1>1, <1>3, <1>7, <2>1, <2>2, <2>3 DEF ServerOk, UnchangedSubscriptions
  <2> QED
    BY <1>1, <2>4, ToldStays
<1>13. NotesOf(s, k) # {}
  BY <1>1, <1>3, <1>8, FirstGoes
<1>14. OthersKeep(c) /\ WorkedFor(c)' = WorkedFor(c)
  <2>1. ASSUME NEW d \in Clients \ {c}, NEW id, Owns(d, id) PROVE id # k /\ id \in Known
    BY <1>13, <2>1, KnownParts DEF IsAlone, s
  <2> QED
    BY <1>1, <1>4, <1>9, <2>1 DEF OthersKeep, WorkedFor, UnchangedSubscriptions
<1>15. /\ AnswersIn(Tail(s)) \subseteq DOMAIN Tail(s)
       /\ \A i \in AnswersIn(Tail(s)) : i + 1 \in AnswersIn(s) /\ Tail(s)[i] = s[i + 1]
  BY <1>1, <1>3, MessageGoes DEF AnswersIn
<1>16. CallsOk(c)'
  <2>1. Placed(DOMAIN q, toServer[c], WorkedFor(c), Tail(s))
    <3>1. Placed(DOMAIN q, toServer[c], WorkedFor(c), s)
      BY <1>1, <1>3 DEF CallsOk, q, s
    <3> QED
      BY <1>1, <1>3, <1>8, <3>1, PlacedAfter
  <2>2. Placed(DOMAIN messageQueue[c], toServer[c], WorkedFor(c), toClient[c])'
    <3>1. Placed(DOMAIN messageQueue[c], toServer[c], WorkedFor(c), toClient[c])'
          <=> Placed(DOMAIN messageQueue'[c], toServer'[c], WorkedFor(c)', toClient'[c])
      BY DEF Placed, CallsIn, AnsweredCalls, AnswersIn, IsNote, OnlyOnce
    <3> QED
      BY <1>1, <1>4, <1>14, <2>1, <3>1 DEF q
  <2>3. \A i \in AnswersIn(Tail(s)) :
          q[Tail(s)[i].call].method \in SubscribableMethods => \E id \in Known : Tail(s)[i].answer = Result(id)
    BY <1>1, <1>3, <1>15 DEF CallsOk, s, q
  <2> QED
    BY <1>1, <1>3, <1>4, <1>5, <1>7, <1>14, <2>2, <2>3 DEF CallsOk, AnswersIn, IsNote, Unsubscription, Result, q
<1>17. ASSUME NEW id
       PROVE  /\ Bringing(toClient[c], messageQueue[c], id)' = Bringing(Tail(s), q, id)
              /\ Bringing(Tail(s), q, id) # {} <=> Bringing(s, q, id) # {}
              /\ (\A i, j \in Bringing(s, q, id) : i = j) => \A i, j \in Bringing(Tail(s), q, id) : i = j
              /\ Ending(toClient[c], messageQueue[c], id)' <=> Ending(s, q, id)
              /\ NotesOf(toClient[c], id)' # {} => NotesOf(s, id) # {}
              /\ Early(c, id)' <=> Early(c, id)
              /\ Owns(c, id)' <=> Owns(c, id)
  <2>1. Bringing(toClient[c], messageQueue[c], id)' = Bringing(Tail(s), q, id)
    BY <1>1, <1>4 DEF Bringing, AnswersIn, IsNote, Result, q
  <2>2. Ending(toClient[c], messageQueue[c], id)' <=> Ending(Tail(s), q, id)
    BY <1>1, <1>4 DEF Ending, AnswersIn, IsNote, Succeeds, Unsubscription, q
  <2>3. NotesOf(toClient[c], id)' = NotesOf(Tail(s), id)
    BY <1>4 DEF NotesOf, IsNote
  <2>4. /\ Bringing(Tail(s), q, id) # {} <=> \E i \in Bringing(s, q, id) : i # 1
        /\ (\A i, j \in Bringing(s, q, id) : i = j) => \A i, j \in Bringing(Tail(s), q, id) : i = j
        /\ Ending(s, q, id) <=> Ending(Tail(s), q, id)
        /\ NotesOf(Tail(s), id) # {} => NotesOf(s, id) # {}
        /\ 1 \notin Bringing(s, q, id)
    BY <1>1, <1>3, <1>8, FirstGoes
  <2>5. Bringing(Tail(s), q, id) # {} <=> Bringing(s, q, id) # {}
    BY <2>4
  <2>6. Early(c, id)' <=> Early(c, id)
    BY <1>1, <2>1, <2>5 DEF Early, On, s, q
  <2>7. Owns(c, id)' <=> Owns(c, id)
    BY <1>1, <2>6 DEF Owns
  <2> QED
    BY <2>1, <2>2, <2>3, <2>4, <2>5, <2>6, <2>7
<1>18. ASSUME NEW id PROVE IsEarly(c, id)'
  <2>1. IsEarly(c, id) /\ IsAlone(c, id)
    BY KnownParts
  <2>2. Early(c, id) => heard'[id] = heard[id]
    BY <1>9, <1>10, <2>1 DEF IsEarly, IsAlone, Owns
  <2> QED
    BY <1>1, <1>17, <2>1, <2>2 DEF IsEarly, UnchangedSubscriptions, On, Off, Unsubscription, s, q
<1>19. ASSUME NEW id PROVE IsServed(c, id)'
  <2>1. IsServed(c, id) /\ IsEarly(c, id)
    BY KnownParts
  <2>2. Owns(c, id) => Hears(told[id], heard'[id], missed'[id], Tail(s), id)
    <3>1. SUFFICES ASSUME Owns(c, id) PROVE Hears(told[id], heard'[id], missed'[id], Tail(s), id)
      OBVIOUS
    <3>2. Hears(told[id], heard[id], missed[id], s, id)
      BY <1>1, <2>1, <3>1 DEF IsServed, s
    <3>3. CASE id # k
      <4>1. Hears(told[id], heard[id], missed[id], Tail(s), id)
        BY <1>1, <1>3, <1>8, <3>2, <3>3, HearsRest
      <4>2. id \in Known
        BY <3>1, KnownParts DEF IsAlone
      <4> QED
        BY <1>9, <3>3, <4>1, <4>2
    <3>4. CASE id = k
      <4>1. /\ Hears(told[k], Append(heard[k], note.answer), missed[k], Tail(s), k)
            /\ heard[k] = <<>> => Hears(told[k], heard[k], missed[k] + 1, Tail(s), k)
        BY <1>1, <1>3, <1>8, <1>11, <3>2, <3>4, HearsNext
      <4>2. k \notin emitters[c] => heard[k] = <<>>
        BY <2>1, <3>1, <3>4 DEF Owns, IsEarly
      <4> QED
        BY <1>10, <3>4, <4>1, <4>2
    <3> QED
      BY <3>3, <3>4
  <2>3. Hears(told[id], heard[id], missed[id], toClient[c], id)' <=> Hears(told[id], heard'[id], missed'[id], Tail(s), id)
    <3>1. Hears(told[id], heard[id], missed[id], toClient[c], id)' <=> Hears(told'[id], heard'[id], missed'[id], toClient'[c], id)
      BY DEF Hears, NotesOf, IsNote
    <3> QED
      BY <1>1, <1>4, <3>1 DEF UnchangedSubscriptions
  <2> QED
    BY <1>1, <1>17, <2>1, <2>2, <2>3 DEF IsServed, UnchangedSubscriptions, Off, s, q
<1>20. \A d \in Clients : \A id : IsAlone(d, id)'
  <2>1. \A id : (Owns(c, id)' => Owns(c, id)) /\ (NotesOf(toClient[c], id)' # {} => NotesOf(toClient[c], id) # {})
    BY <1>17 DEF s
  <2> QED
    BY <1>1, <1>4, <2>1, AllStillAlone DEF UnchangedSubscriptions
<1> QED
  BY <1>1, <1>4, <1>12, <1>14, <1>16, <1>18, <1>19, <1>20, OneActs DEF UnchangedSubscriptions

LEMMA AnswerStep == ASSUME RpcInv, NEW c \in Clients, OnMessage(c), ~IsNote(Head(toClient[c])) PROVE RpcInv'
<1> DEFINE s == toClient[c]
           q == messageQueue[c]
           message == Head(s)
           n == message.call
           a == message.answer
           r == [k \in DOMAIN q \ {n} |-> q[k]]
           R == IF "error" \in DOMAIN a THEN resolved[c]
                ELSE IF q[n].method \in SubscribableMethods THEN resolved[c] \cup {On(a.result)}
                ELSE IF q[n].method = "unsubscribe" THEN resolved[c] \cup {Off(q[n].params)} ELSE resolved[c]
<1>1. /\ connections[c] = "open" /\ s # <<>> /\ toClient' = [toClient EXCEPT ![c] = Tail(s)]
      /\ UnchangedSubscriptions
      /\ UNCHANGED <<connections, toServer, heard, missed, emitters, sent, polling, underWay>>
  BY DEF OnMessage, UnchangedSubscriptions, serverVars, IsNote
<1>2. messageQueue' = [messageQueue EXCEPT ![c] = r] /\ resolved' = [resolved EXCEPT ![c] = R]
  BY DEF OnMessage, IsNote, On, Off
<1>3. CallsOk(c) /\ ListsOk(c) /\ ConnectionsOk /\ IsList(s)
  BY KnownParts
<1>4. ConnectionsOk' /\ toClient'[c] = Tail(s) /\ messageQueue'[c] = r /\ resolved'[c] = R /\ \A d \in Clients \ {c} : Stays(d)
  BY <1>1, <1>2, <1>3 DEF ConnectionsOk, Stays
<1>5. ListsOk(c)' /\ IsMessage(message, Known)
  BY <1>1, <1>4, ListsAfter DEF UnchangedSubscriptions
<1>6. ~IsNote(message) /\ message = Head(s) /\ n = message.call /\ a = message.answer
  OBVIOUS
<1>7. Known' = Known
  BY <1>1 DEF Known, UnchangedSubscriptions
<1>8. DOMAIN r = DOMAIN q \ {n} /\ \A k \in DOMAIN r : r[k] = q[k]
  OBVIOUS
<1>9. Succeeds(a) <=> "error" \notin DOMAIN a
  BY DEF Succeeds
<1> HIDE DEF s, q, message, n, a, r
<1>10. Placed(DOMAIN q, toServer[c], WorkedFor(c), s)
  BY <1>1, <1>3 DEF CallsOk, q, s
<1>11. Placed(DOMAIN r, toServer[c], WorkedFor(c), Tail(s)) /\ n \in DOMAIN q
  BY <1>1, <1>3, <1>6, <1>8, <1>10, PlacedAfter
<1>12. 1 \in AnswersIn(s) /\ s[1] = message
  <2>1. 1 \in DOMAIN s /\ s[1] = Head(s)
    BY <1>1, <1>3, ShrunkList
  <2> QED
    BY <1>6, <2>1 DEF AnswersIn
<1>13. q[n].method \in SubscribableMethods => \E id \in Known : a = Result(id)
  BY <1>1, <1>3, <1>6, <1>12 DEF CallsOk, s, q
<1>14. q[n].method = "unsubscribe" => \E id \in Known : q[n] = Unsubscription(id)
  BY <1>3, <1>11 DEF CallsOk, q
<1>15. "unsubscribe" \notin SubscribableMethods
  BY DEF SubscribableMethods
<1>16. \A id : Unsubscription(id).method = "unsubscribe" /\ Unsubscription(id).params = id
  BY DEF Unsubscription
<1>17. \A x, y : (On(x) = On(y) => x = y) /\ (Off(x) = Off(y) => x = y) /\ On(x) # Off(y)
  <2>1. \A x : On(x).id = x /\ Off(x).id = x /\ On(x).on = TRUE /\ Off(x).on = FALSE
    BY DEF On, Off
  <2> QED
    BY <2>1
\* What is made known.
<1>18. /\ \A id : On(id) \in R <=> On(id) \in resolved[c] \/ (q[n].method \in SubscribableMethods /\ a = Result(id))
       /\ \A id : Off(id) \in R <=> Off(id) \in resolved[c] \/ (q[n] = Unsubscription(id) /\ Succeeds(a))
       /\ R \subseteq resolved[c] \cup {On(id) : id \in Known} \cup {Off(id) : id \in Known}
  <2>1. CASE q[n].method \in SubscribableMethods
    <3>1. PICK x \in Known : a = Result(x)
      BY <1>13, <2>1
    <3>2. "error" \notin DOMAIN a /\ a.result = x /\ \A id : a = Result(id) <=> id = x
      BY <3>1, AnswerShape
    <3>3. R = resolved[c] \cup {On(x)}
      BY <2>1, <3>2
    <3>4. \A id : q[n] # Unsubscription(id)
      BY <1>15, <1>16, <2>1
    <3> QED
      BY <1>17, <2>1, <3>2, <3>3, <3>4
  <2>2. CASE q[n].method = "unsubscribe"
    <3>1. PICK x \in Known : q[n] = Unsubscription(x)
      BY <1>14, <2>2
    <3>2. q[n].params = x /\ \A id : q[n] = Unsubscription(id) <=> id = x
      BY <1>16, <3>1
    <3>3. R = IF Succeeds(a) THEN resolved[c] \cup {Off(x)} ELSE resolved[c]
      BY <1>9, <1>15, <2>2, <3>2
    <3> QED
      BY <1>15, <1>17, <2>2, <3>2, <3>3
  <2>3. CASE q[n].method \notin SubscribableMethods /\ q[n].method # "unsubscribe"
    <3>1. R = resolved[c] /\ \A id : q[n] # Unsubscription(id)
      BY <1>16, <2>3
    <3> QED
      BY <2>3, <3>1
  <2> QED
    BY <2>1, <2>2, <2>3
<1> HIDE DEF R
<1>19. ServerOk' /\ ToldOk'
  <2>1. PollingOk'
    BY <1>1, PollingStays DEF UnchangedSubscriptions
  <2> QED
    BY <1>1, <2>1, ServerStays, ToldStays
<1>20. OthersKeep(c) /\ WorkedFor(c)' = WorkedFor(c)
  BY <1>1, <1>4 DEF OthersKeep, WorkedFor, UnchangedSubscriptions
<1>21. \A i \in AnswersIn(Tail(s)) : i + 1 \in AnswersIn(s) /\ Tail(s)[i] = s[i + 1] /\ Tail(s)[i].call \in DOMAIN r
  <2>1. \A i \in AnswersIn(Tail(s)) : i + 1 \in AnswersIn(s) /\ Tail(s)[i] = s[i + 1]
    BY <1>1, <1>3, MessageGoes DEF AnswersIn
  <2>2. \A i \in AnswersIn(Tail(s)) : Tail(s)[i].call \in DOMAIN r
    BY <1>11 DEF Placed, AnsweredCalls
  <2> QED
    BY <2>1, <2>2
<1>22. /\ \A i \in DOMAIN toServer[c] : toServer[c][i].call \in DOMAIN r
       /\ \A k \in WorkedFor(c) : k \in DOMAIN r
  BY <1>11 DEF Placed, CallsIn
<1>23. CallsOk(c)'
  <2>1. Placed(DOMAIN messageQueue[c], toServer[c], WorkedFor(c), toClient[c])'
    <3>1. Placed(DOMAIN messageQueue[c], toServer[c], WorkedFor(c), toClient[c])'
          <=> Placed(DOMAIN messageQueue'[c], toServer'[c], WorkedFor(c)', toClient'[c])
      BY DEF Placed, CallsIn, AnsweredCalls, AnswersIn, IsNote, OnlyOnce
    <3> QED
      BY <1>1, <1>4, <1>11, <1>20, <3>1
  <2>2. \A i \in AnswersIn(Tail(s)) :
          r[Tail(s)[i].call].method \in SubscribableMethods => \E id \in Known : Tail(s)[i].answer = Result(id)
    <3>1. \A j \in AnswersIn(s) : q[s[j].call].method \in SubscribableMethods => \E id \in Known : s[j].answer = Result(id)
      BY <1>1, <1>3 DEF CallsOk, s, q
    <3>2. ASSUME NEW i \in AnswersIn(Tail(s)), r[Tail(s)[i].call].method \in SubscribableMethods
          PROVE  \E id \in Known : Tail(s)[i].answer = Result(id)
      <4>1. i + 1 \in AnswersIn(s) /\ Tail(s)[i] = s[i + 1]
        BY <1>21
      <4>2. r[Tail(s)[i].call] = q[Tail(s)[i].call]
        BY <1>8, <1>21
      <4>3. q[s[i + 1].call].method \in SubscribableMethods
        BY <3>2, <4>1, <4>2
      <4>4. PICK id \in Known : s[i + 1].answer = Result(id)
        BY <3>1, <4>1, <4>3
      <4> QED
        BY <4>1, <4>4
    <3> QED
      BY <3>2
  <2>3. \A i \in DOMAIN toServer[c] :
          toServer[c][i].method = r[toServer[c][i].call].method /\ toServer[c][i].params = r[toServer[c][i].call].params
    BY <1>1, <1>3, <1>8, <1>22 DEF CallsOk, q
  <2>4. \A k \in WorkedFor(c) : r[k].method = "refineWorkPackage"
    BY <1>1, <1>3, <1>8, <1>22 DEF CallsOk, q
  <2>5. \A k \in DOMAIN r : r[k].method = "unsubscribe" => \E id \in Known : r[k] = Unsubscription(id)
    BY <1>3, <1>8 DEF CallsOk, q
  <2>6. DOMAIN r \subseteq 1..sent[c]
    BY <1>3, <1>8 DEF CallsOk, q
  <2>7. R \subseteq [id : Known, on : BOOLEAN]
    <3>1. \A id \in Known : On(id) \in [id : Known, on : BOOLEAN] /\ Off(id) \in [id : Known, on : BOOLEAN]
      BY DEF On, Off
    <3>2. resolved[c] \subseteq [id : Known, on : BOOLEAN]
      BY <1>3 DEF CallsOk
    <3> QED
      BY <1>18, <3>1, <3>2
  <2>8. /\ \A i \in AnswersIn(toClient[c])' :
            messageQueue'[c][toClient'[c][i].call].method \in SubscribableMethods =>
              \E id \in Known' : toClient'[c][i].answer = Result(id)'
        /\ \A i \in DOMAIN toServer'[c] :
            /\ toServer'[c][i].method = messageQueue'[c][toServer'[c][i].call].method
            /\ toServer'[c][i].params = messageQueue'[c][toServer'[c][i].call].params
    <3>1. AnswersIn(toClient[c])' = AnswersIn(Tail(s))
      BY <1>4 DEF AnswersIn, IsNote
    <3>2. \A id : Result(id)' = Result(id)
      BY DEF Result
    <3> QED
      BY <1>1, <1>4, <1>7, <2>2, <2>3, <3>1, <3>2
  <2>9. /\ DOMAIN messageQueue'[c] \subseteq 1..sent'[c] /\ resolved'[c] \subseteq [id : Known', on : BOOLEAN]
        /\ \A k \in WorkedFor(c)' : messageQueue'[c][k].method = "refineWorkPackage"
        /\ \A k \in DOMAIN messageQueue'[c] :
             messageQueue'[c][k].method = "unsubscribe" => \E id \in Known' : messageQueue'[c][k] = Unsubscription(id)'
    <3>1. \A id : Unsubscription(id)' = Unsubscription(id)
      BY DEF Unsubscription
    <3> QED
      BY <1>1, <1>4, <1>7, <1>20, <2>4, <2>5, <2>6, <2>7, <3>1
  <2> QED
    BY <1>5, <2>1, <2>8, <2>9 DEF CallsOk
<1>24. ASSUME NEW id
       PROVE  /\ Bringing(toClient[c], messageQueue[c], id)' = Bringing(Tail(s), q, id)
              /\ Bringing(Tail(s), q, id) # {} <=> \E i \in Bringing(s, q, id) : i # 1
              /\ 1 \in Bringing(s, q, id) <=> q[n].method \in SubscribableMethods /\ a = Result(id)
              /\ (\A i, j \in Bringing(s, q, id) : i = j) => \A i, j \in Bringing(Tail(s), q, id) : i = j
              /\ Ending(s, q, id) => Ending(toClient[c], messageQueue[c], id)' \/ Off(id) \in R
              /\ NotesOf(toClient[c], id)' # {} => NotesOf(s, id) # {}
              /\ Early(c, id)' <=> Early(c, id)
              /\ Owns(c, id)' <=> Owns(c, id)
  <2>1. Bringing(Tail(s), r, id) = Bringing(Tail(s), q, id) /\ (Ending(Tail(s), r, id) <=> Ending(Tail(s), q, id))
    BY <1>8, <1>21, QueueMatters
  <2>2. Bringing(toClient[c], messageQueue[c], id)' = Bringing(Tail(s), r, id)
    BY <1>4 DEF Bringing, AnswersIn, IsNote, Result
  <2>3. Ending(toClient[c], messageQueue[c], id)' <=> Ending(Tail(s), r, id)
    BY <1>4 DEF Ending, AnswersIn, IsNote, Succeeds, Unsubscription
  <2>4. NotesOf(toClient[c], id)' = NotesOf(Tail(s), id)
    BY <1>4 DEF NotesOf, IsNote
  <2>5. /\ Bringing(Tail(s), q, id) # {} <=> \E i \in Bringing(s, q, id) : i # 1
        /\ (\A i, j \in Bringing(s, q, id) : i = j) => \A i, j \in Bringing(Tail(s), q, id) : i = j
        /\ Ending(s, q, id) <=> Ending(Tail(s), q, id) \/ (Succeeds(a) /\ q[n] = Unsubscription(id))
        /\ NotesOf(Tail(s), id) # {} => NotesOf(s, id) # {}
        /\ 1 \in Bringing(s, q, id) <=> q[n].method \in SubscribableMethods /\ a = Result(id)
    BY <1>1, <1>3, <1>6, FirstGoes
  <2>6. Early(c, id)' <=> Bringing(Tail(s), q, id) # {} \/ On(id) \in R
    BY <1>4, <2>1, <2>2 DEF Early, On
  <2>7. Early(c, id) <=> Bringing(s, q, id) # {} \/ On(id) \in resolved[c]
    BY DEF Early, s, q
  <2>8. Early(c, id)' <=> Early(c, id)
    BY <1>18, <2>5, <2>6, <2>7
  <2>9. Owns(c, id)' <=> Owns(c, id)
    BY <1>1, <2>8 DEF Owns
  <2> QED
    BY <1>18, <2>1, <2>2, <2>3, <2>4, <2>5, <2>8, <2>9
<1>25. ASSUME NEW id PROVE IsEarly(c, id)'
  <2>1. IsEarly(c, id)
    BY KnownParts
  <2>2. SUFFICES ASSUME Early(c, id)
                 PROVE  /\ id \notin emitters'[c] /\ heard'[id] = <<>> /\ Off(id) \notin R
                        /\ \A k \in DOMAIN r : r[k] # Unsubscription(id)
                        /\ \A i, j \in Bringing(Tail(s), q, id) : i = j
                        /\ Bringing(Tail(s), q, id) = {} \/ On(id) \notin R
                        /\ connections'[c] = "open" => id \in DOMAIN subscriptions'
    BY <1>4, <1>24 DEF IsEarly, On, Off, Unsubscription
  <2>3. /\ id \notin emitters[c] /\ heard[id] = <<>> /\ Off(id) \notin resolved[c]
        /\ \A k \in DOMAIN q : q[k] # Unsubscription(id)
        /\ \A i, j \in Bringing(s, q, id) : i = j
        /\ Bringing(s, q, id) = {} \/ On(id) \notin resolved[c]
        /\ connections[c] = "open" => id \in DOMAIN subscriptions
    BY <2>1, <2>2 DEF IsEarly, s, q
  <2>4. Off(id) \notin R
    BY <1>11, <1>18, <2>3
  <2>5. Bringing(Tail(s), q, id) = {} \/ On(id) \notin R
    <3>1. SUFFICES ASSUME On(id) \in R, Bringing(Tail(s), q, id) # {} PROVE FALSE
      OBVIOUS
    <3>2. PICK i \in Bringing(s, q, id) : i # 1
      BY <1>24, <3>1
    <3>3. 1 \in Bringing(s, q, id)
      BY <1>18, <1>24, <2>3, <3>1, <3>2
    <3> QED
      BY <2>3, <3>2, <3>3
  <2> QED
    BY <1>1, <1>8, <1>24, <2>3, <2>4, <2>5 DEF UnchangedSubscriptions
<1>26. ASSUME NEW id PROVE IsServed(c, id)'
  <2>1. IsServed(c, id)
    BY KnownParts
  <2>2. Owns(c, id) => Hears(told[id], heard[id], missed[id], Tail(s), id)
    <3>1. Owns(c, id) => Hears(told[id], heard[id], missed[id], s, id)
      BY <1>1, <2>1 DEF IsServed, s
    <3> QED
      BY <1>1, <1>3, <1>6, <3>1, HearsRest
  <2>3. Hears(told[id], heard[id], missed[id], toClient[c], id)' <=> Hears(told[id], heard[id], missed[id], Tail(s), id)
    <3>1. Hears(told[id], heard[id], missed[id], toClient[c], id)' <=> Hears(told'[id], heard'[id], missed'[id], toClient'[c], id)
      BY DEF Hears, NotesOf, IsNote
    <3> QED
      BY <1>1, <1>4, <3>1 DEF UnchangedSubscriptions
  <2>4. id \in emitters[c] => \/ id \in DOMAIN subscriptions
                              \/ Ending(toClient[c], messageQueue[c], id)'
                              \/ Off(id) \in R
    BY <1>1, <1>18, <1>24, <2>1 DEF IsServed, s, q
  <2> QED
    BY <1>1, <1>4, <1>24, <2>2, <2>3, <2>4 DEF IsServed, UnchangedSubscriptions, Off
<1>27. \A d \in Clients : \A id : IsAlone(d, id)'
  <2>1. \A id : (Owns(c, id)' => Owns(c, id)) /\ (NotesOf(toClient[c], id)' # {} => NotesOf(toClient[c], id) # {})
    BY <1>24 DEF s
  <2> QED
    BY <1>1, <1>4, <2>1, AllStillAlone DEF UnchangedSubscriptions
<1> QED
  BY <1>1, <1>4, <1>19, <1>20, <1>23, <1>25, <1>26, <1>27, OneActs DEF UnchangedSubscriptions

------------------------------------------------------------------------------
(* The server.                                                             *)

\* The server sends an answer to c: what c waits for is one answer nearer.
LEMMA AnswerPlaced ==
  ASSUME RpcInv, NEW c \in Clients, NEW n \in Nat, NEW a, toClient' = SendMessage(c, ResponseTo(n, a)),
         UNCHANGED <<connections, messageQueue, resolved, sent>>,
         nextSubscription' \in {nextSubscription, nextSubscription + 1},
         IsList(toServer'[c]), \A i \in DOMAIN toServer'[c] : \E j \in DOMAIN toServer[c] : toServer'[c][i] = toServer[c][j],
         WorkedFor(c)' \subseteq WorkedFor(c),
         connections[c] = "open" =>
           /\ Placed(DOMAIN messageQueue[c], toServer'[c], WorkedFor(c)', Append(toClient[c], ResponseTo(n, a)))
           /\ messageQueue[c][n].method \in SubscribableMethods => \E id \in Known' : a = Result(id)
  PROVE  CallsOk(c)'
<1> DEFINE x == ResponseTo(n, a)
           s == toClient[c]
           q == messageQueue[c]
<1>1. CallsOk(c) /\ ListsOk(c) /\ IsList(s) /\ ConnectionsOk /\ nextSubscription \in Nat
  BY KnownParts
<1>2. Known \subseteq Known'
  BY <1>1, MoreKnown DEF Known
<1>3. toClient'[c] = IF connections[c] = "open" THEN Append(s, x) ELSE s
  BY <1>1 DEF SendMessage, ConnectionsOk
<1>4. ~IsNote(x) /\ x.call = n /\ x.answer = a
  BY ResponseShape
<1>5. IsMessage(x, Known')
  BY DEF IsMessage
<1> HIDE DEF x, s, q
<1>6. \A message : /\ IsMessage(message, Known)' <=> IsMessage(message, Known')
                   /\ IsMessage(message, Known) => IsMessage(message, Known')
  BY <1>2 DEF IsMessage, ResponseTo, Notification
<1>7. \A i \in DOMAIN s : IsMessage(s[i], Known')
  BY <1>1, <1>6 DEF ListsOk, s
<1>8. ListsOk(c)'
  <2>1. \A i \in DOMAIN toServer'[c] : toServer'[c][i].call \in Nat
    BY <1>1 DEF ListsOk
  <2>2. IsList(toClient'[c]) /\ \A i \in DOMAIN toClient'[c] : IsMessage(toClient'[c][i], Known')
    <3>1. CASE connections[c] = "open"
      <4>1. /\ IsList(Append(s, x)) /\ DOMAIN Append(s, x) = DOMAIN s \cup {Len(s) + 1}
            /\ Append(s, x)[Len(s) + 1] = x /\ \A i \in DOMAIN s : Append(s, x)[i] = s[i]
        BY <1>1, GrownList
      <4> QED
        BY <1>3, <1>5, <1>7, <3>1, <4>1
    <3>2. CASE connections[c] # "open"
      BY <1>1, <1>3, <1>7, <3>2
    <3> QED
      BY <3>1, <3>2
  <2>3. connections'[c] # "open" => toClient'[c] = <<>>
    BY <1>1, <1>3 DEF ListsOk, s
  <2> QED
    BY <1>1, <1>6, <2>1, <2>2, <2>3 DEF ListsOk
<1>9. /\ DOMAIN messageQueue'[c] \subseteq 1..sent'[c] /\ resolved'[c] \subseteq [id : Known', on : BOOLEAN]
      /\ \A k \in DOMAIN messageQueue'[c] :
           messageQueue'[c][k].method = "unsubscribe" => \E id \in Known' : messageQueue'[c][k] = Unsubscription(id)'
  <2>1. \A id : Unsubscription(id)' = Unsubscription(id)
    BY DEF Unsubscription
  <2> QED
    BY <1>1, <1>2, <2>1 DEF CallsOk
<1>10. ASSUME connections[c] = "open"
       PROVE  /\ Placed(DOMAIN messageQueue[c], toServer[c], WorkedFor(c), toClient[c])'
              /\ \A i \in DOMAIN toServer'[c] :
                   /\ toServer'[c][i].method = messageQueue'[c][toServer'[c][i].call].method
                   /\ toServer'[c][i].params = messageQueue'[c][toServer'[c][i].call].params
              /\ \A k \in WorkedFor(c)' : messageQueue'[c][k].method = "refineWorkPackage"
              /\ \A i \in AnswersIn(toClient[c])' :
                   messageQueue'[c][toClient'[c][i].call].method \in SubscribableMethods =>
                     \E id \in Known' : toClient'[c][i].answer = Result(id)'
  <2>1. toClient'[c] = Append(s, x)
    BY <1>3, <1>10
  <2>2. Placed(DOMAIN messageQueue[c], toServer[c], WorkedFor(c), toClient[c])'
    <3>1. Placed(DOMAIN messageQueue[c], toServer[c], WorkedFor(c), toClient[c])'
          <=> Placed(DOMAIN messageQueue'[c], toServer'[c], WorkedFor(c)', toClient'[c])
      BY DEF Placed, CallsIn, AnsweredCalls, AnswersIn, IsNote, OnlyOnce
    <3> QED
      BY <1>10, <2>1, <3>1 DEF x, s
  <2>3. \A j \in DOMAIN toServer[c] :
          /\ toServer[c][j].method = messageQueue[c][toServer[c][j].call].method
          /\ toServer[c][j].params = messageQueue[c][toServer[c][j].call].params
    BY <1>1, <1>10 DEF CallsOk
  <2>4. \A k \in WorkedFor(c) : messageQueue[c][k].method = "refineWorkPackage"
    BY <1>1, <1>10 DEF CallsOk
  <2>5. \A i \in AnswersIn(s) : q[s[i].call].method \in SubscribableMethods => \E id \in Known : s[i].answer = Result(id)
    BY <1>1, <1>10 DEF CallsOk, s, q
  <2>6. /\ AnswersIn(Append(s, x)) = AnswersIn(s) \cup {Len(s) + 1}
        /\ Append(s, x)[Len(s) + 1] = x /\ \A i \in AnswersIn(s) : Append(s, x)[i] = s[i]
    <3>1. AnswersIn(Append(s, x)) = AnswersIn(s) \cup {Len(s) + 1}
      BY <1>1, <1>4, AnswerComes
    <3> QED
      BY <1>1, <3>1, GrownList DEF AnswersIn
  <2>7. ASSUME NEW i \in AnswersIn(Append(s, x)), q[Append(s, x)[i].call].method \in SubscribableMethods
        PROVE  \E id \in Known' : Append(s, x)[i].answer = Result(id)
    <3>1. CASE i \in AnswersIn(s)
      BY <1>2, <2>5, <2>6, <2>7, <3>1
    <3>2. CASE i = Len(s) + 1
      BY <1>4, <1>10, <2>6, <2>7, <3>2 DEF q
    <3> QED
      BY <2>6, <3>1, <3>2
  <2>8. /\ AnswersIn(toClient[c])' = AnswersIn(Append(s, x)) /\ \A id : Result(id)' = Result(id)
        /\ messageQueue'[c] = q
    BY <2>1 DEF AnswersIn, IsNote, Result, q
  <2>9. \A i \in AnswersIn(toClient[c])' :
          messageQueue'[c][toClient'[c][i].call].method \in SubscribableMethods =>
            \E id \in Known' : toClient'[c][i].answer = Result(id)'
    BY <2>1, <2>7, <2>8
  <2> QED
    BY <2>2, <2>3, <2>4, <2>9
<1> QED
  BY <1>8, <1>9, <1>10 DEF CallsOk

\* The answer makes no subscription.
LEMMA AnswerSent ==
  ASSUME RpcInv, NEW c \in Clients, NEW n \in Nat, NEW a, toClient' = SendMessage(c, ResponseTo(n, a)),
         UNCHANGED <<connections, messageQueue, resolved, emitters, sent, told, heard, missed, nextSubscription>>,
         \A d \in Clients \ {c} : toServer'[d] = toServer[d] /\ WorkedFor(d)' = WorkedFor(d),
         connections[c] = "open" => n \in DOMAIN messageQueue[c] /\ messageQueue[c][n].method \notin SubscribableMethods,
         DOMAIN subscriptions' \subseteq DOMAIN subscriptions,
         \A id \in DOMAIN subscriptions' : subscriptions'[id] = subscriptions[id],
         \A id \in DOMAIN subscriptions \ DOMAIN subscriptions' :
           subscriptions[id].ws = c /\ (connections[c] = "open" => Succeeds(a) /\ messageQueue[c][n] = Unsubscription(id)),
         ConnectionsOk', ServerOk', ToldOk', CallsOk(c)'
  PROVE  RpcInv'
<1> DEFINE x == ResponseTo(n, a)
           s == toClient[c]
           q == messageQueue[c]
<1>1. ListsOk(c) /\ IsList(s) /\ ConnectionsOk
  BY KnownParts
<1>2. /\ toClient'[c] = IF connections[c] = "open" THEN Append(s, x) ELSE s
      /\ \A d \in Clients \ {c} : toClient'[d] = toClient[d]
  BY <1>1 DEF SendMessage, ConnectionsOk
<1>3. ~IsNote(x) /\ x.call = n /\ x.answer = a
  BY ResponseShape
<1> HIDE DEF x, s, q
<1>4. \A d \in Clients \ {c} : Stays(d)
  BY <1>2 DEF Stays
<1>5. OthersKeep(c)
  <2>1. ASSUME NEW d \in Clients \ {c}, NEW id, Owns(d, id), id \in DOMAIN subscriptions PROVE id \in DOMAIN subscriptions'
    <3>1. subscriptions[id].ws = d
      BY <2>1, KnownParts DEF IsAlone
    <3> QED
      BY <2>1, <3>1
  <2> QED
    BY <1>4, <2>1 DEF OthersKeep
<1>6. ASSUME NEW id
      PROVE  /\ Bringing(toClient[c], messageQueue[c], id)' = Bringing(s, q, id)
             /\ Ending(s, q, id) => Ending(toClient[c], messageQueue[c], id)'
             /\ connections[c] = "open" /\ Succeeds(a) /\ q[n] = Unsubscription(id) =>
                  Ending(toClient[c], messageQueue[c], id)'
             /\ NotesOf(toClient[c], id)' = NotesOf(s, id)
             /\ Early(c, id)' <=> Early(c, id)
             /\ Owns(c, id)' <=> Owns(c, id)
  <2>1. Bringing(toClient[c], messageQueue[c], id)' = Bringing(toClient'[c], q, id)
    BY DEF Bringing, AnswersIn, IsNote, Result, q
  <2>2. Ending(toClient[c], messageQueue[c], id)' <=> Ending(toClient'[c], q, id)
    BY DEF Ending, AnswersIn, IsNote, Succeeds, Unsubscription, q
  <2>3. NotesOf(toClient[c], id)' = NotesOf(toClient'[c], id)
    BY DEF NotesOf, IsNote
  <2>4. CASE connections[c] = "open"
    <3>1. /\ NotesOf(Append(s, x), id) = NotesOf(s, id)
          /\ Bringing(Append(s, x), q, id) = Bringing(s, q, id)
               \cup {i \in {Len(s) + 1} : q[x.call].method \in SubscribableMethods /\ x.answer = Result(id)}
          /\ Ending(Append(s, x), q, id) <=>
               Ending(s, q, id) \/ (Succeeds(x.answer) /\ q[x.call] = Unsubscription(id))
      BY <1>1, <1>3, AnswerComes
    <3>2. q[n].method \notin SubscribableMethods
      BY <2>4 DEF q
    <3>3. Bringing(Append(s, x), q, id) = Bringing(s, q, id)
      BY <1>3, <3>1, <3>2
    <3>4. Early(c, id)' <=> Early(c, id)
      BY <1>2, <2>1, <2>4, <3>3 DEF Early, On, s, q
    <3>5. Owns(c, id)' <=> Owns(c, id)
      BY <3>4 DEF Owns
    <3> QED
      BY <1>2, <1>3, <2>1, <2>2, <2>3, <2>4, <3>1, <3>3, <3>4, <3>5
  <2>5. CASE connections[c] # "open"
    <3>1. Early(c, id)' <=> Early(c, id)
      BY <1>2, <2>1, <2>5 DEF Early, On, s, q
    <3>2. Owns(c, id)' <=> Owns(c, id)
      BY <3>1 DEF Owns
    <3> QED
      BY <1>2, <2>1, <2>2, <2>3, <2>5, <3>1, <3>2
  <2> QED
    BY <2>4, <2>5
<1>7. ASSUME NEW id PROVE IsEarly(c, id)'
  <2>1. IsEarly(c, id) /\ IsAlone(c, id)
    BY KnownParts
  <2>2. ASSUME Early(c, id), connections[c] = "open" PROVE id \in DOMAIN subscriptions'
    BY <2>1, <2>2 DEF IsEarly
  <2> QED
    BY <1>6, <2>1, <2>2 DEF IsEarly, On, Off, Unsubscription, s, q
<1>8. ASSUME NEW id PROVE IsServed(c, id)'
  <2>1. IsServed(c, id)
    BY KnownParts
  <2>2. ASSUME connections[c] = "open", Owns(c, id) PROVE Hears(told[id], heard[id], missed[id], toClient[c], id)'
    <3>1. Hears(told[id], heard[id], missed[id], Append(s, x), id)
      <4>1. Hears(told[id], heard[id], missed[id], s, id)
        BY <2>1, <2>2 DEF IsServed, s
      <4> QED
        BY <1>1, <1>3, <4>1, HearsStill
    <3>2. Hears(told[id], heard[id], missed[id], toClient[c], id)' <=> Hears(told'[id], heard'[id], missed'[id], toClient'[c], id)
      BY DEF Hears, NotesOf, IsNote
    <3> QED
      BY <1>2, <2>2, <3>1, <3>2
  <2>3. ASSUME connections[c] = "open", id \in emitters[c]
        PROVE  \/ id \in DOMAIN subscriptions'
               \/ Ending(toClient[c], messageQueue[c], id)'
               \/ Off(id) \in resolved[c]
    BY <1>6, <2>1, <2>3 DEF IsServed, s, q
  <2> QED
    BY <1>6, <2>2, <2>3 DEF IsServed, Off
<1>9. \A d \in Clients : \A id : IsAlone(d, id)'
  <2>1. \A id : (Owns(c, id)' => Owns(c, id)) /\ (NotesOf(toClient[c], id)' # {} => NotesOf(toClient[c], id) # {})
    BY <1>6 DEF s
  <2> QED
    BY <1>4, <2>1, AllStillAlone
<1> QED
  BY <1>5, <1>7, <1>8, <1>9, OneActs

LEMMA FulfilledStep == ASSUME RpcInv, RequestFulfilled PROVE RpcInv'
<1>1. PICK u \in underWay :
        underWay' = underWay \ {u} /\ toClient' = SendMessage(u.ws, ResponseTo(u.call, Result("refined")))
  BY DEF RequestFulfilled
<1>2. /\ polling = <<>> /\ UnchangedSubscriptions
      /\ UNCHANGED <<connections, toServer, messageQueue, resolved, emitters, sent, heard, missed, polling>>
  BY DEF RequestFulfilled, UnchangedSubscriptions, clientVars
<1> DEFINE c == u.ws
           n == u.call
           a == Result("refined")
<1>3. ConnectionsOk /\ underWay \subseteq [ws : Clients, call : Nat]
  BY KnownParts DEF ConnectionsOk
<1>4. c \in Clients /\ n \in Nat /\ \A v \in underWay : v.ws = c /\ v.call = n => v = u
  BY <1>3
<1>5. /\ WorkedFor(c)' = WorkedFor(c) \ {n} /\ n \in WorkedFor(c)
      /\ \A d \in Clients \ {c} : WorkedFor(d)' = WorkedFor(d)
  <2>1. \A d : \A k : k \in WorkedFor(d) <=> \E v \in underWay : v.ws = d /\ v.call = k
    BY DEF WorkedFor
  <2>2. \A d : \A k : k \in WorkedFor(d)' <=> \E v \in underWay' : v.ws = d /\ v.call = k
    BY DEF WorkedFor
  <2>3. \A k : k \in WorkedFor(c)' <=> k \in WorkedFor(c) /\ k # n
    BY <1>1, <1>4, <2>1, <2>2
  <2>4. ASSUME NEW d \in Clients \ {c} PROVE \A k : k \in WorkedFor(d)' <=> k \in WorkedFor(d)
    BY <1>1, <2>1, <2>2
  <2>5. n \in WorkedFor(c)
    BY <2>1
  <2>6. WorkedFor(c)' = WorkedFor(c) \ {n}
    BY <2>3
  <2>7. \A d \in Clients \ {c} : WorkedFor(d)' = WorkedFor(d)
    BY <2>4
  <2> QED
    BY <2>5, <2>6, <2>7
<1> HIDE DEF c, n, a
<1>6. toClient' = SendMessage(c, ResponseTo(n, a))
  BY <1>1 DEF c, n, a
<1>7. CallsOk(c) /\ IsList(toClient[c]) /\ IsList(toServer[c])
  BY <1>4, KnownParts
<1>8. ASSUME connections[c] = "open"
      PROVE  /\ Placed(DOMAIN messageQueue[c], toServer'[c], WorkedFor(c)', Append(toClient[c], ResponseTo(n, a)))
             /\ n \in DOMAIN messageQueue[c] /\ messageQueue[c][n].method \notin SubscribableMethods
  <2>1. /\ Placed(DOMAIN messageQueue[c], toServer[c], WorkedFor(c), toClient[c])
        /\ messageQueue[c][n].method = "refineWorkPackage"
    BY <1>5, <1>7, <1>8 DEF CallsOk
  <2>2. ~IsNote(ResponseTo(n, a)) /\ ResponseTo(n, a).call = n
    BY ResponseShape
  <2>3. Placed(DOMAIN messageQueue[c], toServer[c], WorkedFor(c) \ {ResponseTo(n, a).call}, Append(toClient[c], ResponseTo(n, a)))
    BY <1>5, <1>7, <2>1, <2>2, AnsweredLater
  <2>4. n \in DOMAIN messageQueue[c]
    BY <1>5, <2>1 DEF Placed
  <2>5. "refineWorkPackage" \notin SubscribableMethods
    BY DEF SubscribableMethods
  <2> QED
    BY <1>2, <1>5, <2>1, <2>2, <2>3, <2>4, <2>5
<1>9. CallsOk(c)'
  <2>1. WorkedFor(c)' \subseteq WorkedFor(c)
    BY <1>5
  <2>2. IsList(toServer'[c]) /\ \A i \in DOMAIN toServer'[c] : \E j \in DOMAIN toServer[c] : toServer'[c][i] = toServer[c][j]
    BY <1>2, <1>7
  <2>3. nextSubscription' \in {nextSubscription, nextSubscription + 1}
    BY <1>2 DEF UnchangedSubscriptions
  <2> QED
    BY <1>2, <1>4, <1>6, <1>8, <2>1, <2>2, <2>3, AnswerPlaced
<1>10. ConnectionsOk'
  BY <1>1, <1>2, <1>3, <1>6 DEF ConnectionsOk, SendMessage
<1>11. ServerOk' /\ ToldOk'
  <2>1. PollingOk'
    BY <1>2, PollingStays
  <2> QED
    BY <1>2, <2>1, ServerStays, ToldStays
<1> QED
  BY <1>2, <1>4, <1>5, <1>6, <1>8, <1>9, <1>10, <1>11, AnswerSent DEF UnchangedSubscriptions

\* What the server takes from c.
LEMMA RequestTaken ==
  ASSUME RpcInv, NEW c \in Clients, HandleRequest(c)
  PROVE  /\ polling = <<>> /\ polling' = <<>> /\ connections[c] # "closed" /\ toServer[c] # <<>>
         /\ toServer'[c] = Tail(toServer[c]) /\ IsList(toServer'[c]) /\ Head(toServer[c]).call \in Nat
         /\ \A i \in DOMAIN toServer'[c] : \E j \in DOMAIN toServer[c] : toServer'[c][i] = toServer[c][j]
         /\ DOMAIN toServer' = Clients /\ \A d \in Clients \ {c} : toServer'[d] = toServer[d]
         /\ UNCHANGED <<connections, messageQueue, resolved, emitters, sent>>
         /\ connections[c] = "open" =>
              /\ Placed(DOMAIN messageQueue[c], toServer[c], WorkedFor(c), toClient[c])
              /\ Head(toServer[c]).call \in DOMAIN messageQueue[c]
              /\ messageQueue[c][Head(toServer[c]).call].method = Head(toServer[c]).method
              /\ messageQueue[c][Head(toServer[c]).call].params = Head(toServer[c]).params
<1>1. /\ polling = <<>> /\ polling' = <<>> /\ connections[c] # "closed" /\ toServer[c] # <<>>
      /\ toServer' = [toServer EXCEPT ![c] = Tail(toServer[c])]
      /\ UNCHANGED <<connections, messageQueue, resolved, emitters, sent>>
  BY DEF HandleRequest
<1>2. CallsOk(c) /\ ListsOk(c) /\ ConnectionsOk /\ IsList(toServer[c])
  BY KnownParts
<1>3. /\ IsList(Tail(toServer[c])) /\ 1 \in DOMAIN toServer[c] /\ Head(toServer[c]) = toServer[c][1]
      /\ \A i \in DOMAIN Tail(toServer[c]) : i + 1 \in DOMAIN toServer[c] /\ Tail(toServer[c])[i] = toServer[c][i + 1]
  BY <1>1, <1>2, ShrunkList
<1>4. /\ toServer'[c] = Tail(toServer[c]) /\ DOMAIN toServer' = Clients
      /\ \A d \in Clients \ {c} : toServer'[d] = toServer[d]
  BY <1>1, <1>2 DEF ConnectionsOk
<1>5. \A i \in DOMAIN toServer'[c] : \E j \in DOMAIN toServer[c] : toServer'[c][i] = toServer[c][j]
  BY <1>3, <1>4
<1>6. Head(toServer[c]).call \in Nat
  BY <1>2, <1>3 DEF ListsOk
<1>7. ASSUME connections[c] = "open"
      PROVE  /\ Placed(DOMAIN messageQueue[c], toServer[c], WorkedFor(c), toClient[c])
             /\ Head(toServer[c]).call \in DOMAIN messageQueue[c]
             /\ messageQueue[c][Head(toServer[c]).call].method = Head(toServer[c]).method
             /\ messageQueue[c][Head(toServer[c]).call].params = Head(toServer[c]).params
  <2>1. /\ Placed(DOMAIN messageQueue[c], toServer[c], WorkedFor(c), toClient[c])
        /\ messageQueue[c][toServer[c][1].call].method = toServer[c][1].method
        /\ messageQueue[c][toServer[c][1].call].params = toServer[c][1].params
    BY <1>2, <1>3, <1>7 DEF CallsOk
  <2>2. toServer[c][1].call \in DOMAIN messageQueue[c]
    BY <1>3, <2>1 DEF Placed, CallsIn
  <2> QED
    BY <1>3, <2>1, <2>2
<1> QED
  BY <1>1, <1>3, <1>4, <1>5, <1>6, <1>7

\* A request that is answered at once and makes no subscription.
LEMMA AnsweredStep ==
  ASSUME RpcInv, NEW c \in Clients, HandleRequest(c), UNCHANGED <<underWay, nextSubscription, told, heard, missed>>,
         Head(toServer[c]).method \notin SubscribableMethods, NEW a,
         toClient' = SendMessage(c, ResponseTo(Head(toServer[c]).call, a)),
         DOMAIN subscriptions' \subseteq DOMAIN subscriptions,
         \A id \in DOMAIN subscriptions' : subscriptions'[id] = subscriptions[id],
         \A id \in DOMAIN subscriptions \ DOMAIN subscriptions' :
           /\ subscriptions[id].ws = c /\ Succeeds(a)
           /\ Head(toServer[c]).method = "unsubscribe" /\ Head(toServer[c]).params = id,
         ToldOk'
  PROVE  RpcInv'
<1> DEFINE n == Head(toServer[c]).call
<1>1. /\ polling = <<>> /\ polling' = <<>> /\ connections[c] # "closed" /\ toServer[c] # <<>>
      /\ toServer'[c] = Tail(toServer[c]) /\ IsList(toServer'[c]) /\ n \in Nat
      /\ \A i \in DOMAIN toServer'[c] : \E j \in DOMAIN toServer[c] : toServer'[c][i] = toServer[c][j]
      /\ DOMAIN toServer' = Clients /\ \A d \in Clients \ {c} : toServer'[d] = toServer[d]
      /\ UNCHANGED <<connections, messageQueue, resolved, emitters, sent>>
      /\ connections[c] = "open" =>
           /\ Placed(DOMAIN messageQueue[c], toServer[c], WorkedFor(c), toClient[c])
           /\ n \in DOMAIN messageQueue[c]
           /\ messageQueue[c][n].method = Head(toServer[c]).method
           /\ messageQueue[c][n].params = Head(toServer[c]).params
  BY RequestTaken
<1>2. IsList(toServer[c]) /\ IsList(toClient[c]) /\ ConnectionsOk /\ CallsOk(c)
  BY KnownParts
<1>3. \A d \in Clients : WorkedFor(d)' = WorkedFor(d)
  BY DEF WorkedFor
<1>4. ~IsNote(ResponseTo(n, a)) /\ ResponseTo(n, a).call = n
  BY ResponseShape
<1>5. connections[c] = "open" =>
        Placed(DOMAIN messageQueue[c], toServer'[c], WorkedFor(c)', Append(toClient[c], ResponseTo(n, a)))
  <2> HIDE DEF n
  <2>1. n = Head(toServer[c]).call
    BY DEF n
  <2>2. connections[c] = "open" =>
          Placed(DOMAIN messageQueue[c], Tail(toServer[c]), WorkedFor(c), Append(toClient[c], ResponseTo(n, a)))
    BY <1>1, <1>2, <1>4, <2>1, AnsweredAtOnce
  <2> QED
    BY <1>1, <1>3, <2>2
<1>6. connections[c] = "open" => n \in DOMAIN messageQueue[c] /\ messageQueue[c][n].method \notin SubscribableMethods
  BY <1>1
<1>7. \A id \in DOMAIN subscriptions \ DOMAIN subscriptions' :
        subscriptions[id].ws = c /\ (connections[c] = "open" => Succeeds(a) /\ messageQueue[c][n] = Unsubscription(id))
  <2>1. ASSUME connections[c] = "open", Head(toServer[c]).method = "unsubscribe"
        PROVE  messageQueue[c][n] = Unsubscription(Head(toServer[c]).params)
    <3>1. PICK id \in Known : messageQueue[c][n] = Unsubscription(id)
      BY <1>1, <1>2, <2>1 DEF CallsOk
    <3>2. Unsubscription(id).params = id
      BY DEF Unsubscription
    <3> QED
      BY <1>1, <2>1, <3>1, <3>2
  <2> QED
    BY <2>1
<1> HIDE DEF n
<1>8. toClient' = SendMessage(c, ResponseTo(n, a))
  BY DEF n
<1>9. CallsOk(c)'
  <2>1. WorkedFor(c)' \subseteq WorkedFor(c)
    BY <1>3
  <2>2. nextSubscription' \in {nextSubscription, nextSubscription + 1}
    OBVIOUS
  <2> QED
    BY <1>1, <1>5, <1>6, <1>8, <2>1, <2>2, AnswerPlaced
<1>10. ConnectionsOk'
  BY <1>1, <1>2, <1>8 DEF ConnectionsOk, SendMessage
<1>11. ServerOk'
  <2>1. PollingOk'
    BY <1>1, PollingStays
  <2> QED
    BY <2>1, ServerDrops
<1> QED
  BY <1>1, <1>3, <1>6, <1>7, <1>8, <1>9, <1>10, <1>11, AnswerSent

LEMMA ReadRequestStep ==
  ASSUME RpcInv, NEW c \in Clients, HandleRequest(c), UNCHANGED <<underWay, subscriptions, lastResults, nextSubscription, told, heard, missed>>,
         Head(toServer[c]).method \notin SubscribableMethods, NEW a,
         toClient' = SendMessage(c, ResponseTo(Head(toServer[c]).call, a))
  PROVE  RpcInv'
<1>1. ToldOk'
  <2>1. UNCHANGED connections
    BY RequestTaken
  <2> QED
    BY <2>1, ToldStays DEF UnchangedSubscriptions
<1> QED
  BY <1>1, AnsweredStep

LEMMA UnsubscribeStep ==
  ASSUME RpcInv, NEW c \in Clients, HandleRequest(c), Head(toServer[c]).method = "unsubscribe"
  PROVE  RpcInv'
<1> DEFINE request == Head(toServer[c])
           id == request.params
<1>1. Unsubscribe(c, request) /\ UNCHANGED underWay /\ request.method \notin SubscribableMethods
  BY DEF HandleRequest, SubscribableMethods
<1>2. CASE OwnSubscription(c, id)
  <2>1. /\ DropSubscriptions({id}) /\ toClient' = SendMessage(c, ResponseTo(request.call, Result(TRUE)))
        /\ UNCHANGED <<nextSubscription, told, heard, missed>>
    BY <1>1, <1>2 DEF Unsubscribe
  <2>2. id \in DOMAIN subscriptions /\ subscriptions[id].ws = c
    BY <1>2 DEF OwnSubscription
  <2>3. UNCHANGED connections
    BY RequestTaken
  <2>4. /\ ToldOk' /\ DOMAIN subscriptions' = DOMAIN subscriptions \ {id}
        /\ \A i \in DOMAIN subscriptions' : subscriptions'[i] = subscriptions[i]
    BY <2>1, <2>3, ToldDrops
  <2>5. Succeeds(Result(TRUE))
    BY AnswerShape
  <2> QED
    BY <1>1, <2>1, <2>2, <2>4, <2>5, AnsweredStep
<1>3. CASE ~OwnSubscription(c, id)
  <2>1. /\ UNCHANGED <<subscriptions, lastResults, nextSubscription, told, heard, missed>>
        /\ toClient' = SendMessage(c, ResponseTo(request.call, Failure("not found")))
    BY <1>1, <1>3 DEF Unsubscribe
  <2> QED
    BY <1>1, <2>1, ReadRequestStep
<1> QED
  BY <1>2, <1>3

LEMMA RefineStep ==
  ASSUME RpcInv, NEW c \in Clients, HandleRequest(c), Head(toServer[c]).method = "refineWorkPackage"
  PROVE  RpcInv'
<1> DEFINE n == Head(toServer[c]).call
<1>1. /\ polling = <<>> /\ polling' = <<>> /\ connections[c] # "closed" /\ toServer[c] # <<>>
      /\ toServer'[c] = Tail(toServer[c]) /\ IsList(toServer'[c]) /\ n \in Nat
      /\ \A i \in DOMAIN toServer'[c] : \E j \in DOMAIN toServer[c] : toServer'[c][i] = toServer[c][j]
      /\ DOMAIN toServer' = Clients /\ \A d \in Clients \ {c} : toServer'[d] = toServer[d]
      /\ UNCHANGED <<connections, messageQueue, resolved, emitters, sent>>
      /\ connections[c] = "open" =>
           /\ Placed(DOMAIN messageQueue[c], toServer[c], WorkedFor(c), toClient[c])
           /\ n \in DOMAIN messageQueue[c]
           /\ messageQueue[c][n].method = Head(toServer[c]).method
           /\ messageQueue[c][n].params = Head(toServer[c]).params
  BY RequestTaken
<1>2. /\ underWay' = underWay \cup {[ws |-> c, call |-> n]} /\ UnchangedSubscriptions
      /\ UNCHANGED <<toClient, heard, missed>>
  BY DEF HandleRequest, SubscribableMethods, UnchangedSubscriptions
<1>3. IsList(toServer[c]) /\ IsList(toClient[c]) /\ ConnectionsOk /\ CallsOk(c) /\ ListsOk(c)
  BY KnownParts
<1> HIDE DEF n
<1>4. WorkedFor(c)' = WorkedFor(c) \cup {n} /\ \A d \in Clients \ {c} : WorkedFor(d)' = WorkedFor(d)
  <2>1. \A d : \A k : k \in WorkedFor(d) <=> \E v \in underWay : v.ws = d /\ v.call = k
    BY DEF WorkedFor
  <2>2. \A d : \A k : k \in WorkedFor(d)' <=> \E v \in underWay' : v.ws = d /\ v.call = k
    BY DEF WorkedFor
  <2> DEFINE new == [ws |-> c, call |-> n]
  <2>0. underWay' = underWay \cup {new} /\ new.ws = c /\ new.call = n
    BY <1>2
  <2> HIDE DEF new
  <2>3. \A k : k \in WorkedFor(c)' <=> k \in WorkedFor(c) \/ k = n
    BY <2>0, <2>1, <2>2
  <2>4. ASSUME NEW d \in Clients \ {c} PROVE \A k : k \in WorkedFor(d)' <=> k \in WorkedFor(d)
    BY <2>0, <2>1, <2>2
  <2>5. WorkedFor(c)' = WorkedFor(c) \cup {n}
    BY <2>3
  <2>6. \A d \in Clients \ {c} : WorkedFor(d)' = WorkedFor(d)
    BY <2>4
  <2> QED
    BY <2>5, <2>6
<1>5. ConnectionsOk'
  BY <1>1, <1>2, <1>3 DEF ConnectionsOk
<1>6. \A d \in Clients \ {c} : Stays(d)
  BY <1>1, <1>2 DEF Stays
<1>7. ServerOk' /\ ToldOk'
  <2>1. PollingOk'
    BY <1>1, PollingStays
  <2> QED
    BY <1>1, <1>2, <2>1, ServerStays, ToldStays
<1>8. OthersKeep(c)
  BY <1>2, <1>4, <1>6 DEF OthersKeep, UnchangedSubscriptions
<1>9. Known' = Known
  BY <1>2 DEF Known, UnchangedSubscriptions
<1>10. CallsOk(c)'
  <2>1. \A message : IsMessage(message, Known)' <=> IsMessage(message, Known)
    BY <1>9 DEF IsMessage, ResponseTo, Notification
  <2>2. ListsOk(c)'
    <3>1. \A i \in DOMAIN toServer'[c] : toServer'[c][i].call \in Nat
      BY <1>1, <1>3 DEF ListsOk
    <3> QED
      BY <1>1, <1>2, <1>3, <2>1, <3>1 DEF ListsOk
  <2>3. ASSUME connections[c] = "open"
        PROVE  /\ Placed(DOMAIN messageQueue[c], toServer[c], WorkedFor(c), toClient[c])'
               /\ \A k \in WorkedFor(c)' : messageQueue'[c][k].method = "refineWorkPackage"
    <3>1. Placed(DOMAIN messageQueue[c], Tail(toServer[c]), WorkedFor(c) \cup {n}, toClient[c])
      BY <1>1, <1>3, <2>3, TakenForWork DEF n
    <3>2. Placed(DOMAIN messageQueue[c], toServer[c], WorkedFor(c), toClient[c])'
            <=> Placed(DOMAIN messageQueue'[c], toServer'[c], WorkedFor(c)', toClient'[c])
      BY DEF Placed, CallsIn, AnsweredCalls, AnswersIn, IsNote, OnlyOnce
    <3>3. \A k \in WorkedFor(c) : messageQueue[c][k].method = "refineWorkPackage"
      BY <1>3, <2>3 DEF CallsOk
    <3> QED
      BY <1>1, <1>2, <1>4, <2>3, <3>1, <3>2, <3>3
  <2>4. /\ DOMAIN messageQueue'[c] \subseteq 1..sent'[c] /\ resolved'[c] \subseteq [id : Known', on : BOOLEAN]
        /\ \A k \in DOMAIN messageQueue'[c] :
             messageQueue'[c][k].method = "unsubscribe" => \E id \in Known' : messageQueue'[c][k] = Unsubscription(id)'
    BY <1>1, <1>3, <1>9 DEF CallsOk, Unsubscription
  <2>5. ASSUME connections[c] = "open"
        PROVE  /\ \A i \in DOMAIN toServer'[c] :
                    /\ toServer'[c][i].method = messageQueue'[c][toServer'[c][i].call].method
                    /\ toServer'[c][i].params = messageQueue'[c][toServer'[c][i].call].params
               /\ \A i \in AnswersIn(toClient[c])' :
                    messageQueue'[c][toClient'[c][i].call].method \in SubscribableMethods =>
                      \E id \in Known' : toClient'[c][i].answer = Result(id)'
    <3>1. /\ AnswersIn(toClient[c])' = AnswersIn(toClient[c]) /\ \A id : Result(id)' = Result(id)
      BY <1>2 DEF AnswersIn, IsNote, Result
    <3> QED
      BY <1>1, <1>2, <1>3, <1>9, <2>5, <3>1 DEF CallsOk
  <2> QED
    BY <1>1, <2>2, <2>3, <2>4, <2>5 DEF CallsOk
<1>11. \A id : /\ Bringing(toClient[c], messageQueue[c], id)' = Bringing(toClient[c], messageQueue[c], id)
               /\ Ending(toClient[c], messageQueue[c], id)' <=> Ending(toClient[c], messageQueue[c], id)
               /\ NotesOf(toClient[c], id)' = NotesOf(toClient[c], id)
               /\ (Early(c, id)' <=> Early(c, id)) /\ (Owns(c, id)' <=> Owns(c, id))
  BY <1>1, <1>2, SameOwner
<1>12. ASSUME NEW id PROVE IsEarly(c, id)' /\ IsServed(c, id)'
  <2>1. IsEarly(c, id) /\ IsServed(c, id)
    BY KnownParts
  <2>2. IsEarly(c, id)'
    BY <1>1, <1>2, <1>11, <2>1 DEF IsEarly, UnchangedSubscriptions, On, Off, Unsubscription
  <2>3. Hears(told[id], heard[id], missed[id], toClient[c], id)' <=> Hears(told[id], heard[id], missed[id], toClient[c], id)
    <3>1. Hears(told[id], heard[id], missed[id], toClient[c], id)' <=> Hears(told'[id], heard'[id], missed'[id], toClient'[c], id)
      BY DEF Hears, NotesOf, IsNote
    <3> QED
      BY <1>2, <3>1 DEF UnchangedSubscriptions
  <2>4. IsServed(c, id)'
    BY <1>1, <1>2, <1>11, <2>1, <2>3 DEF IsServed, UnchangedSubscriptions, Off
  <2> QED
    BY <2>2, <2>4
<1>13. \A d \in Clients : \A id : IsAlone(d, id)'
  BY <1>2, <1>6, <1>11, AllStillAlone DEF UnchangedSubscriptions
<1> QED
  BY <1>2, <1>5, <1>7, <1>8, <1>10, <1>12, <1>13, OneActs DEF UnchangedSubscriptions

\* A subscription is made: its id was nobody's.
LEMMA SubscribeStep ==
  ASSUME RpcInv, NEW c \in Clients, HandleRequest(c), Head(toServer[c]).method \in SubscribableMethods
  PROVE  RpcInv'
<1> DEFINE request == Head(toServer[c])
           n == request.call
           k == nextSubscription
           a == Result(k)
           x == ResponseTo(n, a)
           new == [ws |-> c, method |-> request.method, params |-> request.params]
           s == toClient[c]
           q == messageQueue[c]
<1>1. /\ polling = <<>> /\ polling' = <<>> /\ connections[c] # "closed" /\ toServer[c] # <<>>
      /\ toServer'[c] = Tail(toServer[c]) /\ IsList(toServer'[c]) /\ n \in Nat
      /\ \A i \in DOMAIN toServer'[c] : \E j \in DOMAIN toServer[c] : toServer'[c][i] = toServer[c][j]
      /\ DOMAIN toServer' = Clients /\ \A d \in Clients \ {c} : toServer'[d] = toServer[d]
      /\ UNCHANGED <<connections, messageQueue, resolved, emitters, sent>>
      /\ connections[c] = "open" =>
           /\ Placed(DOMAIN messageQueue[c], toServer[c], WorkedFor(c), toClient[c])
           /\ n \in DOMAIN messageQueue[c]
           /\ messageQueue[c][n].method = Head(toServer[c]).method
           /\ messageQueue[c][n].params = Head(toServer[c]).params
  BY RequestTaken
<1>2. Subscribe(c, request) /\ UNCHANGED underWay
  <2>1. request.method # "unsubscribe" /\ request.method # "refineWorkPackage"
    BY DEF SubscribableMethods
  <2> QED
    BY <2>1 DEF HandleRequest
<1>3. /\ subscriptions' = Entered(subscriptions, k, new) /\ nextSubscription' = k + 1
      /\ told' = Entered(told, k, <<>>) /\ heard' = Entered(heard, k, <<>>) /\ missed' = Entered(missed, k, 0)
      /\ toClient' = SendMessage(c, x) /\ UNCHANGED lastResults
  BY <1>2 DEF Subscribe
<1>4. IsList(toServer[c]) /\ IsList(s) /\ ConnectionsOk /\ ServerOk /\ ToldOk /\ CallsOk(c) /\ k \in Nat
  BY KnownParts
<1>5. new.ws = c
  OBVIOUS
<1>6. ~IsNote(x) /\ x.call = n /\ x.answer = a /\ \A id : a = Result(id) <=> id = k
  <2>1. \A id : Result(id) = Result(k) => id = k
    BY AnswerShape
  <2> QED
    BY <2>1, ResponseShape
<1> HIDE DEF request, n, k, a, x, new, s, q
<1>7. Known' = Known \cup {k} /\ k \notin Known /\ k \in Known'
  <2>1. Known = 0..(k - 1) /\ Known' = 0..((k + 1) - 1)
    BY <1>3 DEF Known, k
  <2> QED
    BY <1>4, <2>1
<1>8. /\ DOMAIN subscriptions' = DOMAIN subscriptions \cup {k} /\ subscriptions'[k] = new
      /\ \A id \in DOMAIN subscriptions : id # k /\ subscriptions'[id] = subscriptions[id]
  <2>1. k \notin DOMAIN subscriptions
    BY <1>4, <1>7 DEF ServerOk
  <2> QED
    BY <1>3, <2>1 DEF Entered
<1>9. /\ DOMAIN told' = Known' /\ DOMAIN heard' = Known' /\ DOMAIN missed' = Known'
      /\ told'[k] = <<>> /\ heard'[k] = <<>> /\ missed'[k] = 0
      /\ \A id \in Known : told'[id] = told[id] /\ heard'[id] = heard[id] /\ missed'[id] = missed[id]
  BY <1>3, <1>4, <1>7 DEF Entered, ServerOk
<1>10. ServerOk'
  <2>1. PollingOk'
    BY <1>1, PollingStays
  <2>2. \A id \in Known' : IsList(told'[id]) /\ IsList(heard'[id]) /\ missed'[id] \in Nat
    <3>1. \A id \in Known : IsList(told'[id]) /\ IsList(heard'[id]) /\ missed'[id] \in Nat
      BY <1>4, <1>9 DEF ServerOk
    <3>2. IsList(told'[k]) /\ IsList(heard'[k]) /\ missed'[k] \in Nat
      BY <1>9, EmptyList
    <3> QED
      BY <1>7, <3>1, <3>2
  <2>3. DOMAIN subscriptions' \subseteq Known' /\ \A id \in DOMAIN subscriptions' : subscriptions'[id].ws \in Clients
    BY <1>4, <1>5, <1>7, <1>8 DEF ServerOk
  <2>4. nextSubscription' \in Nat
    BY <1>3, <1>4
  <2> QED
    BY <1>9, <2>1, <2>2, <2>3, <2>4 DEF ServerOk
<1>11. ToldOk'
  <2>1. OnlyChangesAreTold'
    <3>1. SUFFICES ASSUME NEW id \in DOMAIN told', NEW i \in 2..Len(told'[id]) PROVE told'[id][i] # told'[id][i - 1]
      BY DEF OnlyChangesAreTold
    <3>2. id # k
      <4>1. Len(told'[k]) = 0
        BY <1>9, EmptyList
      <4> QED
        BY <3>1, <4>1
    <3>3. id \in Known /\ told'[id] = told[id]
      BY <1>7, <1>9, <3>2
    <3>4. id \in DOMAIN told /\ i \in 2..Len(told[id])
      BY <1>4, <3>3 DEF ServerOk
    <3> QED
      BY <1>4, <3>3, <3>4 DEF ToldOk, OnlyChangesAreTold
  <2>2. DOMAIN lastResults' \subseteq DOMAIN subscriptions' /\ k \notin DOMAIN lastResults'
    BY <1>3, <1>4, <1>8 DEF ToldOk, SubscriptionsAreKept
  <2>3. ASSUME NEW id \in DOMAIN subscriptions'
        PROVE  /\ connections'[subscriptions'[id].ws] # "closed"
               /\ IF told'[id] = <<>> THEN id \notin DOMAIN lastResults'
                  ELSE id \in DOMAIN lastResults' /\ lastResults'[id] = told'[id][Len(told'[id])]
    <3>1. CASE id = k
      BY <1>1, <1>5, <1>8, <1>9, <2>2, <3>1
    <3>2. CASE id # k
      <4>1. id \in DOMAIN subscriptions /\ id \in Known /\ subscriptions'[id] = subscriptions[id] /\ told'[id] = told[id]
        BY <1>4, <1>8, <1>9, <2>3, <3>2 DEF ServerOk
      <4> QED
        BY <1>1, <1>3, <1>4, <4>1 DEF ToldOk, SubscriptionsAreKept
    <3> QED
      BY <3>1, <3>2
  <2> QED
    BY <2>1, <2>2, <2>3 DEF ToldOk, SubscriptionsAreKept
<1>12. ConnectionsOk'
  BY <1>1, <1>2, <1>3, <1>4 DEF ConnectionsOk, SendMessage
<1>13. /\ toClient'[c] = IF connections[c] = "open" THEN Append(s, x) ELSE s
       /\ \A d \in Clients \ {c} : toClient'[d] = toClient[d]
  BY <1>3, <1>4 DEF SendMessage, ConnectionsOk, s
<1>14. \A d \in Clients \ {c} : Stays(d)
  BY <1>1, <1>13 DEF Stays
<1>15. \A d \in Clients : WorkedFor(d)' = WorkedFor(d)
  BY <1>2 DEF WorkedFor
<1>16. nextSubscription' \in {nextSubscription, nextSubscription + 1}
  BY <1>3 DEF k
<1>17. CallsOk(c)'
  <2>1. n = Head(toServer[c]).call
    BY DEF n, request
  <2>2. connections[c] = "open" => Placed(DOMAIN messageQueue[c], Tail(toServer[c]), WorkedFor(c), Append(toClient[c], x))
    BY <1>1, <1>4, <1>6, <2>1, AnsweredAtOnce DEF s
  <2>3. connections[c] = "open" =>
          /\ Placed(DOMAIN messageQueue[c], toServer'[c], WorkedFor(c)', Append(toClient[c], ResponseTo(n, a)))
          /\ \E id \in Known' : a = Result(id)
    BY <1>1, <1>6, <1>7, <1>15, <2>2 DEF x
  <2>4. WorkedFor(c)' \subseteq WorkedFor(c)
    BY <1>15
  <2>5. toClient' = SendMessage(c, ResponseTo(n, a))
    BY <1>3 DEF x
  <2> QED
    BY <1>1, <1>16, <2>3, <2>4, <2>5, AnswerPlaced
\* Nobody has the new id.
<1>18. \A d \in Clients : ~Owns(d, k) /\ NotesOf(toClient[d], k) = {}
  BY <1>7, KnownParts DEF IsAlone
<1>19. \A d \in Clients : \A id : Owns(d, id) \/ NotesOf(toClient[d], id) # {} => id \in Known /\ id # k
  BY <1>7, KnownParts DEF IsAlone
<1>20. OthersKeep(c)
  BY <1>8, <1>9, <1>14, <1>15, <1>19 DEF OthersKeep
<1>21. ASSUME NEW id
       PROVE  /\ Bringing(toClient[c], messageQueue[c], id)' \subseteq Bringing(s, q, id) \cup {i \in {Len(s) + 1} : id = k}
              /\ id # k => Bringing(toClient[c], messageQueue[c], id)' = Bringing(s, q, id)
              /\ Ending(s, q, id) => Ending(toClient[c], messageQueue[c], id)'
              /\ NotesOf(toClient[c], id)' = NotesOf(s, id)
  <2>1. Bringing(toClient[c], messageQueue[c], id)' = Bringing(toClient'[c], q, id)
    BY <1>1 DEF Bringing, AnswersIn, IsNote, Result, q
  <2>2. Ending(toClient[c], messageQueue[c], id)' <=> Ending(toClient'[c], q, id)
    BY <1>1 DEF Ending, AnswersIn, IsNote, Succeeds, Unsubscription, q
  <2>3. NotesOf(toClient[c], id)' = NotesOf(toClient'[c], id)
    BY DEF NotesOf, IsNote
  <2>4. /\ NotesOf(Append(s, x), id) = NotesOf(s, id)
        /\ Bringing(Append(s, x), q, id) = Bringing(s, q, id)
             \cup {i \in {Len(s) + 1} : q[x.call].method \in SubscribableMethods /\ x.answer = Result(id)}
        /\ Ending(Append(s, x), q, id) <=>
             Ending(s, q, id) \/ (Succeeds(x.answer) /\ q[x.call] = Unsubscription(id))
    BY <1>4, <1>6, AnswerComes
  <2>5. \A i : i \in Bringing(Append(s, x), q, id) => i \in Bringing(s, q, id) \/ (i = Len(s) + 1 /\ id = k)
    BY <1>6, <2>4
  <2>6. Bringing(s, q, id) \subseteq Bringing(Append(s, x), q, id)
    BY <2>4
  <2>7. Bringing(toClient'[c], q, id) \subseteq Bringing(s, q, id) \cup {i \in {Len(s) + 1} : id = k}
    BY <1>13, <2>5
  <2>8. id # k => Bringing(toClient'[c], q, id) = Bringing(s, q, id)
    BY <1>13, <2>5, <2>6
  <2> QED
    BY <1>13, <2>1, <2>2, <2>3, <2>4, <2>7, <2>8
<1>22. \A id : id # k => (Early(c, id)' <=> Early(c, id)) /\ (Owns(c, id)' <=> Owns(c, id))
  <2>1. ASSUME NEW id, id # k PROVE (Early(c, id)' <=> Early(c, id)) /\ (Owns(c, id)' <=> Owns(c, id))
    <3>1. Early(c, id)' <=> Early(c, id)
      BY <1>1, <1>21, <2>1 DEF Early, On, s, q
    <3> QED
      BY <1>1, <3>1 DEF Owns
  <2> QED
    BY <2>1
<1>23. /\ k \notin emitters[c] /\ Bringing(s, q, k) = {} /\ On(k) \notin resolved[c] /\ Off(k) \notin resolved[c]
       /\ \A i \in DOMAIN q : q[i] # Unsubscription(k)
  <2>1. k \notin emitters[c] /\ Bringing(s, q, k) = {} /\ On(k) \notin resolved[c]
    BY <1>18 DEF Owns, Early, s, q
  <2>2. Off(k) \notin resolved[c]
    <3>1. resolved[c] \subseteq [id : Known, on : BOOLEAN] /\ Off(k).id = k
      BY <1>4 DEF CallsOk, Off
    <3>2. \A y \in [id : Known, on : BOOLEAN] : y.id \in Known
      OBVIOUS
    <3> QED
      BY <1>7, <3>1, <3>2
  <2>3. \A i \in DOMAIN q : q[i] # Unsubscription(k)
    <3>1. \A id : Unsubscription(id).method = "unsubscribe" /\ Unsubscription(id).params = id
      BY DEF Unsubscription
    <3>2. \A i \in DOMAIN q : q[i].method = "unsubscribe" => \E id \in Known : q[i] = Unsubscription(id)
      BY <1>4 DEF CallsOk, q
    <3> QED
      BY <1>7, <3>1, <3>2
  <2> QED
    BY <2>1, <2>2, <2>3
<1>24. ASSUME NEW id PROVE IsEarly(c, id)'
  <2>1. CASE id = k
    <3>1. \A i, j \in Bringing(toClient[c], messageQueue[c], id)' : i = j
      BY <1>21, <1>23, <2>1
    <3> QED
      BY <1>1, <1>8, <1>9, <1>23, <2>1, <3>1 DEF IsEarly, On, Off, Unsubscription, q
  <2>2. CASE id # k
    <3>1. IsEarly(c, id)
      BY KnownParts
    <3>2. SUFFICES ASSUME Early(c, id)
                   PROVE  /\ id \notin emitters'[c] /\ heard'[id] = <<>> /\ Off(id) \notin resolved'[c]
                          /\ \A i \in DOMAIN messageQueue'[c] : messageQueue'[c][i] # Unsubscription(id)
                          /\ \A i, j \in Bringing(s, q, id) : i = j
                          /\ Bringing(s, q, id) = {} \/ On(id) \notin resolved'[c]
                          /\ connections'[c] = "open" => id \in DOMAIN subscriptions'
      BY <1>21, <1>22, <2>2 DEF IsEarly, On, Off, Unsubscription
    <3>3. id \in Known
      BY <1>19, <3>2 DEF Owns
    <3> QED
      BY <1>1, <1>8, <1>9, <3>1, <3>2, <3>3 DEF IsEarly, s, q
  <2> QED
    BY <2>1, <2>2
<1>25. ASSUME NEW id PROVE IsServed(c, id)'
  <2>1. Hears(told[id], heard[id], missed[id], toClient[c], id)' <=> Hears(told'[id], heard'[id], missed'[id], toClient'[c], id)
    BY DEF Hears, NotesOf, IsNote
  <2>2. CASE id = k
    <3>1. NotesOf(toClient'[c], id) = {}
      <4>1. NotesOf(toClient[c], id)' = NotesOf(toClient'[c], id)
        BY DEF NotesOf, IsNote
      <4> QED
        BY <1>18, <1>21, <2>2, <4>1 DEF s
    <3>2. Hears(told'[id], heard'[id], missed'[id], toClient'[c], id)
      BY <1>9, <2>2, <3>1, HearsNothing
    <3> QED
      BY <1>1, <1>23, <2>1, <2>2, <3>2 DEF IsServed
  <2>3. CASE id # k
    <3>1. IsServed(c, id)
      BY KnownParts
    <3>2. ASSUME connections[c] = "open", Owns(c, id) PROVE Hears(told'[id], heard'[id], missed'[id], toClient'[c], id)
      <4>1. Hears(told[id], heard[id], missed[id], s, id)
        BY <3>1, <3>2 DEF IsServed, s
      <4>2. Hears(told[id], heard[id], missed[id], Append(s, x), id)
        BY <1>4, <1>6, <4>1, HearsStill
      <4>3. id \in Known
        BY <1>19, <3>2
      <4> QED
        BY <1>9, <1>13, <3>2, <4>2, <4>3
    <3>3. ASSUME connections[c] = "open", id \in emitters[c]
          PROVE  \/ id \in DOMAIN subscriptions'
                 \/ Ending(toClient[c], messageQueue[c], id)'
                 \/ Off(id) \in resolved[c]
      BY <1>8, <1>21, <3>1, <3>3 DEF IsServed, s, q
    <3> QED
      BY <1>1, <1>22, <2>1, <2>3, <3>2, <3>3 DEF IsServed, Off
  <2> QED
    BY <2>2, <2>3
<1>26. ASSUME NEW d \in Clients, NEW id PROVE IsAlone(d, id)'
  <2>1. \A e \in Clients \ {c} : \A i : (Owns(e, i)' <=> Owns(e, i)) /\ NotesOf(toClient[e], i)' = NotesOf(toClient[e], i)
    BY <1>14, SameOwner DEF Stays
  <2>2. CASE id = k
    <3>1. \A e \in Clients \ {c} : ~Owns(e, id)' /\ NotesOf(toClient[e], id)' = {}
      BY <1>18, <2>1, <2>2
    <3>2. NotesOf(toClient[c], id)' = {}
      BY <1>18, <1>21, <2>2 DEF s
    <3>3. CASE d = c
      BY <1>5, <1>7, <1>8, <2>2, <3>1, <3>3 DEF IsAlone
    <3>4. CASE d # c
      BY <2>2, <3>1, <3>4 DEF IsAlone
    <3> QED
      BY <3>3, <3>4
  <2>3. CASE id # k
    <3>1. IsAlone(d, id)
      BY KnownParts
    <3>2. \A e \in Clients : (Owns(e, id)' <=> Owns(e, id)) /\ NotesOf(toClient[e], id)' = NotesOf(toClient[e], id)
      BY <1>21, <1>22, <2>1, <2>3 DEF s
    <3> QED
      BY <1>7, <1>8, <2>3, <3>1, <3>2 DEF IsAlone
  <2> QED
    BY <2>2, <2>3
<1> QED
  BY <1>10, <1>11, <1>12, <1>16, <1>17, <1>20, <1>24, <1>25, <1>26, OneActs

LEMMA RequestStep == ASSUME RpcInv, NEW c \in Clients, HandleRequest(c) PROVE RpcInv'
<1> DEFINE request == Head(toServer[c])
<1>1. CASE request.method \in SubscribableMethods
  BY <1>1, SubscribeStep
<1>2. CASE request.method = "unsubscribe"
  BY <1>2, UnsubscribeStep
<1>3. CASE request.method = "refineWorkPackage"
  BY <1>3, RefineStep
<1>4. CASE request.method \notin SubscribableMethods \cup {"unsubscribe", "refineWorkPackage"}
  <2>1. /\ toClient' = SendMessage(c, ResponseTo(request.call, Read(request.method, request.params)))
        /\ UNCHANGED <<subscriptions, lastResults, nextSubscription, told, heard, missed, underWay>>
    BY <1>4 DEF HandleRequest
  <2> QED
    BY <1>4, <2>1, ReadRequestStep
<1> QED
  BY <1>1, <1>2, <1>3, <1>4

\* A subscription is told of a change.
LEMMA TellStep ==
  ASSUME RpcInv, NEW k \in DOMAIN subscriptions, NEW c, c = subscriptions[k].ws, NEW answer, PollingOk',
         k \in DOMAIN lastResults => lastResults[k] # answer,
         lastResults' = Entered(lastResults, k, answer),
         toClient' = SendMessage(c, Notification(k, answer, Len(told[k]) + 1)),
         told' = [told EXCEPT ![k] = Append(told[k], answer)],
         UNCHANGED <<connections, toServer, subscriptions, nextSubscription, underWay, messageQueue, resolved, emitters, sent, heard, missed>>
  PROVE  RpcInv'
<1> DEFINE x == Notification(k, answer, Len(told[k]) + 1)
           s == toClient[c]
           q == messageQueue[c]
           t == Append(told[k], answer)
<1>1. ConnectionsOk /\ ServerOk /\ ToldOk /\ c \in Clients /\ k \in Known
  BY KnownParts DEF ServerOk
<1>2. CallsOk(c) /\ ListsOk(c) /\ IsList(s)
  BY <1>1, KnownParts
<1>3. IsNote(x) /\ x.id = k
  BY NotificationShape
<1>4. IsList(told[k]) /\ IsList(heard[k]) /\ missed[k] \in Nat /\ DOMAIN told = Known
  BY <1>1 DEF ServerOk
<1>5. /\ IsList(t) /\ Len(told[k]) \in Nat /\ Len(t) = Len(told[k]) + 1 /\ t[Len(told[k]) + 1] = answer
      /\ \A i \in 1..Len(told[k]) : t[i] = told[k][i]
  BY <1>4, GrownList
<1>6. IsMessage(x, Known)
  <2>1. Len(told[k]) + 1 \in Nat
    BY <1>5
  <2> QED
    BY <1>1, <2>1 DEF IsMessage
<1> HIDE DEF x, s, q, t
<1>7. /\ DOMAIN told' = Known /\ told'[k] = t /\ \A id \in Known : id # k => told'[id] = told[id]
  BY <1>1, <1>4 DEF t
<1>8. Known' = Known
  BY DEF Known
<1>9. ServerOk'
  BY <1>1, <1>5, <1>7, <1>8 DEF ServerOk
<1>10. /\ toClient'[c] = IF connections[c] = "open" THEN Append(s, x) ELSE s
       /\ \A d \in Clients \ {c} : toClient'[d] = toClient[d]
       /\ DOMAIN toClient' = Clients
  BY <1>1 DEF SendMessage, ConnectionsOk, s, x
<1>11. ConnectionsOk'
  BY <1>1, <1>10 DEF ConnectionsOk
<1>12. ToldOk'
  <2>1. DOMAIN lastResults' = DOMAIN lastResults \cup {k} /\ lastResults'[k] = answer
        /\ \A id \in DOMAIN lastResults : id # k => lastResults'[id] = lastResults[id]
    BY DEF Entered
  <2>2. SubscriptionsAreKept
    BY <1>1 DEF ToldOk
  <2>3. t # <<>> /\ t[Len(t)] = answer
    BY <1>5, EmptyList
  <2>4. ASSUME NEW id \in DOMAIN subscriptions
        PROVE  IF told'[id] = <<>> THEN id \notin DOMAIN lastResults'
               ELSE id \in DOMAIN lastResults' /\ lastResults'[id] = told'[id][Len(told'[id])]
    <3>1. CASE id = k
      BY <1>7, <2>1, <2>3, <3>1
    <3>2. CASE id # k
      <4>1. told'[id] = told[id]
        BY <1>1, <1>7, <3>2 DEF ServerOk
      <4> QED
        BY <2>1, <2>2, <3>2, <4>1 DEF SubscriptionsAreKept
    <3> QED
      BY <3>1, <3>2
  <2>5. SubscriptionsAreKept'
    BY <2>1, <2>2, <2>4 DEF SubscriptionsAreKept
  <2>6. ASSUME NEW i \in 2..Len(t) PROVE t[i] # t[i - 1]
    <3>1. i - 1 \in 1..Len(told[k]) /\ t[i - 1] = told[k][i - 1]
      BY <1>5
    <3>2. CASE i = Len(told[k]) + 1
      <4>1. told[k] # <<>> /\ i - 1 = Len(told[k]) /\ t[i] = answer
        BY <1>5, <3>1, <3>2, EmptyList
      <4>2. k \in DOMAIN lastResults /\ lastResults[k] = told[k][Len(told[k])]
        BY <2>2, <4>1 DEF SubscriptionsAreKept
      <4> QED
        BY <3>1, <4>1, <4>2
    <3>3. CASE i \in 2..Len(told[k])
      <4>1. i \in 1..Len(told[k])
        BY <1>5, <3>3
      <4>2. told[k][i] # told[k][i - 1]
        BY <1>1, <1>4, <3>3 DEF ToldOk, OnlyChangesAreTold
      <4> QED
        BY <1>5, <3>1, <4>1, <4>2
    <3> QED
      BY <1>5, <3>2, <3>3
  <2>7. OnlyChangesAreTold'
    <3>1. ASSUME NEW id \in Known, NEW i \in 2..Len(told'[id]) PROVE told'[id][i] # told'[id][i - 1]
      <4>1. CASE id = k
        BY <1>7, <2>6, <3>1, <4>1
      <4>2. CASE id # k
        <5>1. told'[id] = told[id] /\ id \in DOMAIN told
          BY <1>4, <1>7, <4>2
        <5> QED
          BY <1>1, <3>1, <5>1 DEF ToldOk, OnlyChangesAreTold
      <4> QED
        BY <4>1, <4>2
    <3> QED
      BY <1>7, <3>1 DEF OnlyChangesAreTold
  <2> QED
    BY <2>5, <2>7 DEF ToldOk
<1>13. \A d \in Clients : WorkedFor(d)' = WorkedFor(d)
  BY DEF WorkedFor
<1>14. \A d \in Clients \ {c} : Stays(d)
  BY <1>10 DEF Stays
\* Nobody else has this subscription.
<1>15. \A d \in Clients \ {c} : ~Owns(d, k)
  BY KnownParts DEF IsAlone
<1>16. \A d \in Clients : \A id : Owns(d, id) => id \in Known
  BY KnownParts DEF IsAlone
<1>17. OthersKeep(c)
  BY <1>7, <1>13, <1>14, <1>15, <1>16 DEF OthersKeep
<1>18. CallsOk(c)'
  <2>1. \A message : IsMessage(message, Known)' <=> IsMessage(message, Known)
    BY <1>8 DEF IsMessage, ResponseTo, Notification
  <2>2. /\ IsList(Append(s, x)) /\ DOMAIN Append(s, x) = DOMAIN s \cup {Len(s) + 1}
        /\ Append(s, x)[Len(s) + 1] = x /\ \A i \in DOMAIN s : Append(s, x)[i] = s[i]
    BY <1>2, GrownList
  <2>3. IsList(toClient'[c]) /\ \A i \in DOMAIN toClient'[c] : IsMessage(toClient'[c][i], Known)
    <3>1. \A i \in DOMAIN s : IsMessage(s[i], Known)
      BY <1>2 DEF ListsOk, s
    <3>2. CASE connections[c] = "open"
      <4>1. toClient'[c] = Append(s, x)
        BY <1>10, <3>2
      <4>2. \A i \in DOMAIN Append(s, x) : IsMessage(Append(s, x)[i], Known)
        BY <1>6, <2>2, <3>1
      <4> QED
        BY <2>2, <4>1, <4>2
    <3>3. CASE connections[c] # "open"
      <4>1. toClient'[c] = s
        BY <1>10, <3>3
      <4> QED
        BY <1>2, <3>1, <4>1
    <3> QED
      BY <3>2, <3>3
  <2>4. connections[c] # "open" => toClient'[c] = <<>>
    BY <1>2, <1>10 DEF ListsOk, s
  <2>5. ListsOk(c)'
    BY <1>2, <2>1, <2>3, <2>4 DEF ListsOk
  <2>6. ASSUME connections[c] = "open"
        PROVE  /\ Placed(DOMAIN messageQueue[c], toServer[c], WorkedFor(c), toClient[c])'
               /\ \A i \in AnswersIn(toClient[c])' :
                    messageQueue'[c][toClient'[c][i].call].method \in SubscribableMethods =>
                      \E id \in Known' : toClient'[c][i].answer = Result(id)'
    <3>1. Placed(DOMAIN messageQueue[c], toServer[c], WorkedFor(c), s)
      BY <1>2, <2>6 DEF CallsOk, s
    <3>2. Placed(DOMAIN messageQueue[c], toServer[c], WorkedFor(c), Append(s, x))
      BY <1>2, <1>3, <3>1, PlacedWithNote
    <3>3. Placed(DOMAIN messageQueue[c], toServer[c], WorkedFor(c), toClient[c])'
            <=> Placed(DOMAIN messageQueue'[c], toServer'[c], WorkedFor(c)', toClient'[c])
      BY <1>13 DEF Placed, CallsIn, AnsweredCalls, AnswersIn, IsNote, OnlyOnce
    <3>4. AnswersIn(toClient[c])' = AnswersIn(s)
      <4>1. AnswersIn(Append(s, x)) = AnswersIn(s)
        BY <1>2, <1>3, NoteComes
      <4>2. AnswersIn(toClient[c])' = AnswersIn(toClient'[c])
        BY DEF AnswersIn, IsNote
      <4> QED
        BY <1>10, <2>6, <4>1, <4>2
    <3>5. \A i \in AnswersIn(s) : toClient'[c][i] = s[i]
      BY <1>10, <2>2, <2>6 DEF AnswersIn
    <3>6. \A i \in AnswersIn(s) : q[s[i].call].method \in SubscribableMethods => \E id \in Known : s[i].answer = Result(id)
      BY <1>2, <2>6 DEF CallsOk, s, q
    <3>7. \A id : Result(id)' = Result(id)
      BY DEF Result
    <3>8. \A i \in AnswersIn(toClient[c])' :
            messageQueue'[c][toClient'[c][i].call].method \in SubscribableMethods =>
              \E id \in Known' : toClient'[c][i].answer = Result(id)'
      BY <1>8, <3>4, <3>5, <3>6, <3>7 DEF q
    <3>9. Placed(DOMAIN messageQueue'[c], toServer'[c], WorkedFor(c)', toClient'[c])
      <4>1. /\ toClient'[c] = Append(s, x) /\ messageQueue'[c] = messageQueue[c] /\ toServer'[c] = toServer[c]
            /\ WorkedFor(c)' = WorkedFor(c)
        BY <1>1, <1>10, <1>13, <2>6
      <4> QED
        BY <3>2, <4>1
    <3> QED
      BY <3>3, <3>8, <3>9
  <2> QED
    BY <1>1, <1>2, <1>8, <1>13, <2>5, <2>6 DEF CallsOk, Unsubscription
<1>19. ASSUME NEW id
       PROVE  /\ Bringing(toClient[c], messageQueue[c], id)' = Bringing(s, q, id)
              /\ Ending(s, q, id) => Ending(toClient[c], messageQueue[c], id)'
              /\ id # k => NotesOf(toClient[c], id)' = NotesOf(s, id)
              /\ Early(c, id)' <=> Early(c, id)
              /\ Owns(c, id)' <=> Owns(c, id)
  <2>1. Bringing(toClient[c], messageQueue[c], id)' = Bringing(toClient'[c], q, id)
    BY DEF Bringing, AnswersIn, IsNote, Result, q
  <2>2. Ending(toClient[c], messageQueue[c], id)' <=> Ending(toClient'[c], q, id)
    BY DEF Ending, AnswersIn, IsNote, Succeeds, Unsubscription, q
  <2>3. NotesOf(toClient[c], id)' = NotesOf(toClient'[c], id)
    BY DEF NotesOf, IsNote
  <2>4. /\ NotesOf(Append(s, x), id) = NotesOf(s, id) \cup {i \in {Len(s) + 1} : x.id = id}
        /\ Bringing(Append(s, x), q, id) = Bringing(s, q, id)
        /\ Ending(s, q, id) => Ending(Append(s, x), q, id)
    BY <1>2, <1>3, NoteComes
  <2>5. id # k => NotesOf(Append(s, x), id) = NotesOf(s, id)
    BY <1>3, <2>4
  <2>6. Early(c, id)' <=> Early(c, id)
    BY <1>10, <2>1, <2>4 DEF Early, On, s, q
  <2>7. Owns(c, id)' <=> Owns(c, id)
    BY <2>6 DEF Owns
  <2> QED
    BY <1>10, <2>1, <2>2, <2>3, <2>4, <2>5, <2>6, <2>7
<1>20. ASSUME NEW id PROVE IsEarly(c, id)'
  <2>1. IsEarly(c, id)
    BY <1>1, KnownParts
  <2>2. Bringing(toClient[c], messageQueue[c], id)' = Bringing(toClient[c], messageQueue[c], id)
    BY <1>19 DEF s, q
  <2> QED
    BY <1>19, <2>1, <2>2 DEF IsEarly, On, Off, Unsubscription
<1>21. ASSUME NEW id PROVE IsServed(c, id)'
  <2>1. IsServed(c, id)
    BY <1>1, KnownParts
  <2>2. Hears(told[id], heard[id], missed[id], toClient[c], id)' <=> Hears(told'[id], heard[id], missed[id], toClient'[c], id)
    BY DEF Hears, NotesOf, IsNote
  <2>3. ASSUME connections[c] = "open", Owns(c, id) PROVE Hears(told'[id], heard[id], missed[id], toClient'[c], id)
    <3>1. Hears(told[id], heard[id], missed[id], s, id) /\ toClient'[c] = Append(s, x)
      BY <1>10, <2>1, <2>3 DEF IsServed, s
    <3>2. CASE id = k
      <4>1. Hears(Append(told[k], answer), heard[k], missed[k], Append(s, Notification(k, answer, Len(told[k]) + 1)), k)
        BY <1>2, <1>4, <3>1, <3>2, HearsMore
      <4> QED
        BY <1>7, <3>1, <3>2, <4>1 DEF t, x
    <3>3. CASE id # k
      <4>1. Hears(told[id], heard[id], missed[id], Append(s, x), id)
        BY <1>2, <1>3, <3>1, <3>3, HearsStill
      <4>2. told'[id] = told[id]
        BY <1>1, <1>7, <1>16, <2>3, <3>3
      <4> QED
        BY <3>1, <4>1, <4>2
    <3> QED
      BY <3>2, <3>3
  <2>4. connections[c] = "open" /\ id \in emitters[c] =>
          \/ id \in DOMAIN subscriptions
          \/ Ending(toClient[c], messageQueue[c], id)'
          \/ Off(id) \in resolved[c]
    BY <1>19, <2>1 DEF IsServed, s, q
  <2> QED
    BY <1>19, <2>2, <2>3, <2>4 DEF IsServed, Off
<1>22. ASSUME NEW d \in Clients, NEW id PROVE IsAlone(d, id)'
  <2>1. \A e \in Clients : Owns(e, id)' <=> Owns(e, id)
    <3>1. ASSUME NEW e \in Clients, e # c PROVE Owns(e, id)' <=> Owns(e, id)
      BY <1>14, <3>1, SameOwner DEF Stays
    <3> QED
      BY <1>19, <3>1
  <2>2. \A e \in Clients : e # c \/ id # k => NotesOf(toClient[e], id)' = NotesOf(toClient[e], id)
    <3>1. ASSUME NEW e \in Clients, e # c PROVE NotesOf(toClient[e], id)' = NotesOf(toClient[e], id)
      BY <1>14, <3>1, SameOwner DEF Stays
    <3> QED
      BY <1>19, <3>1 DEF s
  <2>3. IsAlone(d, id)
    BY KnownParts
  <2>4. CASE d = c /\ id = k
    BY <1>1, <1>8, <1>15, <2>1, <2>4 DEF IsAlone
  <2>5. CASE d # c \/ id # k
    BY <1>8, <2>1, <2>2, <2>3, <2>5 DEF IsAlone
  <2> QED
    BY <2>4, <2>5
<1>23. nextSubscription' \in {nextSubscription, nextSubscription + 1}
  OBVIOUS
<1> QED
  BY <1>1, <1>9, <1>11, <1>12, <1>17, <1>18, <1>20, <1>21, <1>22, <1>23, OneActs

LEMMA NotifyStep == ASSUME RpcInv, Notify PROVE RpcInv'
<1> DEFINE k == Head(polling).id
           sub == subscriptions[k]
           answer == Polled(Head(polling).header, sub.method, sub.params)
<1>1. /\ polling # <<>> /\ polling' = Tail(polling)
      /\ UNCHANGED <<connections, toServer, subscriptions, nextSubscription, underWay>>
      /\ UNCHANGED <<messageQueue, resolved, emitters, sent, heard, missed>>
  BY DEF Notify, clientVars
<1>2. IF k \in DOMAIN lastResults /\ lastResults[k] = answer
      THEN UNCHANGED <<lastResults, toClient, told>>
      ELSE /\ lastResults' = Entered(lastResults, k, answer)
           /\ toClient' = SendMessage(sub.ws, Notification(k, answer, Len(told[k]) + 1))
           /\ told' = [told EXCEPT ![k] = Append(told[k], answer)]
  BY DEF Notify
<1>3. PollingOk
  BY KnownParts DEF ServerOk
<1>4. k \in DOMAIN subscriptions
  <2>1. 1 \in DOMAIN polling /\ Head(polling) = polling[1]
    BY <1>1, <1>3, ShrunkList DEF PollingOk
  <2> QED
    BY <1>3, <2>1 DEF PollingOk
<1>5. PollingOk'
  <2>1. IsList(Tail(polling)) /\ \A i \in DOMAIN Tail(polling) : i + 1 \in DOMAIN polling /\ Tail(polling)[i] = polling[i + 1]
    BY <1>1, <1>3, ShrunkList DEF PollingOk
  <2>2. IsList(polling')
    BY <1>1, <2>1
  <2>3. ASSUME NEW i \in DOMAIN polling'
        PROVE  polling'[i].id \in DOMAIN subscriptions' /\ polling'[i] = [id |-> polling'[i].id, header |-> polling'[i].header]
    <3>1. i + 1 \in DOMAIN polling /\ polling'[i] = polling[i + 1]
      BY <1>1, <2>1
    <3> QED
      BY <1>1, <1>3, <3>1 DEF PollingOk
  <2> QED
    BY <2>2, <2>3 DEF PollingOk, IsList
<1> HIDE DEF k, sub, answer
<1>6. CASE k \in DOMAIN lastResults /\ lastResults[k] = answer
  BY <1>1, <1>2, <1>5, <1>6, UnheardStep DEF UnchangedLists, UnchangedSubscriptions
<1>7. CASE ~(k \in DOMAIN lastResults /\ lastResults[k] = answer)
  <2>1. PICK c : c = subscriptions[k].ws
    OBVIOUS
  <2>2. /\ lastResults' = Entered(lastResults, k, answer)
        /\ toClient' = SendMessage(c, Notification(k, answer, Len(told[k]) + 1))
        /\ told' = [told EXCEPT ![k] = Append(told[k], answer)]
    BY <1>2, <1>7, <2>1 DEF sub
  <2>3. k \in DOMAIN lastResults => lastResults[k] # answer
    BY <1>7
  <2>4. PICK j \in DOMAIN subscriptions : j = k
    BY <1>4
  <2>5. PICK b : b = answer
    OBVIOUS
  <2> QED
    BY <1>1, <1>5, <2>1, <2>2, <2>3, <2>4, <2>5, TellStep
<1> QED
  BY <1>6, <1>7

LEMMA RpcSteps == RpcInv /\ [RpcNext]_rpcVars => RpcInv'
<1> SUFFICES ASSUME RpcInv, [RpcNext]_rpcVars PROVE RpcInv'
  OBVIOUS
<1>1. CASE Import \/ Prune
  BY <1>1, DatabaseStep
<1>2. CASE RequestFulfilled
  BY <1>2, FulfilledStep
<1>3. CASE PollSubscriptions
  BY <1>3, PollStep
<1>4. CASE ReadBest
  BY <1>4, ReadStep
<1>5. CASE Notify
  BY <1>5, NotifyStep
<1>6. ASSUME NEW c \in Clients, HandleRequest(c) PROVE RpcInv'
  BY <1>6, RequestStep
<1>7. ASSUME NEW c \in Clients, ConnectionLost(c) PROVE RpcInv'
  BY <1>7, LostStep
<1>8. ASSUME NEW c \in Clients, OnClose(c) PROVE RpcInv'
  BY <1>8, CloseStep
<1>9. ASSUME NEW c \in Clients, OnMessage(c) PROVE RpcInv'
  BY <1>9, NoteStep, AnswerStep
<1>10. ASSUME NEW c \in Clients, AnswersAwaited(c) PROVE RpcInv'
  BY <1>10, AwaitedStep
<1>11. ASSUME NEW c \in Clients, CallUnsubscribe(c) \/ \E r \in Requests[c] : Call(c, r) PROVE RpcInv'
  BY <1>11, CallsStep
<1>12. CASE UNCHANGED rpcVars
  <2>1. UnchangedLists /\ UnchangedSubscriptions /\ UNCHANGED <<underWay, heard, missed, polling>>
    BY <1>12 DEF rpcVars, serverVars, clientVars, UnchangedLists, UnchangedSubscriptions
  <2>2. PollingOk'
    BY <2>1, PollingStays DEF UnchangedSubscriptions
  <2> QED
    BY <2>1, <2>2, UnheardStep
<1> QED
  BY <1>1, <1>2, <1>3, <1>4, <1>5, <1>6, <1>7, <1>8, <1>9, <1>10, <1>11, <1>12 DEF RpcNext

LEMMA InvTellsOwners == RpcInv => OwnersHear
<1> SUFFICES ASSUME RpcInv, NEW c \in Clients, NEW id \in emitters[c]
             PROVE  /\ \A d \in Clients \ {c} : id \notin emitters[d] /\ NotesOf(toClient[d], id) = {}
                    /\ id \in DOMAIN subscriptions => subscriptions[id].ws = c
                    /\ connections[c] = "open" =>
                         /\ AllIsHeard(toClient[c], id)
                         /\ id \in DOMAIN subscriptions \/ EndComes(c, id) \/ [id |-> id, on |-> FALSE] \in resolved[c]
  BY DEF OwnersHear
<1>1. Owns(c, id)
  BY DEF Owns
<1>2. IsAlone(c, id) /\ IsServed(c, id) /\ \A d \in Clients : IsAlone(d, id)
  BY KnownParts
<1>3. ASSUME NEW d \in Clients \ {c} PROVE id \notin emitters[d] /\ NotesOf(toClient[d], id) = {}
  <2>1. ~Owns(d, id)
    BY <1>1, <1>2 DEF IsAlone
  <2>2. NotesOf(toClient[d], id) = {}
    BY <1>1, <1>2 DEF IsAlone
  <2> QED
    BY <2>1, <2>2 DEF Owns
<1>4. id \in DOMAIN subscriptions => subscriptions[id].ws = c
  BY <1>1, <1>2 DEF IsAlone
<1>5. ASSUME connections[c] = "open"
      PROVE  /\ AllIsHeard(toClient[c], id)
             /\ id \in DOMAIN subscriptions \/ EndComes(c, id) \/ [id |-> id, on |-> FALSE] \in resolved[c]
  <2>1. Hears(told[id], heard[id], missed[id], toClient[c], id)
    BY <1>1, <1>2, <1>5 DEF IsServed
  <2>2. AllIsHeard(toClient[c], id)
    BY <2>1 DEF Hears, AllIsHeard
  <2>3. Ending(toClient[c], messageQueue[c], id) => EndComes(c, id)
    BY DEF Ending, EndComes, Unsubscription
  <2> QED
    BY <1>2, <1>5, <2>2, <2>3 DEF IsServed, Off
<1> QED
  BY <1>3, <1>4, <1>5

LEMMA InvPlacesCalls == RpcInv => CallsAreAnswered
<1> SUFFICES ASSUME RpcInv, NEW c \in Clients, connections[c] = "open"
             PROVE  /\ DOMAIN messageQueue[c] = CallsIn(toServer[c]) \cup WorkedFor(c) \cup AnsweredCalls(toClient[c])
                    /\ CallsIn(toServer[c]) \cap WorkedFor(c) = {}
                    /\ AnsweredCalls(toClient[c]) \cap (CallsIn(toServer[c]) \cup WorkedFor(c)) = {}
                    /\ \A i, j \in DOMAIN toServer[c] : i # j => toServer[c][i].call # toServer[c][j].call
                    /\ \A i, j \in AnswersIn(toClient[c]) : i # j => toClient[c][i].call # toClient[c][j].call
  BY DEF CallsAreAnswered, CallsIn, WorkedFor, AnsweredCalls
<1>1. Placed(DOMAIN messageQueue[c], toServer[c], WorkedFor(c), toClient[c])
  BY KnownParts DEF CallsOk
<1> QED
  BY <1>1 DEF Placed, OnlyOnce

LEMMA InvTells == RpcInv => SubscribersAreTold
BY KnownParts, InvTellsOwners, InvPlacesCalls DEF SubscribersAreTold, ToldOk

(* The clients of the rpc server hear what their subscriptions are told,   *)
(* each change once and in order, and nobody else's; every call is in one  *)
(* place until it is answered.                                             *)
THEOREM ToldSubscribers == RpcSpec => []SubscribersAreTold
BY RpcStarts, RpcSteps, InvTells, PTL DEF RpcSpec
=============================================================================
