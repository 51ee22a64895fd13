------------------------------ MODULE Network ------------------------------
(***************************************************************************)
(* The network worker of one node: who is connected (PeersManagement and   *)
(* Connections), the streams of the connections (StreamManager), the block *)
(* announcements (UP 0), the block requests (CE 128) and the task that     *)
(* keeps the node in sync with its peers (SyncTask).                       *)
(*                                                                         *)
(* The QUIC library, the peers and the importer are the environment: a     *)
(* connection comes, breaks and ends, a peer says what the protocol lets   *)
(* it say, a block is imported when its parent is known.  A stream is      *)
(* known to the code by the peer and the number QUIC gives it, which       *)
(* starts again with every connection; the model keeps the connection in   *)
(* the stream to tell what the code cannot.                                *)
(***************************************************************************)
EXTENDS Integers, Sequences, SequencesExt, FiniteSets, Functions

CONSTANTS
    Peer,           \* identities of other nodes
    Bootnode,       \* those that are dialed for ever
    Connection,     \* names of connections (bounds how many there are)
    MaxRetries,     \* MAX_RETRIES
    ChainBlock, FirstBlock, ParentBlock, TimeSlot,   \* a tree of blocks; slots grow from parent to child
    MaxSequence,    \* MAX_BLOCK_SEQUENCE
    Theirs,         \* the blocks a peer tells of, in any order, and answers with
    MaxStreams, MaxIncoming,    \* streams we, the peer open on a connection (bounds)
    NoOne          \* no connection, no header

VARIABLES
    conn,       \* the connections QUIC knows: whose, dialed by us, open or ending
    peers,      \* PeersManagement.peers
    peerInfo,   \* Connections.peerInfo: the connection, retries, the reconnect task, SYNC_AUX
    io,         \* streams and what is kept for each, see NoStreams
    othersBest, \* SyncTask.othersBest
    chain,      \* our BlocksDb: the blocks that are there and the best
    arriving    \* answers whose blocks are still to be imported

networkVars == <<conn, peers, peerInfo, io, othersBest, chain, arriving>>

WithoutKeys(f, S) == Restrict(f, DOMAIN f \ S)
With(f, k, v) == [x \in DOMAIN f \cup {k} |-> IF x = k THEN v ELSE f[x]]

-----------------------------------------------------------------------------
\* ChainBlock sequences (handleGetBlockSequence).  An error is an empty answer.

\* From a block down to the first one.
Line[b \in ChainBlock] == IF b = FirstBlock THEN <<b>> ELSE <<b>> \o Line[ParentBlock[b]]

LowestOf(a, b) == IF a < b THEN a ELSE b

AscendingFrom(db, start, limit) ==
    LET above == SelectSeq(Line[db.best], LAMBDA b : TimeSlot[b] > TimeSlot[start])
    IN  IF start \in ToSet(Line[db.best])
        THEN SubSeq(Reverse(above), 1, LowestOf(limit, Len(above)))
        ELSE <<>>

\* The start block and up to limit of its ancestors.
DescendingFrom(has, start, limit) ==
    LET there == SelectSeq(Line[start], LAMBDA b : b \in has)
    IN  IF start \in has THEN SubSeq(there, 1, LowestOf(limit + 1, Len(there))) ELSE <<>>

ServedDescending(has, start, maxBlocks) == DescendingFrom(has, start, LowestOf(maxBlocks, MaxSequence))
ServedAscending(db, start, maxBlocks) == AscendingFrom(db, start, LowestOf(maxBlocks, MaxSequence))

-----------------------------------------------------------------------------
\* Streams (StreamManager) and the two handlers

NoStreams ==
    [opened |-> [c \in Connection |-> [client |-> 0, server |-> 0]],
     live |-> {},               \* those QUIC has open
     streams |-> <<>>,          \* StreamManager.streams
     handshakes |-> {},         \* up0: the ids a handshake came on
     pendingHandshakes |-> {},  \* up0: the ids one was sent on
     resolvers |-> <<>>,        \* ce128: what was asked on an id
     greeted |-> {}, announced |-> {},  \* streams we sent a handshake, an announcement on
     heard |-> {}]              \* streams the peer sent a handshake on

\* The streams of a connection are numbered apart for its two ends.
Stream(p, c, side, n, kind) == [peer |-> p, conn |-> c, side |-> side, n |-> n, kind |-> kind]
Id(s) == <<s.peer, s.side, s.n>>
OurSide(dialed) == IF dialed THEN "client" ELSE "server"
TheirSide(dialed) == OurSide(~dialed)

\* registerStream: the id takes the place of whatever had it.
Registered(o, s) ==
    [o EXCEPT !.opened[s.conn][s.side] = @ + 1, !.live = @ \cup {s}, !.streams = With(@, Id(s), s)]
NextStream(o, p, c, side, kind) == Stream(p, c, side, o.opened[c][side], kind)

\* A request nobody will answer any more.
ClientCloses(o, id) == [o EXCEPT !.resolvers = WithoutKeys(@, {id})]

\* onClose of the handler that serves the kind.
HandlerCloses(o, s) ==
    CASE s.kind = "up0" -> [o EXCEPT !.handshakes = @ \ {Id(s)}, !.pendingHandshakes = @ \ {Id(s)}]
      [] s.kind = "ce128Client" -> ClientCloses(o, Id(s))
      [] s.kind = "ce128Server" -> o

\* onError, as often as it is called: the handler learns of it unless we have
\* closed the connection ourselves.
StreamFailed(o, s, localClose) ==
    LET left == [o EXCEPT !.streams = WithoutKeys(@, {Id(s)})]
    IN  IF localClose THEN left ELSE HandlerCloses(left, s)

\* A stream that is no more, in what the model keeps beside the code's state.
Forgotten(o, s) ==
    [o EXCEPT !.live = @ \ {s}, !.greeted = @ \ {s}, !.announced = @ \ {s}, !.heard = @ \ {s}]

SendHandshake(o, s) ==
    IF Id(s) \in o.handshakes \cup o.pendingHandshakes THEN o
    ELSE [o EXCEPT !.pendingHandshakes = @ \cup {Id(s)}, !.greeted = @ \cup {s}]

OpenUp0(o, p, c, dialed) ==
    LET s == NextStream(o, p, c, OurSide(dialed), "up0") IN SendHandshake(Registered(o, s), s)

\* requestBlockSequence: one request for an id.
RequestBlockSequence(o, s, request) ==
    IF Id(s) \in DOMAIN o.resolvers THEN o ELSE [o EXCEPT !.resolvers = With(@, Id(s), request)]

PeerOf(o, id) == IF id \in DOMAIN o.streams THEN {o.streams[id].peer} ELSE {}

-----------------------------------------------------------------------------
\* Connections

Fresh == [ref |-> NoOne, persistent |-> FALSE, retry |-> 0, task |-> "none", aux |-> NoOne]

Connected(info, p, c) ==
    With(info, p, IF p \in DOMAIN info THEN [info[p] EXCEPT !.ref = c, !.retry = @ \div 2]
                                       ELSE [Fresh EXCEPT !.ref = c])

\* scheduleReconnect up to the timer: a peer is given up after MaxRetries, but
\* for a bootnode (whose count the model does not carry on).
Rescheduled(info, p) ==
    IF p \notin DOMAIN info THEN info
    ELSE IF info[p].retry < MaxRetries THEN [info EXCEPT ![p].retry = @ + 1, ![p].task = "sleeping"]
    ELSE IF info[p].persistent THEN [info EXCEPT ![p].task = "sleeping"]
    ELSE WithoutKeys(info, {p})

\* A newer connection takes the place of the one before.
PeerConnected(known, p, c) == With(known, p, c)

\* newPeer and the two listeners of onPeerConnected.
NewPeer(c, p, dialed) ==
    /\ conn[c].state = "unused"
    /\ \A d \in Connection : d < c => conn[d].state # "unused"
    /\ conn' = [conn EXCEPT ![c] = [peer |-> p, dialed |-> dialed, state |-> "open"]]
    /\ peers' = PeerConnected(peers, p, c)
    /\ io' = OpenUp0(io, p, c, dialed)

\* A second connection from a connected peer is refused.
IncomingConnection(c, p) ==
    /\ p \notin DOMAIN peers
    /\ NewPeer(c, p, FALSE)
    /\ peerInfo' = Connected(peerInfo, p, c)
    /\ UNCHANGED <<othersBest, chain, arriving>>

\* The timer of the reconnect task: nothing to do if the peer is back.
RetryTimer(p) ==
    /\ p \in DOMAIN peerInfo /\ peerInfo[p].task = "sleeping"
    /\ peerInfo' = [peerInfo EXCEPT ![p].task =
            IF peerInfo[p].ref # NoOne \/ p \in DOMAIN peers THEN "none" ELSE "dialing"]
    /\ UNCHANGED <<conn, peers, io, othersBest, chain, arriving>>

\* NoOne asks again whether the peer has connected in the meantime.
DialSucceeds(c, p) ==
    /\ p \in DOMAIN peerInfo /\ peerInfo[p].task = "dialing"
    /\ NewPeer(c, p, TRUE)
    /\ peerInfo' = Connected([peerInfo EXCEPT ![p].task = "none"], p, c)
    /\ UNCHANGED <<othersBest, chain, arriving>>

DialFails(p) ==
    /\ p \in DOMAIN peerInfo /\ peerInfo[p].task = "dialing"
    /\ peerInfo' = IF p \in DOMAIN peers THEN [peerInfo EXCEPT ![p].task = "none"]
                   ELSE Rescheduled(peerInfo, p)
    /\ UNCHANGED <<conn, peers, io, othersBest, chain, arriving>>

\* The peer closes the connection, or it times out.
ConnectionBreaks(c) ==
    /\ conn[c].state = "open"
    /\ conn' = [conn EXCEPT ![c].state = "lost"]
    /\ UNCHANGED <<peers, peerInfo, io, othersBest, chain, arriving>>

\* peer.disconnect()
Disconnected(c) == IF conn[c].state = "open" THEN [conn EXCEPT ![c].state = "stopping"] ELSE conn

\* QUIC tells every open stream of a connection that ends.
StreamEnds(s) ==
    /\ s \in io.live /\ conn[s.conn].state \in {"stopping", "lost"}
    /\ io' = Forgotten(StreamFailed(io, s, conn[s.conn].state = "stopping"), s)
    /\ UNCHANGED <<conn, peers, peerInfo, othersBest, chain, arriving>>

\* A message cannot be decoded or is not expected, or a write fails.
StreamThrows(s) ==
    /\ s \in io.live /\ conn[s.conn].state = "open"
    /\ io' = StreamFailed(io, s, FALSE)
    /\ conn' = Disconnected(s.conn)
    /\ UNCHANGED <<peers, peerInfo, othersBest, chain, arriving>>

\* peerDisconnected knows the peer, not the connection.
DisconnectedByConnection(known, c) ==
    IF conn[c].peer \in DOMAIN known /\ known[conn[c].peer] = c THEN WithoutKeys(known, {conn[c].peer}) ELSE known
PeerDisconnected(known, c) == WithoutKeys(known, {conn[c].peer})

ConnectionCloses(c) ==
    /\ conn[c].state \in {"stopping", "lost"}
    /\ \A s \in io.live : s.conn # c
    /\ conn' = [conn EXCEPT ![c] = [peer |-> NoOne, dialed |-> FALSE, state |-> "closed"]]
    /\ peers' = PeerDisconnected(peers, c)
    /\ LET p == conn[c].peer IN
       peerInfo' = IF p \in DOMAIN peerInfo THEN Rescheduled([peerInfo EXCEPT ![p].ref = NoOne], p)
                   ELSE peerInfo
    /\ io' = [io EXCEPT !.opened[c] = NoStreams.opened[c]]
    /\ UNCHANGED <<othersBest, chain, arriving>>

IncomingStream(c, kind) ==
    /\ conn[c].state = "open" /\ kind \in {"up0", "ce128Server"}
    /\ LET side == TheirSide(conn[c].dialed) IN
       /\ io.opened[c][side] < MaxIncoming
       /\ io' = Registered(io, NextStream(io, conn[c].peer, c, side, kind))
    /\ UNCHANGED <<conn, peers, peerInfo, othersBest, chain, arriving>>

-----------------------------------------------------------------------------
\* Announcements

Higher(b, c) == IF TimeSlot[b] < TimeSlot[c] THEN c ELSE b

\* withAuxData and othersBest, for the peer the stream manager names.
Noted(s, final, best) ==
    LET known == PeerOf(io, Id(s)) IN
    /\ peerInfo' = [p \in DOMAIN peerInfo |->
            IF p \in known THEN [peerInfo[p] EXCEPT !.aux = [final |-> final, best |-> best]] ELSE peerInfo[p]]
    /\ othersBest' = IF known = {} THEN othersBest
                     ELSE Higher(othersBest, IF best = NoOne THEN final ELSE best)

\* The peer greets first, on its own streams or in answer to our greeting.
\* Where its handshake is taken for an announcement, decoding throws.
Up0Handshake(s, b) ==
    /\ s \in io.live /\ s.kind = "up0" /\ conn[s.conn].state = "open"
    /\ s \notin io.heard /\ (s.side = TheirSide(conn[s.conn].dialed) \/ s \in io.greeted)
    /\ b \in Theirs[s.peer]
    /\ IF Id(s) \in io.handshakes
       THEN /\ io' = [StreamFailed(io, s, FALSE) EXCEPT !.heard = @ \cup {s}]
            /\ conn' = Disconnected(s.conn)
            /\ UNCHANGED <<peerInfo, othersBest>>
       ELSE /\ io' = [io EXCEPT !.heard = @ \cup {s}, !.handshakes = @ \cup {Id(s)},
                                !.pendingHandshakes = @ \ {Id(s)},
                                !.greeted = IF Id(s) \in io.pendingHandshakes THEN @ ELSE @ \cup {s}]
            /\ Noted(s, b, NoOne)
            /\ UNCHANGED conn
    /\ UNCHANGED <<peers, chain, arriving>>

Up0Announcement(s, b) ==
    /\ s \in io.live /\ s.kind = "up0" /\ conn[s.conn].state = "open"
    /\ s \in io.heard /\ Id(s) \in io.handshakes
    /\ b \in Theirs[s.peer]
    /\ Noted(s, b, b)
    /\ UNCHANGED <<conn, peers, io, chain, arriving>>

\* The streams of a kind with a peer, of which the work is done on one.
WithStreamOfKind(o, p, kind) == {id \in DOMAIN o.streams : o.streams[id].kind = kind /\ o.streams[id].peer = p}

\* Only where the handshake came.
SendAnnouncement(o, ids) == [o EXCEPT !.announced = @ \cup {o.streams[id] : id \in ids \cap o.handshakes}]

\* To one UP 0 stream of everybody connected.
BroadcastHeader ==
    /\ chain.has # {FirstBlock}
    /\ \E chosen \in [{p \in DOMAIN peerInfo : peerInfo[p].ref # NoOne} -> DOMAIN io.streams \cup {NoOne}] :
        /\ \A p \in DOMAIN chosen :
            LET its == WithStreamOfKind(io, p, "up0")
            IN  IF its = {} THEN chosen[p] = NoOne ELSE chosen[p] \in its
        /\ io' = SendAnnouncement(io, {chosen[p] : p \in DOMAIN chosen})
    /\ UNCHANGED <<conn, peers, peerInfo, othersBest, chain, arriving>>

-----------------------------------------------------------------------------
\* ChainBlock requests

BestOf(aux) == IF aux.best # NoOne THEN aux.best ELSE aux.final
Ahead(b) == TimeSlot[b] - TimeSlot[chain.best]

\* Connected peers that have told of something newer.
AskedPeers == {p \in DOMAIN peerInfo : peerInfo[p].ref # NoOne /\ peerInfo[p].aux # NoOne
                                    /\ Ahead(BestOf(peerInfo[p].aux)) > 0}

Requested(p, o) ==
    LET c == peerInfo[p].ref
        best == BestOf(peerInfo[p].aux)
        s == NextStream(o, p, c, OurSide(conn[c].dialed), "ce128Client")
    IN  RequestBlockSequence(Registered(o, s), s,
            [stream |-> s, hash |-> best, maxBlocks |-> Ahead(best), ours |-> chain.best])

MaintainSync ==
    /\ Ahead(othersBest) >= 1
    /\ \A p \in AskedPeers : LET c == peerInfo[p].ref IN
        conn[c].state = "open" /\ io.opened[c][OurSide(conn[c].dialed)] < MaxStreams
    /\ io' = FoldSet(Requested, io, AskedPeers)
    /\ UNCHANGED <<conn, peers, peerInfo, othersBest, chain, arriving>>

\* The importer wants parents first.
AsSent(blocks) == blocks
Ordered(blocks) == Reverse(blocks)

\* The answer comes and the stream is done.  Nothing tells the stream manager.
Answered(s) ==
    /\ s \in io.live /\ s.kind = "ce128Client" /\ conn[s.conn].state = "open"
    /\ Id(s) \in DOMAIN io.resolvers /\ io.resolvers[Id(s)].stream = s
    /\ LET asked == io.resolvers[Id(s)]
           blocks == ServedDescending(Theirs[s.peer], asked.hash, asked.maxBlocks)
       IN arriving' = arriving \cup {[asked |-> asked, blocks |-> Ordered(blocks)]}
    /\ io' = [io EXCEPT !.live = @ \ {s}, !.resolvers = WithoutKeys(@, {Id(s)})]
    /\ UNCHANGED <<conn, peers, peerInfo, othersBest, chain>>

\* A request of the peer is answered from our database and the stream closed.
Served(s) ==
    /\ s \in io.live /\ s.kind = "ce128Server" /\ conn[s.conn].state = "open"
    /\ io' = [io EXCEPT !.live = @ \ {s}]
    /\ UNCHANGED <<conn, peers, peerInfo, othersBest, chain, arriving>>

\* The importer takes a block it does not have and whose parent it has, and
\* what it takes is the best block.
IsImported(b) ==
    IF b \notin chain.has /\ ParentBlock[b] \in chain.has
    THEN [has |-> chain.has \cup {b}, best |-> b] ELSE chain

ImportNext(batch) ==
    /\ batch \in arriving
    /\ IF batch.blocks = <<>> THEN chain' = chain /\ arriving' = arriving \ {batch}
       ELSE /\ chain' = IsImported(Head(batch.blocks))
            /\ arriving' = (arriving \ {batch}) \cup {[batch EXCEPT !.blocks = Tail(@)]}
    /\ UNCHANGED <<conn, peers, peerInfo, io, othersBest>>

\* The node authors a block.
Authored(b) ==
    /\ b # FirstBlock /\ ParentBlock[b] = chain.best /\ b \notin chain.has
    /\ chain' = IsImported(b)
    /\ UNCHANGED <<conn, peers, peerInfo, io, othersBest, arriving>>

-----------------------------------------------------------------------------
NetworkInit ==
    /\ conn = [c \in Connection |-> [peer |-> NoOne, dialed |-> FALSE, state |-> "unused"]]
    /\ peers = <<>>
    /\ peerInfo = [p \in Bootnode |-> [Fresh EXCEPT !.persistent = TRUE, !.retry = 1, !.task = "sleeping"]]
    /\ io = NoStreams
    /\ othersBest = FirstBlock
    /\ chain = [has |-> {FirstBlock}, best |-> FirstBlock]
    /\ arriving = {}

NetworkNext ==
    \/ \E c \in Connection :
        \/ \E p \in Peer : IncomingConnection(c, p) \/ DialSucceeds(c, p)
        \/ ConnectionBreaks(c) \/ ConnectionCloses(c)
        \/ \E kind \in {"up0", "ce128Server"} : IncomingStream(c, kind)
    \/ \E p \in Peer : RetryTimer(p) \/ DialFails(p)
    \/ \E s \in io.live :
        \/ StreamEnds(s) \/ StreamThrows(s) \/ Answered(s) \/ Served(s)
        \/ \E b \in ChainBlock : Up0Handshake(s, b) \/ Up0Announcement(s, b)
    \/ BroadcastHeader \/ MaintainSync
    \/ \E batch \in arriving : ImportNext(batch)
    \/ \E b \in ChainBlock : Authored(b)

NetworkSpec == NetworkInit /\ [][NetworkNext]_networkVars

-----------------------------------------------------------------------------
(***************************************************************************)
(* The two registries of peers always agree, and name a connection that    *)
(* has not ended: a peer found by its reference can be asked, and one that *)
(* counts as connected is not dialed or given up, however connects, dials, *)
(* late disconnects and timers interleave.                                 *)
(***************************************************************************)
RegistriesAgree ==
    \A p \in Peer :
        LET named == IF p \in DOMAIN peerInfo THEN peerInfo[p].ref ELSE NoOne
        IN  /\ named = IF p \in DOMAIN peers THEN peers[p] ELSE NoOne
            /\ named # NoOne => conn[named].peer = p /\ conn[named].state # "closed"

(***************************************************************************)
(* What a peer answers to a request can be imported: the count in the      *)
(* request is made of slots, yet the blocks that come reach down to what   *)
(* we have, as long as our best block was on the way and the peer may send *)
(* that many.  And what we answer is a chain that begins where was asked.  *)
(***************************************************************************)
OnTheWay(asked) ==
    asked.ours \in ToSet(Line[asked.hash]) /\ asked.maxBlocks <= MaxSequence
IsChain(blocks) ==
    \A i \in 2..Len(blocks) : blocks[i] # FirstBlock /\ ParentBlock[blocks[i]] = blocks[i - 1]
BatchesAttach ==
    /\ \A batch \in arriving :
        batch.blocks # <<>> /\ OnTheWay(batch.asked) =>
            /\ IsChain(batch.blocks)
            /\ Head(batch.blocks) \in chain.has \/ ParentBlock[Head(batch.blocks)] \in chain.has
    /\ \A b \in chain.has, n \in 0..(MaxSequence + 1) :
        LET up == ServedAscending(chain, b, n) IN
        IsChain(<<b>> \o up) /\ Len(up) <= n

(***************************************************************************)
(* "Both sides should begin by sending a handshake message": an            *)
(* announcement only goes out on a stream our handshake went out on.       *)
(***************************************************************************)
HandshakeFirst == io.announced \subseteq io.greeted
=============================================================================
