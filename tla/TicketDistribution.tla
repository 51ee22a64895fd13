------------------------ MODULE TicketDistribution ------------------------
(***************************************************************************)
(* How Safrole tickets travel: from peers and from the own generator       *)
(* through the validator of the block authorship worker into its verified  *)
(* pool (workers/block-authorship/main.ts, jam/ticket-pool), over the port *)
(* between the workers into the pool of the network worker, and from there *)
(* to the connected peers (jam/jamnp-s/tasks/ticket-distribution.ts).      *)
(*                                                                         *)
(* A ticket stands for its signature and for its id.  Batches have one     *)
(* ticket.                                                                 *)
(***************************************************************************)
EXTENDS Naturals, Sequences, FiniteSets, SequencesExt

CONSTANTS
    Ticket,       \* tickets in circulation
    EpochOf,      \* EpochOf[t]: the epoch whose entropy the ticket was made for
    Valid,        \* the tickets whose proof is good
    LastEpoch,    \* bound: epochs are 0 .. LastEpoch
    Peer,         \* remote peers
    None,         \* no epoch, no aux data
    MaxWire,      \* bound: messages under way between the workers
    MaxReplaces   \* bound: pool dumps

Epoch == 0 .. LastEpoch

ASSUME TicketAssumption ==
    /\ LastEpoch \in Nat /\ None \notin Epoch
    /\ EpochOf \in [Ticket -> Epoch] /\ Valid \subseteq Ticket

VARIABLES
    \* block authorship
    stateEpoch,     \* epoch of the best state
    epochData,      \* epoch of the cached epochData, None before the first round
    validating,     \* tickets the validator works on, with where they came from
    verifiedEpoch,  \* the key of VerifiedTicketPool.perEpoch
    verified,       \* its tickets
    \* the port from authorship to networking
    wire,
    \* networking
    currentEpoch,   \* PendingTicketPool.currentEpochValue
    tickets,        \* PendingTicketPool.tickets
    connected,      \* peers with a peerRef
    aux,            \* TICKET_AUX of each peer
    \* history and bounds
    delivered,      \* tickets each peer was sent
    everVerified,   \* tickets the validator accepted
    replaces

authorVars == <<stateEpoch, epochData, validating, verifiedEpoch, verified, everVerified>>
netVars == <<currentEpoch, tickets, connected, aux, delivered>>
vars == <<stateEpoch, epochData, validating, verifiedEpoch, verified, wire,
          currentEpoch, tickets, connected, aux, delivered, everVerified, replaces>>

Init ==
    /\ stateEpoch = 0 /\ epochData = None
    /\ validating = {} /\ verifiedEpoch = None /\ verified = <<>>
    /\ wire = <<>>
    /\ currentEpoch = None /\ tickets = <<>>
    /\ connected = {} /\ aux = [p \in Peer |-> None]
    /\ delivered = [p \in Peer |-> {}] /\ everVerified = {}
    /\ replaces = 0

AddNew(seq, t) == IF Contains(seq, t) THEN seq ELSE Append(seq, t)

\* The first of each ticket stays.
Dedup(seq) ==
    LET kept[n \in 0..Len(seq)] == IF n = 0 THEN <<>> ELSE AddNew(kept[n - 1], seq[n])
    IN  kept[Len(seq)]

-----------------------------------------------------------------------------
(* Block authorship *)

\* BandersnatchTicketValidator.validate starts: only tickets for the epoch of
\* the best state and the next one are looked at.
StartValidation(source, t) ==
    /\ EpochOf[t] \in {stateEpoch, stateEpoch + 1}
    /\ validating' = validating \cup {[source |-> source, ticket |-> t]}
    /\ UNCHANGED <<stateEpoch, epochData, verifiedEpoch, verified, everVerified, wire, netVars, replaces>>

\* A peer sends a ticket and the ipcValidator passes it on.
ReceiveTicket(t) == StartValidation("network", t)

\* The generator has a ticket for the epoch it was started in, and it is not
\* too late for it.
GenerateTicket(t) ==
    /\ epochData # None /\ EpochOf[t] = epochData
    /\ StartValidation("generator", t)

\* VerifiedTicketPool.add
AddVerified(t) ==
    /\ verifiedEpoch' = EpochOf[t]
    /\ verified' = IF verifiedEpoch = EpochOf[t] THEN AddNew(verified, t) ELSE <<t>>

\* The proof check ends.  An accepted ticket is pooled; the network worker
\* learns of it as the answer to its request, or by sendTickets.
ProofHolds(t) == t \in Valid

FinishValidation(v) ==
    /\ v \in validating
    /\ validating' = validating \ {v}
    /\ \/ /\ ProofHolds(v.ticket)
          /\ Len(wire) < MaxWire
          /\ AddVerified(v.ticket)
          /\ everVerified' = everVerified \cup ({v.ticket} \cap Valid)
          /\ wire' = Append(wire, [kind |-> "ticket", epoch |-> EpochOf[v.ticket],
                                   tickets |-> <<v.ticket>>])
       \/ /\ ~ProofHolds(v.ticket)
          /\ UNCHANGED <<verifiedEpoch, verified, everVerified, wire>>
    /\ UNCHANGED <<stateEpoch, epochData, netVars, replaces>>

\* A round of the authorship loop at a time slot of epoch e.  While the best
\* state is of an older epoch every round takes this for an epoch change, and
\* dumps the verified pool to networking (main.ts 112-137).
ChangeEpoch(e) ==
    /\ e \in {stateEpoch, stateEpoch + 1} \cap Epoch
    /\ epochData = None \/ e > stateEpoch
    /\ Len(wire) < MaxWire /\ replaces < MaxReplaces
    /\ replaces' = replaces + 1
    /\ epochData' = e
    /\ wire' = Append(wire, [kind |-> "replace", epoch |-> e,
                             tickets |-> IF verifiedEpoch = e THEN verified ELSE <<>>])
    /\ UNCHANGED <<stateEpoch, validating, verifiedEpoch, verified, everVerified, netVars>>

\* A block of the next epoch is imported.
AdvanceState ==
    /\ stateEpoch < LastEpoch
    /\ stateEpoch' = stateEpoch + 1
    /\ UNCHANGED <<epochData, validating, verifiedEpoch, verified, everVerified, wire, netVars, replaces>>

-----------------------------------------------------------------------------
(* Networking *)

\* PendingTicketPool.addTicket
IsStale(e) == currentEpoch # None /\ e < currentEpoch

PoolUncleared(e) == tickets
PoolFor(e) == IF currentEpoch # None /\ e > currentEpoch THEN <<>> ELSE tickets

AddTicket(e, t) ==
    IF IsStale(e)
    THEN UNCHANGED <<currentEpoch, tickets>>
    ELSE /\ currentEpoch' = e
         /\ tickets' = AddNew(PoolFor(e), t)

\* PendingTicketPool.replace
Replace(e, dump) ==
    /\ currentEpoch' = e
    /\ tickets' = Dedup(dump)

\* The next message of the authorship worker.
HandleMessage ==
    /\ wire # <<>>
    /\ LET m == Head(wire)
       IN  \/ m.kind = "ticket" /\ AddTicket(m.epoch, m.tickets[1])
           \/ m.kind = "replace" /\ Replace(m.epoch, m.tickets)
    /\ wire' = Tail(wire)
    /\ UNCHANGED <<authorVars, connected, aux, delivered, replaces>>

\* The aux data of a peer starts anew in each epoch.
AuxKept(p) == IF aux[p] = None THEN [epoch |-> currentEpoch, seen |-> {}] ELSE aux[p]
AuxOf(p) ==
    IF aux[p] = None \/ aux[p].epoch # currentEpoch
    THEN [epoch |-> currentEpoch, seen |-> {}]
    ELSE aux[p]

\* maintainDistribution: every ticket whose index was not seen is sent to
\* every connected peer; a ticket that could not be sent stays unseen.
Unseen(p) == DOMAIN tickets \ AuxOf(p).seen

MarkSent(p, sent) == [AuxOf(p) EXCEPT !.seen = @ \cup sent]

Distribute ==
    /\ currentEpoch # None /\ tickets # <<>>
    /\ \E sent \in [connected -> SUBSET DOMAIN tickets] :
        /\ \A p \in connected : sent[p] \subseteq Unseen(p)
        /\ aux' = [p \in Peer |-> IF p \in connected THEN MarkSent(p, sent[p]) ELSE aux[p]]
        /\ delivered' = [p \in Peer |-> IF p \in connected
                                        THEN delivered[p] \cup {tickets[i] : i \in sent[p]}
                                        ELSE delivered[p]]
    /\ UNCHANGED <<authorVars, wire, currentEpoch, tickets, connected, replaces>>

\* Peers come and go; their aux data stays.
Connect(p) ==
    /\ p \notin connected
    /\ connected' = connected \cup {p}
    /\ UNCHANGED <<authorVars, wire, currentEpoch, tickets, aux, delivered, replaces>>

Disconnect(p) ==
    /\ p \in connected
    /\ connected' = connected \ {p}
    /\ UNCHANGED <<authorVars, wire, currentEpoch, tickets, aux, delivered, replaces>>

Next ==
    \/ \E t \in Ticket : ReceiveTicket(t) \/ GenerateTicket(t)
    \/ \E v \in validating : FinishValidation(v)
    \/ \E e \in Epoch : ChangeEpoch(e)
    \/ AdvanceState
    \/ HandleMessage
    \/ Distribute
    \/ \E p \in Peer : Connect(p) \/ Disconnect(p)

Spec == Init /\ [][Next]_vars

\* The network loop runs maintainDistribution over and over, messages are
\* handled, and a stream that can be opened again and again works some time.
SendsTo(p, t) ==
    /\ Distribute
    /\ t \in delivered'[p]
FairSpec ==
    /\ Spec
    /\ WF_vars(HandleMessage)
    /\ \A p \in Peer, t \in Ticket : SF_vars(SendsTo(p, t) /\ t \notin delivered[p])

-----------------------------------------------------------------------------
(* Properties *)

TypeOK ==
    /\ stateEpoch \in Epoch /\ epochData \in Epoch \cup {None}
    /\ validating \subseteq [source : {"network", "generator"}, ticket : Ticket]
    /\ verifiedEpoch \in Epoch \cup {None} /\ verified \in Seq(Ticket)
    /\ currentEpoch \in Epoch \cup {None} /\ tickets \in Seq(Ticket)
    /\ currentEpoch = None => tickets = <<>>
    /\ wire \in Seq([kind : {"ticket", "replace"}, epoch : Epoch, tickets : Seq(Ticket)])
    /\ connected \subseteq Peer
    /\ aux \in [Peer -> [epoch : Epoch, seen : SUBSET Nat] \cup {None}]

\* The pool holds tickets of its epoch only, each one once, although messages
\* about an epoch arrive before and after its boundary, and only tickets the
\* validator accepted are redistributed (ticket-distribution.ts 30-33).
OnlyVerifiedSpread ==
    /\ \A i \in DOMAIN tickets : EpochOf[tickets[i]] = currentEpoch
    /\ \A i, j \in DOMAIN tickets : tickets[i] = tickets[j] => i = j
    /\ \A p \in Peer : delivered[p] \subseteq everVerified

\* What is pooled for redistribution was also pooled for the own blocks at
\* some time, and nothing else is under way.
OnlyVerifiedPooled ==
    /\ ToSet(tickets) \subseteq everVerified
    /\ \A i \in DOMAIN wire : ToSet(wire[i].tickets) \subseteq everVerified

\* A ticket that stays in the pool is sent to every peer that stays connected
\* (ticket-distribution.ts 27-28), although sending fails, peers reconnect and
\* the epoch changes.  Pool dumps break it: see SeenMeansSent.
ReachesPeers ==
    \A p \in Peer, t \in Ticket :
        [](replaces = 0) /\ <>[](p \in connected /\ Contains(tickets, t))
            => <>(t \in delivered[p])

\* "Indices are stable within an epoch so callers can track per-peer sent sets
\* by index" (pending-ticket-pool.ts 10-12): a seen index is a sent ticket.
SeenMeansSent ==
    \A p \in Peer :
        aux[p] # None /\ aux[p].epoch = currentEpoch =>
            \A i \in aux[p].seen \cap DOMAIN tickets : tickets[i] \in delivered[p]
=============================================================================
