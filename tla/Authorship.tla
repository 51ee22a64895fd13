------------------------------ MODULE Authorship ------------------------------
(***************************************************************************)
(* The block authorship worker: a loop that wakes up once a slot, looks up *)
(* in the data of the epoch whether the slot is ours, and makes a block on *)
(* top of the best one with the tickets it has verified.  Meanwhile other  *)
(* blocks are imported, tickets arrive and our own are being generated.    *)
(***************************************************************************)
EXTENDS Safrole

CONSTANTS
    Validators,     \* the sequences of validators that may be designated
    Ours,           \* the validators whose keys we have
    MaxSlot         \* bound on the time

VARIABLES
    best,           \* the state of the best block
    clock,          \* the slot of the virtual time; 0 when fast forwarding
    worker,         \* the loop: where it is, what it read of the database
    epochData,      \* EpochData of the loop; Nobody before the first epoch
    verified,       \* VerifiedTicketPool: the tickets of one epoch
    generating,     \* what the ticket generator is at
    authored        \* the last block made, and on what

authorshipVars == <<best, clock, worker, epochData, verified, generating, authored>>

GenesisState(validators) ==
    [timeslot |-> 0, entropy |-> <<4, 3, 2, 1>>, designated |-> validators, next |-> validators,
     current |-> validators, previous |-> validators, epochRoot |-> validators,
     sealing |-> [kind |-> "keys", series |-> FallbackKeySequencer(2, validators)],
     accumulator |-> <<>>, offenders |-> {}]

Init ==
    /\ \E validators \in Validators : best = GenesisState(validators)
    /\ clock \in {0, 1}
    /\ worker = [pc |-> "waiting", slot |-> 0, state |-> best]
    /\ epochData = Nobody
    /\ verified = [epoch |-> Nobody, tickets |-> {}]
    /\ generating = Nobody
    /\ authored = Nobody

IsFastForward == clock = 0

(***************************************************************************)
(* EpochTracker and EpochAuthoringSlots.                                   *)
(***************************************************************************)
OwnTickets(e) == {SignedTicket(v, a, e) : v \in Ours, a \in 0..(TicketsPerValidator - 1)}

SealingOfEpoch(s, slot) ==
    IF IsEpochChanged(s, slot) THEN GetSealingKeySeries(s, slot, s.entropy[2]) ELSE s.sealing

\* What seals each slot of the series for us, or Nobody.
GetOurSlots(sealing, e) ==
    [i \in DOMAIN sealing.series |->
        IF sealing.kind = "keys"
        THEN IF sealing.series[i] \in Ours THEN [key |-> sealing.series[i], payload |-> FallbackSealPayload(e)] ELSE Nobody
        ELSE LET mine == {t \in OwnTickets(e) : TicketId(t) = sealing.series[i].id} IN
             IF mine = {} THEN Nobody
             ELSE [key |-> (CHOOSE t \in mine : TRUE).validator,
                   payload |-> TicketSealPayload(e, (CHOOSE t \in mine : TRUE).attempt)]]

\* The entropy the seals of the epoch are made with, shifted or not yet.
SealEntropyUnshifted(s, slot) == s.entropy[4]
SealEntropy(s, slot) == IF IsEpochChanged(s, slot) THEN s.entropy[3] ELSE s.entropy[4]

GetEpochData(s, slot) ==
    LET sealing == SealingOfEpoch(s, slot) IN
    [epoch |-> EpochOf(slot), sealing |-> sealing, slots |-> GetOurSlots(sealing, SealEntropy(s, slot))]

(***************************************************************************)
(* Tickets.                                                                *)
(***************************************************************************)
\* BandersnatchTicketValidator, with the state of the best block.
Validate(s, epoch, tickets) ==
    /\ EpochOf(s.timeslot) <= epoch /\ epoch <= EpochOf(s.timeslot) + 1
    /\ VerifyTickets(s.epochRoot, tickets, s.entropy[IF epoch > EpochOf(s.timeslot) THEN 2 ELSE 3])

AddVerified(pool, epoch, tickets) ==
    [epoch |-> epoch, tickets |-> ToSet(tickets) \cup IF pool.epoch = epoch THEN pool.tickets ELSE {}]
GetForEpoch(epoch) == IF verified.epoch = epoch THEN verified.tickets ELSE {}

OnEpochTickets(epoch, tickets) ==
    verified' = IF Validate(best, epoch, tickets) THEN AddVerified(verified, epoch, tickets) ELSE verified

\* TicketGenerator.generateTickets: at the start of the epoch the state is still
\* that of the one before.
GenerateTickets(s, isEpochStart) ==
    LET ring == IF isEpochStart THEN s.designated ELSE s.next
        e == s.entropy[IF isEpochStart THEN 2 ELSE 3]
    IN SetToSortSeq({t \in OwnTickets(e) : t.validator \in ToSet(ring)}, LAMBDA t, u : TicketId(t) < TicketId(u))

\* prepareTicketsExtrinsic: not accumulated yet, the lowest ids first.
PrepareTicketsExtrinsic(s, tickets) ==
    LET fresh == SetToSortSeq({t \in tickets : \A i \in DOMAIN s.accumulator : s.accumulator[i].id # TicketId(t)},
                              LAMBDA t, u : TicketId(t) < TicketId(u))
    IN SubSeq(fresh, 1, IF Len(fresh) < MaxTicketsPerExtrinsic THEN Len(fresh) ELSE MaxTicketsPerExtrinsic)

(***************************************************************************)
(* BlockGenerator.nextBlock on top of s.                                   *)
(***************************************************************************)
NextBlock(s, index, key, payload, slot, tickets) ==
    LET made == BlockAuthorshipTransition(s, slot) IN
    [slot |-> slot,
     authorIndex |-> index,
     seal |-> [validator |-> key, payload |-> payload],
     tickets |-> IF Phase(slot) < ContestLength THEN PrepareTicketsExtrinsic(s, tickets) ELSE <<>>,
     epochMark |-> made.epochMark,
     ticketsMark |-> made.ticketsMark]

(***************************************************************************)
(* The loop of main().                                                     *)
(***************************************************************************)
\* A new slot: enter its epoch when the state is not in it yet.
Wake ==
    LET slot == IF IsFastForward THEN best.timeslot + 1 ELSE clock
        enters == epochData = Nobody \/ IsEpochChanged(best, slot)
    IN
    /\ worker.pc = "waiting" /\ slot <= MaxSlot
    /\ IsFastForward \/ clock > worker.slot
    /\ worker' = [pc |-> "author", slot |-> slot, state |-> best]
    /\ epochData' = IF enters THEN GetEpochData(best, slot) ELSE epochData
    /\ generating' = IF enters /\ Phase(slot) < ContestLength
                     THEN [epoch |-> EpochOf(slot), tickets |-> GenerateTickets(best, Phase(slot) = 0)]
                     ELSE generating
    /\ UNCHANGED <<best, clock, verified, authored>>

Seal == epochData.slots[Phase(worker.slot) + 1]
IndicesOf(key, validators) == {i \in DOMAIN validators : validators[i] = key}
Sleep == worker' = [worker EXCEPT !.pc = "waiting"]

\* The slot is somebody else's, or we are no validator.
NotOurs ==
    /\ worker.pc = "author"
    /\ Seal # Nobody => IndicesOf(Seal.key, worker.state.current) = {}
    /\ Sleep
    /\ UNCHANGED <<best, clock, epochData, verified, generating, authored>>

\* Make the block from what the database holds by now.
Author ==
    /\ worker.pc = "author" /\ Seal # Nobody
    /\ \E index \in IndicesOf(Seal.key, worker.state.current) :
        /\ \A i \in IndicesOf(Seal.key, worker.state.current) : index <= i
        /\ authored' = [on |-> best,
                        block |-> NextBlock(best, index, Seal.key, Seal.payload, worker.slot, GetForEpoch(epochData.epoch))]
    /\ worker' = [worker EXCEPT !.pc = "send"]
    /\ UNCHANGED <<best, clock, epochData, verified, generating>>

\* sendBlock waits for the import.  On another block by now, it is a fork.
Sent ==
    /\ worker.pc = "send"
    /\ best' = IF authored.on = best /\ Verdict(best, authored.block) = "ok" THEN Posterior(best, authored.block) ELSE best
    /\ Sleep
    /\ UNCHANGED <<clock, epochData, verified, generating, authored>>

\* A block of another validator, with the tickets it had; accumulation may
\* designate other validators.
ImportedFrom(v, slot, tickets, validators) ==
    LET seal == GetSafroleSealState(best, slot)
        at == seal.sealing.series[Phase(slot) + 1]
        payload == IF seal.sealing.kind = "keys" THEN FallbackSealPayload(seal.entropy) ELSE TicketSealPayload(seal.entropy, at.attempt)
    IN
    /\ best.timeslot < slot /\ slot <= IF IsFastForward THEN MaxSlot ELSE clock
    /\ v \notin Ours
    /\ \E index \in IndicesOf(v, seal.current) :
        LET block == NextBlock(best, index, v, payload, slot, tickets) IN
        /\ Verdict(best, block) = "ok"
        /\ best' = [Posterior(best, block) EXCEPT !.designated = validators]
    /\ UNCHANGED <<clock, worker, epochData, verified, generating, authored>>

\* A shard of our tickets is done, and dropped when the epoch is over.
TicketsGenerated ==
    /\ generating # Nobody
    /\ IF generating.epoch = epochData.epoch THEN OnEpochTickets(generating.epoch, generating.tickets) ELSE UNCHANGED verified
    /\ generating' = Nobody
    /\ UNCHANGED <<best, clock, worker, epochData, authored>>

\* Tickets of another validator, for the epoch it is in.
ReceivedTickets(v, e, epoch) ==
    /\ v \notin Ours
    /\ OnEpochTickets(epoch, <<SignedTicket(v, 0, e)>>)
    /\ UNCHANGED <<best, clock, worker, epochData, generating, authored>>

Tick ==
    /\ ~IsFastForward /\ clock < MaxSlot
    /\ clock' = clock + 1
    /\ UNCHANGED <<best, worker, epochData, verified, generating, authored>>

Everybody == UNION {ToSet(validators) : validators \in Validators}
Next ==
    \/ Wake \/ NotOurs \/ Author \/ Sent \/ Tick \/ TicketsGenerated
    \/ \E v \in Everybody, slot \in 1..MaxSlot, n \in 0..1, validators \in Validators :
        ImportedFrom(v, slot, {SignedTicket(v, a, GetEntropy(best, slot)[3]) : a \in 0..(n * TicketsPerValidator - 1)}, validators)
    \/ \E v \in Everybody, e \in {best.entropy[2], best.entropy[3]}, epoch \in {EpochOf(best.timeslot), EpochOf(best.timeslot) + 1} :
        ReceivedTickets(v, e, epoch)

AuthorshipSpec == Init /\ [][Next]_authorshipVars

(***************************************************************************)
(* A block we made passes every check of the importer on the block it was  *)
(* made on: the loop's own idea of the keys, the entropy, the marks and    *)
(* the tickets of a slot is Safrole's.  That holds as long as validators   *)
(* stay the same, nothing was imported since the loop read the state, and  *)
(* the data of the epoch is what would be computed now.                    *)
(***************************************************************************)
Unchanged(s) == s.designated = s.next /\ s.next = s.current
BlocksPass ==
    authored # Nobody /\ worker.pc = "send" =>
        LET slot == authored.block.slot
            on == authored.on
        IN Unchanged(on) /\ on = worker.state /\ epochData = GetEpochData(on, slot)
            => Verdict(on, authored.block) = "ok"

\* "Per-epoch data computed once when entering (or resuming into) an epoch":
\* what a block is made with is the data of its epoch (epoch-tracker.ts 12).
EpochDataIsCurrent == worker.pc = "send" => epochData.epoch = EpochOf(authored.block.slot)
=============================================================================
