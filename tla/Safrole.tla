------------------------------- MODULE Safrole -------------------------------
(***************************************************************************)
(* Safrole (jam/safrole): who may seal which slot.  What the transition    *)
(* and the seal read of the state is a record s:                           *)
(*   timeslot; entropy, a sequence of four; designated, next, current and  *)
(*   previous, sequences of validators; epochRoot, the ring of next;       *)
(*   sealing, the keys or tickets of the epoch's slots; accumulator, the   *)
(*   tickets won so far; offenders.                                        *)
(* A hash and a VRF output are injective functions of their input: a new   *)
(* entropy is named by the slot of its block, a ticket's id by who made it *)
(* for which attempt and entropy.                                          *)
(***************************************************************************)
EXTENDS Integers, Sequences, FiniteSets, SequencesExt

CONSTANTS
    EpochLength, ContestLength, TicketsPerValidator, MaxTicketsPerExtrinsic,
    Nobody          \* the null keys of an offender, and a missing marker

EpochOf(slot) == slot \div EpochLength
Phase(slot) == slot % EpochLength
IsEpochChanged(s, slot) == EpochOf(slot) > EpochOf(s.timeslot)

\* Blake2b of the accumulator and the block's entropy.
EntropyOf(slot) == slot + 4
GetEntropy(s, slot) ==
    IF IsEpochChanged(s, slot) THEN <<EntropyOf(slot)>> \o SubSeq(s.entropy, 1, 3)
    ELSE <<EntropyOf(slot)>> \o Tail(s.entropy)

\* Tickets: validators are numbers, and ids are as good as random.
SignedTicket(v, attempt, e) == [validator |-> v, attempt |-> attempt, entropy |-> e]
TicketId(t) ==
    11 * t.entropy + ((3 * (TicketsPerValidator * t.validator + t.attempt) + t.entropy) % 11)
Won(t) == [id |-> TicketId(t), attempt |-> t.attempt]
ById(t1, t2) == t1.id < t2.id

\* The ring proofs of a batch: all made for this entropy by members of the ring.
VerifyTickets(root, tickets, e) ==
    \A i \in DOMAIN tickets : tickets[i].entropy = e /\ tickets[i].validator \in ToSet(root) \ {Nobody}

WithoutOffenders(s) == [i \in DOMAIN s.designated |-> IF s.designated[i] \in s.offenders THEN Nobody ELSE s.designated[i]]
GetValidatorKeys(s, slot) ==
    IF IsEpochChanged(s, slot)
    THEN [next |-> WithoutOffenders(s), current |-> s.next, previous |-> s.current, epochRoot |-> WithoutOffenders(s)]
    ELSE [next |-> s.next, current |-> s.current, previous |-> s.previous, epochRoot |-> s.epochRoot]

\* First, last, second, last but one...
OutsideInSequencer(tickets) ==
    [i \in DOMAIN tickets |-> IF i % 2 = 1 THEN tickets[(i + 1) \div 2] ELSE tickets[Len(tickets) + 1 - (i \div 2)]]
\* A hash of the entropy and the slot chooses the validator.
FallbackKeySequencer(e, validators) ==
    [i \in 1..EpochLength |-> validators[((e + i) % Len(validators)) + 1]]

IsSaturated(s) == Len(s.accumulator) = EpochLength
GetSlotKeySequence(s, slot, validators, e) ==
    IF EpochOf(slot) = EpochOf(s.timeslot) + 1 /\ Phase(s.timeslot) >= ContestLength /\ IsSaturated(s)
    THEN [kind |-> "tickets", series |-> OutsideInSequencer(s.accumulator)]
    ELSE IF EpochOf(slot) = EpochOf(s.timeslot) THEN s.sealing
    ELSE [kind |-> "keys", series |-> FallbackKeySequencer(e, validators)]

GetEpochMark(s, slot, nextValidators) ==
    IF IsEpochChanged(s, slot)
    THEN [entropy |-> s.entropy[1], ticketsEntropy |-> s.entropy[2], validators |-> nextValidators]
    ELSE Nobody
GetTicketsMarker(s, slot) ==
    IF /\ EpochOf(slot) = EpochOf(s.timeslot)
       /\ Phase(s.timeslot) < ContestLength /\ ContestLength <= Phase(slot)
       /\ IsSaturated(s)
    THEN OutsideInSequencer(s.accumulator)
    ELSE Nobody

IsExtrinsicLengthValid(slot, tickets) ==
    Len(tickets) <= IF Phase(slot) < ContestLength THEN MaxTicketsPerExtrinsic ELSE 0
AreTicketAttemptsValid(tickets) == \A i \in DOMAIN tickets : tickets[i].attempt < TicketsPerValidator

\* The accumulator after the extrinsic: a new one, or the best EpochLength of both.
NewAccumulator(s, slot, tickets) ==
    LET won == [i \in DOMAIN tickets |-> Won(tickets[i])]
        merged == SetToSortSeq(ToSet(s.accumulator) \cup ToSet(won), ById)
    IN IF IsEpochChanged(s, slot) THEN won
       ELSE SubSeq(merged, 1, IF Len(merged) < EpochLength THEN Len(merged) ELSE EpochLength)
\* The first pair of tickets that do not increase.
OrderError(tickets) ==
    LET bad == {i \in 2..Len(tickets) : TicketId(tickets[i - 1]) >= TicketId(tickets[i])} IN
    IF bad = {} THEN "ok"
    ELSE IF TicketId(tickets[Min(bad) - 1]) = TicketId(tickets[Min(bad)]) THEN "DuplicateTicket"
    ELSE "BadTicketOrder"
HasDuplicates(s, slot, tickets) ==
    ~IsEpochChanged(s, slot) /\ \E i \in DOMAIN tickets : Won(tickets[i]) \in ToSet(s.accumulator)

\* The proofs, the order, and whether one was won before.
TicketsError(s, slot, tickets, root, e) ==
    IF ~VerifyTickets(root, tickets, e) THEN "BadTicketProof"
    ELSE IF OrderError(tickets) # "ok" THEN OrderError(tickets)
    ELSE IF HasDuplicates(s, slot, tickets) THEN "DuplicateTicket"
    ELSE "ok"

\* A mark of the header against ours: both missing, or the same bytes.
CompareWithEncoding(error, actual, expected) == IF actual = expected THEN "ok" ELSE error

\* What transition() leaves, for a block that passes.
Posterior(s, block) ==
    LET keys == GetValidatorKeys(s, block.slot)
        entropy == GetEntropy(s, block.slot)
    IN [s EXCEPT !.timeslot = block.slot, !.entropy = entropy,
                 !.next = keys.next, !.current = keys.current, !.previous = keys.previous,
                 !.epochRoot = keys.epochRoot,
                 !.sealing = GetSlotKeySequence(s, block.slot, keys.current, entropy[3]),
                 !.accumulator = NewAccumulator(s, block.slot, block.tickets)]

\* The checks of transition(), in their order; the marks come last.
TransitionError(s, block) ==
    LET keys == GetValidatorKeys(s, block.slot)
        tickets == TicketsError(s, block.slot, block.tickets, keys.epochRoot, GetEntropy(s, block.slot)[3])
        epochMark == CompareWithEncoding("EpochMarkerInvalid", GetEpochMark(s, block.slot, keys.next), block.epochMark)
        ticketsMark == CompareWithEncoding("TicketsMarkerInvalid", GetTicketsMarker(s, block.slot), block.ticketsMark)
    IN
    IF s.timeslot >= block.slot THEN "BadSlot"
    ELSE IF ~IsExtrinsicLengthValid(block.slot, block.tickets) THEN "UnexpectedTicket"
    ELSE IF ~AreTicketAttemptsValid(block.tickets) THEN "BadTicketAttempt"
    ELSE IF tickets # "ok" THEN tickets
    ELSE IF epochMark # "ok" THEN epochMark
    ELSE ticketsMark

\* What the seal of a block on s is checked with, before the transition.
GetSafroleSealState(s, slot) ==
    LET isFirst == IsEpochChanged(s, slot)
        current == IF isFirst THEN s.next ELSE s.current
    IN [current |-> current,
        entropy |-> s.entropy[IF isFirst THEN 3 ELSE 4],
        sealing |-> GetSlotKeySequence(s, slot, current, s.entropy[IF isFirst THEN 2 ELSE 3])]

\* What an author needs of the block before it is made: the keys of its slots,
\* for an entropy it names, and the marks of its header.
GetSealingKeySeries(s, slot, e) == GetSlotKeySequence(s, slot, GetValidatorKeys(s, slot).current, e)
BlockAuthorshipTransition(s, slot) ==
    [epochMark |-> GetEpochMark(s, slot, GetValidatorKeys(s, slot).next),
     ticketsMark |-> GetTicketsMarker(s, slot),
     sealing |-> GetSealingKeySeries(s, slot, GetEntropy(s, slot)[3])]

\* A seal is who signed, and which payload.
TicketSealPayload(e, attempt) == [kind |-> "tickets", entropy |-> e, attempt |-> attempt]
FallbackSealPayload(e) == [kind |-> "keys", entropy |-> e, attempt |-> 0]

VerifySealWithTicket(ticket, e, author, seal) ==
    IF seal # [validator |-> author, payload |-> TicketSealPayload(e, ticket.attempt)] THEN "IncorrectSeal"
    ELSE IF TicketId(SignedTicket(author, ticket.attempt, e)) # ticket.id THEN "InvalidTicket"
    ELSE "ok"
VerifySealWithKeys(key, e, author, seal) ==
    IF key # author THEN "InvalidValidator"
    ELSE IF seal # [validator |-> author, payload |-> FallbackSealPayload(e)] THEN "IncorrectSeal"
    ELSE "ok"
VerifyHeaderSeal(block, state) ==
    LET at == Phase(block.slot) + 1 IN
    IF block.authorIndex \notin DOMAIN state.current THEN "InvalidValidatorIndex"
    ELSE IF state.sealing.kind = "tickets"
    THEN VerifySealWithTicket(state.sealing.series[at], state.entropy, state.current[block.authorIndex], block.seal)
    ELSE VerifySealWithKeys(state.sealing.series[at], state.entropy, state.current[block.authorIndex], block.seal)

\* What the importer says of a block on top of s.
Verdict(s, block) ==
    LET sealed == VerifyHeaderSeal(block, GetSafroleSealState(s, block.slot)) IN
    IF sealed # "ok" THEN sealed ELSE TransitionError(s, block)
=============================================================================
