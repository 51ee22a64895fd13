---------------------- MODULE TicketDistributionProofs ----------------------
(***************************************************************************)
(* Proofs about TicketDistribution for any tickets, epochs and peers, and  *)
(* without a bound on the messages between the workers.                    *)
(***************************************************************************)
EXTENDS TicketDistribution, TLAPS, WellFoundedInduction

(* Duplicates *)

\* Every element of s is there once.
Distinct(s) == \A i, j \in DOMAIN s : s[i] = s[j] => i = j

\* A set of numbers that is not empty has a least one.
LEMMA LeastNumber ==
  ASSUME NEW T, T \subseteq Nat, T # {}
  PROVE  \E n \in T : \A m \in T : n <= m
<1> DEFINE less == {pair \in Nat \X Nat : pair[1] < pair[2]}
<1>1. IsWellFoundedOn(less, Nat)
  BY NatLessThanWellFounded, Zenon DEF OpToRel
<1>2. PICK n \in T : \A m \in T : ~(<<m, n>> \in less)
  <2> HIDE DEF less
  <2> QED
    BY <1>1, WFMin, Zenon
<1>3. ASSUME NEW m \in T PROVE n <= m
  <2>1. m \in Nat /\ n \in Nat
    OBVIOUS
  <2>2. m < n => <<m, n>> \in less
    BY <2>1
  <2> HIDE DEF less
  <2>3. ~(m < n)
    BY <2>2, <1>2
  <2> QED
    BY <2>1, <2>3
<1> QED
  BY <1>3

\* A ticket that is pooled twice is in the pool once.
LEMMA AddNewKeeps ==
  ASSUME NEW s \in Seq(Ticket), NEW t \in Ticket
  PROVE  /\ AddNew(s, t) \in Seq(Ticket)
         /\ \A i \in DOMAIN AddNew(s, t) : AddNew(s, t)[i] = t \/ AddNew(s, t)[i] \in ToSet(s)
         /\ Distinct(s) => Distinct(AddNew(s, t))
<1>1. CASE Contains(s, t)
  BY <1>1 DEF AddNew, ToSet
<1>2. CASE ~Contains(s, t)
  <2>1. AddNew(s, t) = Append(s, t)
    BY <1>2 DEF AddNew
  <2>2. \A i \in 1..Len(s) : s[i] # t
    BY <1>2 DEF Contains
  <2> QED
    BY <2>1, <2>2 DEF ToSet, Distinct
<1> QED
  BY <1>1, <1>2

\* f[n] is what is kept of the first n elements of seq, for n up to last.
KeptUpTo(seq, last, f) ==
    f = [n \in 0..last |-> IF n = 0 THEN <<>> ELSE AddNew(f[n - 1], seq[n])]

\* What the first elements of a sequence leave can be told one after another.
LEMMA KeptExists ==
  ASSUME NEW seq \in Seq(Ticket)
  PROVE  \E f : KeptUpTo(seq, Len(seq), f)
<1> DEFINE T == {n \in 0..Len(seq) : ~ \E f : KeptUpTo(seq, n, f)}
<1>1. Len(seq) \in Nat
  OBVIOUS
<1>2. T = {}
  <2> SUFFICES ASSUME T # {} PROVE FALSE
    OBVIOUS
  <2>1. T \subseteq Nat
    BY <1>1
  <2>2. PICK n \in T : \A m \in T : n <= m
    BY <2>1, LeastNumber
  <2>3. n \in 0..Len(seq) /\ ~ \E f : KeptUpTo(seq, n, f)
    BY <2>2
  <2>4. CASE n = 0
    <3>1. KeptUpTo(seq, 0, [k \in 0..0 |-> <<>>])
      BY DEF KeptUpTo
    <3> QED
      BY <3>1, <2>3, <2>4
  <2>5. CASE n # 0
    <3>1. n - 1 \in 0..Len(seq) /\ ~(n <= n - 1)
      BY <2>3, <2>5, <1>1
    <3>2. PICK f : KeptUpTo(seq, n - 1, f)
      BY <3>1, <2>2
    <3> DEFINE g == [k \in 0..n |-> IF k = n THEN AddNew(f[n - 1], seq[n]) ELSE f[k]]
    <3>3. \A k \in 0..n : g[k] = IF k = 0 THEN <<>> ELSE AddNew(g[k - 1], seq[k])
      <4> SUFFICES ASSUME NEW k \in 0..n
                   PROVE  g[k] = IF k = 0 THEN <<>> ELSE AddNew(g[k - 1], seq[k])
        OBVIOUS
      <4>1. CASE k = n
        BY <4>1, <2>3, <2>5
      <4>2. CASE k # n
        <5>1. k \in 0..(n - 1) /\ g[k] = f[k]
          BY <4>2, <2>3
        <5>2. f[k] = IF k = 0 THEN <<>> ELSE AddNew(f[k - 1], seq[k])
          BY <3>2, <5>1 DEF KeptUpTo
        <5>3. k # 0 => g[k - 1] = f[k - 1]
          BY <5>1, <2>3
        <5> QED
          BY <5>1, <5>2, <5>3
      <4> QED
        BY <4>1, <4>2
    <3>4. g = [k \in 0..n |-> g[k]]
      OBVIOUS
    <3>5. KeptUpTo(seq, n, g)
      <4> HIDE DEF g
      <4> QED
        BY <3>3, <3>4 DEF KeptUpTo
    <3> QED
      BY <3>5, <2>3
  <2> QED
    BY <2>4, <2>5
<1> QED
  BY <1>1, <1>2

\* A pool dump is pooled without its duplicates, and nothing else is.
LEMMA DedupKeeps ==
  ASSUME NEW seq \in Seq(Ticket)
  PROVE  /\ Dedup(seq) \in Seq(Ticket)
         /\ ToSet(Dedup(seq)) \subseteq ToSet(seq)
         /\ Distinct(Dedup(seq))
<1> DEFINE f == CHOOSE f : KeptUpTo(seq, Len(seq), f)
           Good(s) == s \in Seq(Ticket) /\ ToSet(s) \subseteq ToSet(seq) /\ Distinct(s)
           T == {n \in 0..Len(seq) : ~Good(f[n])}
<1>1. Len(seq) \in Nat
  OBVIOUS
<1>2. Dedup(seq) = f[Len(seq)]
  BY DEF Dedup, KeptUpTo
<1>3. KeptUpTo(seq, Len(seq), f)
  BY KeptExists
<1> HIDE DEF f
<1>4. \A n \in 0..Len(seq) : f[n] = IF n = 0 THEN <<>> ELSE AddNew(f[n - 1], seq[n])
  BY <1>3 DEF KeptUpTo
<1>5. T = {}
  <2> SUFFICES ASSUME T # {} PROVE FALSE
    OBVIOUS
  <2>1. PICK n \in T : \A m \in T : n <= m
    <3>1. T \subseteq Nat
      BY <1>1
    <3> QED
      BY <3>1, LeastNumber
  <2>2. n \in 0..Len(seq) /\ ~Good(f[n])
    BY <2>1
  <2>3. CASE n = 0
    <3>1. f[n] = <<>>
      BY <2>2, <2>3, <1>4
    <3>2. Good(<<>>)
      BY DEF ToSet, Distinct
    <3> QED
      BY <3>1, <3>2, <2>2
  <2>4. CASE n # 0
    <3>1. n - 1 \in 0..Len(seq) /\ ~(n <= n - 1) /\ n \in 1..Len(seq)
      BY <2>2, <2>4, <1>1
    <3>2. Good(f[n - 1])
      BY <3>1, <2>1
    <3>3. f[n] = AddNew(f[n - 1], seq[n])
      BY <2>2, <2>4, <1>4
    <3>4. seq[n] \in Ticket /\ seq[n] \in ToSet(seq)
      BY <3>1 DEF ToSet
    <3>5. Good(AddNew(f[n - 1], seq[n]))
      BY <3>2, <3>4, AddNewKeeps DEF ToSet
    <3> QED
      BY <3>3, <3>5, <2>2
  <2> QED
    BY <2>3, <2>4
<1>6. Good(f[Len(seq)])
  BY <1>5, <1>1
<1> QED
  BY <1>2, <1>6

(* The invariant *)

\* What a message between the workers is: tickets of its epoch that were
\* accepted, one of them unless the message is a pool dump.
MessageInv(m, accepted) ==
    /\ m.kind = "ticket" => m.tickets # <<>>
    /\ \A i \in DOMAIN m.tickets : EpochOf[m.tickets[i]] = m.epoch /\ m.tickets[i] \in accepted

\* What the verified pool holds is of the epoch it is keyed by.
VerifiedInv ==
    /\ verifiedEpoch = None => verified = <<>>
    /\ \A i \in DOMAIN verified : EpochOf[verified[i]] = verifiedEpoch /\ verified[i] \in everVerified

IInv ==
    /\ TypeOK
    /\ VerifiedInv
    /\ \A i \in DOMAIN wire : MessageInv(wire[i], everVerified)
    /\ OnlyVerifiedSpread
    /\ ToSet(tickets) \subseteq everVerified

LEMMA InitIInv == Init => IInv
<1> SUFFICES ASSUME Init PROVE IInv
  OBVIOUS
<1> USE DEF Init
<1>1. 0 \in Epoch
  BY TicketAssumption DEF Epoch
<1>2. TypeOK
  BY <1>1 DEF TypeOK
<1>3. VerifiedInv /\ OnlyVerifiedSpread /\ ToSet(tickets) \subseteq everVerified
  BY DEF VerifiedInv, OnlyVerifiedSpread, ToSet
<1> QED
  BY <1>2, <1>3 DEF IInv

Message == [kind : {"ticket", "replace"}, epoch : Epoch, tickets : Seq(Ticket)]

\* A step that sends one message at most keeps what is said of the messages.
LEMMA Sending ==
  ASSUME TypeOK, \A i \in DOMAIN wire : MessageInv(wire[i], everVerified),
         everVerified \subseteq everVerified',
         NEW m \in Message, wire' = Append(wire, m), MessageInv(m, everVerified')
  PROVE  wire' \in Seq(Message) /\ \A i \in DOMAIN wire' : MessageInv(wire'[i], everVerified')
<1>1. wire \in Seq(Message)
  BY DEF TypeOK, Message
<1>2. wire' \in Seq(Message) /\ DOMAIN wire' = 1..(Len(wire) + 1)
  BY <1>1
<1>3. ASSUME NEW i \in DOMAIN wire'
      PROVE  MessageInv(wire'[i], everVerified')
  <2>1. CASE i = Len(wire) + 1
    <3>1. wire'[i] = m
      BY <2>1, <1>1
    <3> QED
      BY <3>1
  <2>2. CASE i # Len(wire) + 1
    <3>1. i \in DOMAIN wire /\ wire'[i] = wire[i]
      BY <2>2, <1>1, <1>2
    <3> QED
      BY <3>1 DEF MessageInv
  <2> QED
    BY <2>1, <2>2
<1> QED
  BY <1>2, <1>3

\* What the validator accepts goes to the verified pool and on the wire.
LEMMA FinishValidationStep ==
  ASSUME IInv, NEW v \in validating, FinishValidation(v)
  PROVE  IInv'
<1>1. v.ticket \in Ticket /\ EpochOf[v.ticket] \in Epoch
  BY TicketAssumption DEF IInv, TypeOK
<1>2. /\ validating' \subseteq validating /\ everVerified \subseteq everVerified'
      /\ UNCHANGED <<stateEpoch, epochData, currentEpoch, tickets, connected, aux, delivered, replaces>>
  BY DEF FinishValidation, netVars
<1>3. CASE ProofHolds(v.ticket)
  <2> DEFINE m == [kind |-> "ticket", epoch |-> EpochOf[v.ticket], tickets |-> <<v.ticket>>]
  <2>1. wire' = Append(wire, m) /\ AddVerified(v.ticket) /\ v.ticket \in everVerified'
    BY <1>3 DEF FinishValidation, ProofHolds
  <2>2. m \in Message /\ MessageInv(m, everVerified')
    BY <1>1, <2>1 DEF Message, MessageInv
  <2>3. wire' \in Seq(Message) /\ \A i \in DOMAIN wire' : MessageInv(wire'[i], everVerified')
    <3> HIDE DEF m
    <3> QED
      BY <2>1, <2>2, <1>2, Sending DEF IInv
  <2>4. CASE verifiedEpoch = EpochOf[v.ticket]
    <3>1. verified' = AddNew(verified, v.ticket) /\ verifiedEpoch' = EpochOf[v.ticket]
      BY <2>1, <2>4 DEF AddVerified
    <3>2. /\ verified' \in Seq(Ticket)
          /\ \A i \in DOMAIN verified' : verified'[i] = v.ticket \/ verified'[i] \in ToSet(verified)
      BY <3>1, <1>1, AddNewKeeps DEF IInv, TypeOK
    <3>3. \A u \in ToSet(verified) : EpochOf[u] = EpochOf[v.ticket] /\ u \in everVerified'
      BY <2>4, <1>2 DEF IInv, VerifiedInv, ToSet
    <3>4. VerifiedInv'
      BY <3>1, <3>2, <3>3, <2>1, <1>1, TicketAssumption DEF VerifiedInv
    <3> QED
      BY <3>1, <3>2, <3>4, <2>3, <1>1, <1>2 DEF IInv, TypeOK, Message, OnlyVerifiedSpread, netVars
  <2>5. CASE verifiedEpoch # EpochOf[v.ticket]
    <3>1. verified' = <<v.ticket>> /\ verifiedEpoch' = EpochOf[v.ticket]
      BY <2>1, <2>5 DEF AddVerified
    <3>2. VerifiedInv' /\ verified' \in Seq(Ticket)
      BY <3>1, <2>1, <1>1, TicketAssumption DEF VerifiedInv
    <3> QED
      BY <3>1, <3>2, <2>3, <1>1, <1>2 DEF IInv, TypeOK, Message, OnlyVerifiedSpread
  <2> QED
    BY <2>4, <2>5
<1>4. CASE ~ProofHolds(v.ticket)
  <2>1. UNCHANGED <<verifiedEpoch, verified, everVerified, wire>>
    BY <1>4 DEF FinishValidation
  <2> QED
    BY <2>1, <1>2 DEF IInv, TypeOK, VerifiedInv, OnlyVerifiedSpread
<1> QED
  BY <1>3, <1>4

\* The dump is of the epoch it is sent for, or empty.
LEMMA ChangeEpochStep ==
  ASSUME IInv, NEW e \in Epoch, ChangeEpoch(e)
  PROVE  IInv'
<1> DEFINE m == [kind |-> "replace", epoch |-> e, tickets |-> IF verifiedEpoch = e THEN verified ELSE <<>>]
<1>1. /\ wire' = Append(wire, m) /\ epochData' = e
      /\ UNCHANGED <<stateEpoch, validating, verifiedEpoch, verified, everVerified,
                     currentEpoch, tickets, connected, aux, delivered>>
  BY DEF ChangeEpoch, netVars
<1>2. m \in Message /\ MessageInv(m, everVerified')
  BY <1>1 DEF Message, MessageInv, IInv, TypeOK, VerifiedInv
<1>3. wire' \in Seq(Message) /\ \A i \in DOMAIN wire' : MessageInv(wire'[i], everVerified')
  <2> HIDE DEF m
  <2> QED
    BY <1>1, <1>2, Sending DEF IInv
<1> QED
  BY <1>1, <1>3 DEF IInv, TypeOK, Message, VerifiedInv, OnlyVerifiedSpread

\* What is pooled for redistribution after a message is of the epoch of the
\* message, or unchanged because the message is about an older epoch.
LEMMA HandleMessageStep ==
  ASSUME IInv, HandleMessage
  PROVE  IInv'
<1> DEFINE m == Head(wire)
<1>1. /\ wire # <<>> /\ wire \in Seq(Message) /\ wire' = Tail(wire)
      /\ UNCHANGED <<stateEpoch, epochData, validating, verifiedEpoch, verified, everVerified,
                     connected, aux, delivered>>
  BY DEF HandleMessage, authorVars, IInv, TypeOK, Message
<1>2. m = wire[1] /\ 1 \in DOMAIN wire
  BY <1>1
<1>3. m \in Message /\ MessageInv(m, everVerified)
  BY <1>1, <1>2 DEF IInv
<1>4. wire' \in Seq(Message) /\ \A i \in DOMAIN wire' : i + 1 \in DOMAIN wire /\ wire'[i] = wire[i + 1]
  BY <1>1
<1>5. \A i \in DOMAIN wire' : MessageInv(wire'[i], everVerified')
  BY <1>1, <1>4 DEF IInv
<1> HIDE DEF m
<1>6. /\ currentEpoch' \in Epoch \cup {None} /\ tickets' \in Seq(Ticket)
      /\ currentEpoch' = None => tickets' = <<>>
      /\ \A i \in DOMAIN tickets' : EpochOf[tickets'[i]] = currentEpoch' /\ tickets'[i] \in everVerified
      /\ Distinct(tickets')
  <2>1. CASE m.kind = "ticket" /\ AddTicket(m.epoch, m.tickets[1])
    <3> DEFINE t == m.tickets[1]
    <3>1. t \in Ticket /\ EpochOf[t] = m.epoch /\ m.epoch \in Epoch /\ t \in everVerified
      BY <2>1, <1>3 DEF Message, MessageInv
    <3>2. CASE IsStale(m.epoch)
      BY <2>1, <3>2 DEF AddTicket, IInv, TypeOK, OnlyVerifiedSpread, ToSet, Distinct
    <3>3. CASE ~IsStale(m.epoch)
      <4> DEFINE s == PoolFor(m.epoch)
      <4>1. tickets' = AddNew(s, t) /\ currentEpoch' = m.epoch
        BY <2>1, <3>3 DEF AddTicket
      <4>2. s \in Seq(Ticket) /\ Distinct(s) /\ \A u \in ToSet(s) : EpochOf[u] = m.epoch /\ u \in everVerified
        <5>1. CASE s = <<>>
          BY <5>1 DEF Distinct, ToSet
        <5>2. CASE s # <<>>
          <6>1. s = tickets
            BY <5>2 DEF PoolFor
          <6>2. currentEpoch # None /\ ~(m.epoch > currentEpoch) /\ ~(m.epoch < currentEpoch)
            BY <5>2, <6>1, <3>3 DEF PoolFor, IsStale, IInv, TypeOK
          <6>3. m.epoch = currentEpoch
            BY <6>2, <3>1 DEF Epoch, IInv, TypeOK
          <6> HIDE DEF s
          <6> QED
            BY <6>1, <6>3 DEF IInv, TypeOK, OnlyVerifiedSpread, ToSet, Distinct
        <5> QED
          BY <5>1, <5>2
      <4> HIDE DEF s, t
      <4>3. /\ AddNew(s, t) \in Seq(Ticket) /\ Distinct(AddNew(s, t))
            /\ \A i \in DOMAIN AddNew(s, t) : AddNew(s, t)[i] = t \/ AddNew(s, t)[i] \in ToSet(s)
        BY <4>2, <3>1, AddNewKeeps
      <4> QED
        BY <4>1, <4>2, <4>3, <3>1, TicketAssumption
    <3> QED
      BY <3>2, <3>3
  <2>2. CASE m.kind = "replace" /\ Replace(m.epoch, m.tickets)
    <3>1. currentEpoch' = m.epoch /\ tickets' = Dedup(m.tickets)
      BY <2>2 DEF Replace
    <3>2. m.epoch \in Epoch /\ m.tickets \in Seq(Ticket)
      BY <1>3 DEF Message
    <3>3. tickets' \in Seq(Ticket) /\ ToSet(tickets') \subseteq ToSet(m.tickets) /\ Distinct(tickets')
      BY <3>1, <3>2, DedupKeeps
    <3>4. \A u \in ToSet(m.tickets) : EpochOf[u] = m.epoch /\ u \in everVerified
      BY <1>3 DEF MessageInv, ToSet
    <3>5. \A i \in DOMAIN tickets' : tickets'[i] \in ToSet(m.tickets)
      BY <3>3 DEF ToSet
    <3> QED
      BY <3>1, <3>2, <3>3, <3>4, <3>5, TicketAssumption
  <2> QED
    BY <2>1, <2>2 DEF HandleMessage, m
<1> QED
  BY <1>1, <1>4, <1>5, <1>6 DEF IInv, TypeOK, Message, VerifiedInv, OnlyVerifiedSpread, ToSet, Distinct

\* Peers are sent what is in the pool.
LEMMA DistributeStep ==
  ASSUME IInv, Distribute
  PROVE  IInv'
<1>1. UNCHANGED <<stateEpoch, epochData, validating, verifiedEpoch, verified, everVerified, wire,
                  currentEpoch, tickets, connected>>
  BY DEF Distribute, authorVars
<1>2. PICK sent \in [connected -> SUBSET DOMAIN tickets] :
        /\ aux' = [p \in Peer |-> IF p \in connected THEN MarkSent(p, sent[p]) ELSE aux[p]]
        /\ delivered' = [p \in Peer |-> IF p \in connected
                                        THEN delivered[p] \cup {tickets[i] : i \in sent[p]}
                                        ELSE delivered[p]]
  BY DEF Distribute
<1>3. currentEpoch \in Epoch /\ DOMAIN tickets \subseteq Nat
  BY DEF Distribute, IInv, TypeOK
<1>4. ASSUME NEW p \in connected
      PROVE  MarkSent(p, sent[p]) \in [epoch : Epoch, seen : SUBSET Nat]
  <2>1. AuxOf(p) \in [epoch : Epoch, seen : SUBSET Nat]
    BY <1>3 DEF AuxOf, IInv, TypeOK
  <2>2. sent[p] \subseteq Nat
    BY <1>2, <1>3
  <2> QED
    BY <2>1, <2>2 DEF MarkSent
<1>5. aux' \in [Peer -> [epoch : Epoch, seen : SUBSET Nat] \cup {None}]
  BY <1>2, <1>4 DEF IInv, TypeOK
<1>6. \A p \in Peer : delivered'[p] \subseteq everVerified
  BY <1>2 DEF IInv, OnlyVerifiedSpread, ToSet
<1> QED
  BY <1>1, <1>5, <1>6 DEF IInv, TypeOK, VerifiedInv, OnlyVerifiedSpread

\* Every step keeps the invariant.
LEMMA StepIInv == IInv /\ [Next]_vars => IInv'
<1> SUFFICES ASSUME IInv, [Next]_vars PROVE IInv'
  OBVIOUS
<1>1. ASSUME NEW t \in Ticket, ReceiveTicket(t) \/ GenerateTicket(t)
      PROVE  IInv'
  <2>1. PICK source \in {"network", "generator"} : StartValidation(source, t)
    BY <1>1 DEF ReceiveTicket, GenerateTicket
  <2> QED
    BY <2>1 DEF StartValidation, netVars, IInv, TypeOK, VerifiedInv, OnlyVerifiedSpread
<1>2. ASSUME NEW v \in validating, FinishValidation(v)
      PROVE  IInv'
  BY <1>2, FinishValidationStep
<1>3. ASSUME NEW e \in Epoch, ChangeEpoch(e)
      PROVE  IInv'
  BY <1>3, ChangeEpochStep
<1>4. CASE AdvanceState
  <2>1. stateEpoch' \in Epoch
    <3>1. stateEpoch \in Epoch
      BY DEF IInv, TypeOK
    <3>2. stateEpoch < LastEpoch /\ stateEpoch' = stateEpoch + 1 /\ LastEpoch \in Nat
      BY <1>4, TicketAssumption DEF AdvanceState
    <3> QED
      BY <3>1, <3>2 DEF Epoch
  <2> QED
    BY <1>4, <2>1 DEF AdvanceState, netVars, IInv, TypeOK, VerifiedInv, OnlyVerifiedSpread
<1>5. CASE HandleMessage
  BY <1>5, HandleMessageStep
<1>6. CASE Distribute
  BY <1>6, DistributeStep
<1>7. ASSUME NEW p \in Peer, Connect(p) \/ Disconnect(p)
      PROVE  IInv'
  BY <1>7 DEF Connect, Disconnect, authorVars, IInv, TypeOK, VerifiedInv, OnlyVerifiedSpread
<1>8. CASE UNCHANGED vars
  BY <1>8 DEF vars, IInv, TypeOK, VerifiedInv, OnlyVerifiedSpread
<1> QED
  BY <1>1, <1>2, <1>3, <1>4, <1>5, <1>6, <1>7, <1>8 DEF Next

-----------------------------------------------------------------------------

\* The variables keep their types: epochs, pools and messages are what the two
\* workers take them for.
THEOREM TypeCorrect == Spec => []TypeOK
<1>1. IInv => TypeOK
  BY DEF IInv
<1> QED
  BY <1>1, InitIInv, StepIInv, PTL DEF Spec

\* The pool of the network worker holds tickets of its epoch only, each once,
\* and no peer is sent a ticket that the validator did not accept.
THEOREM SpreadOnceVerified == Spec => []OnlyVerifiedSpread
<1>1. IInv => OnlyVerifiedSpread
  BY DEF IInv
<1> QED
  BY <1>1, InitIInv, StepIInv, PTL DEF Spec

\* What the network worker pools, and what is under way to it, was accepted by
\* the validator of the authorship worker.
THEOREM PooledOnceVerified == Spec => []OnlyVerifiedPooled
<1>1. IInv => OnlyVerifiedPooled
  BY DEF IInv, OnlyVerifiedPooled, MessageInv, ToSet
<1> QED
  BY <1>1, InitIInv, StepIInv, PTL DEF Spec
=============================================================================
