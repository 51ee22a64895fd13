------------------------------- MODULE HostCalls -------------------------------
(***************************************************************************)
(* What a program gives to a host call and gets back                       *)
(* (jam-host-calls/general and accumulate): arguments in registers 7 to 12 *)
(* and in its memory, an answer in register 7, a part of a value in its    *)
(* memory.  A register has RegisterSize values, of which only the first    *)
(* MemorySize are addresses, lengths and service ids (2^64 and 2^32).      *)
(*                                                                         *)
(* What stands behind a call is outside: the values it hands out are given *)
(* here, what it is asked to change is kept in `effects`, and whether it   *)
(* does so is its choice (Accumulation has what it does).                  *)
(***************************************************************************)
EXTENDS Integers, Sequences, SequencesExt, FiniteSetsExt

CONSTANTS
    RegisterSize,   \* 2^64
    MemorySize,     \* 2^32
    MaxLength,      \* of an array, see safeAllocUint8Array
    Readable, Writable,   \* addresses of the program's memory
    Bytes,          \* initial contents of the memory
    HashBytes, MemoBytes, QueueBytes, ValidatorsBytes, AutoBytes,
    CoresCount,
    Current,        \* the service that runs
    Values,         \* of each service: its storage, preimages and info, as bytes
    Constants, Entropy,   \* what Fetch finds for kinds 0 and 1
    Transfers, Operands,  \* what the service is to accumulate, as bytes
    FetchKinds,     \* the kinds an accumulation offers: constants, entropy, all, one (0, 1, 14, 15)
    Slots,          \* lookup histories a Query may find
    NewId,          \* ids a new service may get
    Own,            \* what the storage of the service that runs may hold
    Registers,      \* of each call: contents of registers 7 to 12 it is made with
    None

VARIABLES
    asked,     \* the call and the registers it was made with
    regs,      \* the registers after it
    memory,
    own,       \* storage of the service that runs: values by key
    gas,
    effects,   \* what was asked for and done
    outcome    \* "running", "panic" or "oog"
hostVars == <<asked, regs, memory, own, gas, effects, outcome>>

\* HostCallResult, from the last value of a register downwards.
NONE == RegisterSize - 1
WHAT == RegisterSize - 2
OOB == RegisterSize - 3
WHO == RegisterSize - 4
FULL == RegisterSize - 5
CORE == RegisterSize - 6
CASH == RegisterSize - 7
LOW == RegisterSize - 8
HUH == RegisterSize - 9
OK == 0

HostInit ==
    /\ asked = None /\ regs = [r \in 7..12 |-> 0] /\ memory \in Bytes
    /\ own \in Own /\ gas \in 0..2 /\ effects = <<>> /\ outcome = "running"

-----------------------------------------------------------------------------
(* Registers and memory                                                    *)

ClampToU32(value) == Min({value, MemorySize - 1})
Allocated(length) == Min({MaxLength, ClampToU32(length)})

GetServiceId(value) == IF value < MemorySize THEN value ELSE None
GetServiceIdOrCurrent(value) == IF value = RegisterSize - 1 THEN Current ELSE GetServiceId(value)

\* Only the lower half of a register is an address; no bytes need no memory.
Addresses(address, length) == {(address + i) % MemorySize : i \in 0..(length - 1)}
LoadInto(length, address) ==
    IF Addresses(address, length) \subseteq Readable
    THEN [i \in 1..length |-> memory[(address + i - 1) % MemorySize]] ELSE None
StoreFrom(address, chunk) ==
    [a \in DOMAIN memory |->
        IF \E i \in DOMAIN chunk : (address + i - 1) % MemorySize = a
        THEN chunk[CHOOSE i \in DOMAIN chunk : (address + i - 1) % MemorySize = a] ELSE memory[a]]

Reply(r, value) == outcome' = "running" /\ regs' = [r EXCEPT ![7] = value]
Ends(r, how) == outcome' = how /\ regs' = r
Panic(r) == Ends(r, "panic") /\ UNCHANGED <<memory, own, effects>>
NoEffect == UNCHANGED <<own, effects>>

\* Broken form of Deliver: the count is taken for the end.
CutBehind(r, value, address, from, most) ==
    LET length == IF value = None THEN 0 ELSE Len(value)
        offset == Min({from, length})
        chunk == IF value = None THEN <<>> ELSE SubSeq(value, offset + 1, Min({most, length}))
    IN  /\ NoEffect
        /\ IF Addresses(address, Len(chunk)) \subseteq Writable
           THEN memory' = StoreFrom(address, chunk) /\ Reply(r, IF value = None THEN NONE ELSE length)
           ELSE Ends(r, "panic") /\ UNCHANGED memory

\* At most `most` bytes of a value from an offset on go to the program's
\* memory; the answer is the length of all of it.
Deliver(r, value, address, from, most) ==
    LET length == IF value = None THEN 0 ELSE Len(value)
        offset == Min({from, length})
        count == Min({most, length - offset})
        chunk == IF value = None THEN <<>> ELSE SubSeq(value, offset + 1, offset + count)
    IN  /\ NoEffect
        /\ IF Addresses(address, count) \subseteq Writable
           THEN memory' = StoreFrom(address, chunk) /\ Reply(r, IF value = None THEN NONE ELSE length)
           ELSE Ends(r, "panic") /\ UNCHANGED memory

\* The state is asked to do `effect`: it does, or refuses with an error that
\* has a code.  What names no service is refused.
Asked(r, effect, ids, errors) ==
    /\ UNCHANGED <<memory, own>>
    /\ \/ None \notin ids /\ effects' = Append(effects, effect) /\ Reply(r, OK)
       \/ \E refusal \in errors : UNCHANGED effects /\ Reply(r, refusal)

-----------------------------------------------------------------------------
(* Calls that read                                                         *)

ValueOf(id, kind, entry) ==
    IF id = None \/ id \notin DOMAIN Values THEN None
    ELSE LET all == IF id = Current /\ kind = "storage" THEN own ELSE Values[id][kind]
         IN  IF entry \in DOMAIN all THEN all[entry] ELSE None

Read(r) ==
    LET entry == LoadInto(Allocated(r[9]), r[8])
    IN  IF entry = None THEN Panic(r)
        ELSE Deliver(r, ValueOf(GetServiceIdOrCurrent(r[7]), "storage", entry), r[10], r[11], r[12])
Lookup(r) ==
    LET hash == LoadInto(HashBytes, r[8])
    IN  IF hash = None THEN Panic(r)
        ELSE Deliver(r, ValueOf(GetServiceIdOrCurrent(r[7]), "preimages", hash), r[9], r[10], r[11])
Info(r) == Deliver(r, ValueOf(GetServiceIdOrCurrent(r[7]), "info", <<>>), r[8], r[9], r[10])

\* AccumulateFetchExternalities: transfers come first, each item says what it is.
TransferOrOperand(index) ==
    IF index < Len(Transfers) THEN <<1>> \o Transfers[index + 1]
    ELSE IF index < Len(Transfers) + Len(Operands) THEN <<0>> \o Operands[index - Len(Transfers) + 1]
    ELSE None
TransfersAndOperands ==
    LET count == Len(Transfers) + Len(Operands)
    IN  FoldLeft(LAMBDA bytes, i : bytes \o TransferOrOperand(i - 1), <<count>>, [i \in 1..count |-> i])
\* Kinds that only an authorization or a refinement offers fetch nothing.
Fetched(kind, index) ==
    CASE kind = FetchKinds.constants -> Constants [] kind = FetchKinds.entropy -> Entropy
      [] kind = FetchKinds.all -> TransfersAndOperands [] kind = FetchKinds.one -> TransferOrOperand(index)
      [] OTHER -> None
Fetch(r) == Deliver(r, Fetched(ClampToU32(r[10]), r[11]), r[7], r[8], r[9])

\* One answer in two registers: the number of slots below the first of them,
\* and the third above the second.
Query(r) ==
    IF LoadInto(HashBytes, r[7]) = None THEN Panic(r)
    ELSE \E slots \in Slots :
        /\ UNCHANGED <<memory, own>> /\ effects' = Append(effects, [call |-> "query", slots |-> slots])
        /\ outcome' = "running"
        /\ regs' = [r EXCEPT
            ![7] = IF slots = None THEN NONE ELSE IF slots = <<>> THEN 0
                   ELSE ((slots[1] * MemorySize) + Len(slots)) % RegisterSize,
            ![8] = IF slots = None \/ Len(slots) < 2 THEN 0
                   ELSE IF Len(slots) = 2 THEN slots[2]
                   ELSE ((slots[3] * MemorySize) + slots[2]) % RegisterSize]

GasLeft(r) == Reply(r, gas - 1) /\ NoEffect /\ UNCHANGED memory
Log(r) == Reply(r, WHAT) /\ NoEffect /\ UNCHANGED memory
Missing(r) == Reply(r, WHAT) /\ NoEffect /\ UNCHANGED memory

-----------------------------------------------------------------------------
(* Calls that change                                                       *)

\* No value removes the key; the answer is the length of what was there.
Write(r) ==
    LET entry == LoadInto(Allocated(r[8]), r[7])
        value == LoadInto(Allocated(r[10]), r[9])
        before == ValueOf(Current, "storage", entry)
    IN  IF entry = None \/ value = None THEN Panic(r)
        ELSE /\ UNCHANGED <<memory, effects>>
             /\ \/ Reply(r, FULL) /\ UNCHANGED own
                \/ /\ own' = IF r[10] = 0 THEN [k \in DOMAIN own \ {entry} |-> own[k]]
                             ELSE [k \in DOMAIN own \cup {entry} |-> IF k = entry THEN value ELSE own[k]]
                   /\ Reply(r, IF before = None THEN NONE ELSE Len(before))

\* The gas is taken when the transfer is already noted.
Transfer(r) ==
    LET memo == LoadInto(MemoBytes, r[10])
        effect == [call |-> "transfer", to |-> GetServiceId(r[7]), amount |-> r[8], gas |-> r[9], memo |-> memo]
    IN  IF memo = None THEN Panic(r)
        ELSE \/ r[9] <= gas - 1 /\ Asked(r, effect, {effect.to}, {WHO, LOW, CASH})
             \/ /\ r[9] > gas - 1 /\ UNCHANGED <<memory, own>>
                /\ \/ effect.to # None /\ effects' = Append(effects, effect) /\ Ends(r, "oog")
                   \/ \E refusal \in {WHO, LOW, CASH} : UNCHANGED effects /\ Reply(r, refusal)

New(r) ==
    LET codeHash == LoadInto(HashBytes, r[7])
        effect == [call |-> "new", codeHash |-> codeHash, length |-> r[8], gas |-> r[9], allowance |-> r[10],
                   gratis |-> r[11], wanted |-> r[12]]
    IN  IF codeHash = None THEN Panic(r)
        ELSE /\ UNCHANGED <<memory, own>>
             /\ \/ \E id \in NewId : effects' = Append(effects, effect) /\ Reply(r, id)
                \/ \E error \in {CASH, HUH, FULL} : UNCHANGED effects /\ Reply(r, error)
Upgrade(r) ==
    LET codeHash == LoadInto(HashBytes, r[7])
    IN  IF codeHash = None THEN Panic(r)
        ELSE Asked(r, [call |-> "upgrade", codeHash |-> codeHash, gas |-> r[8], allowance |-> r[9]], {}, {})
Eject(r) ==
    LET id == GetServiceId(r[7])
        hash == LoadInto(HashBytes, r[8])
    IN  IF hash = None THEN Panic(r)
        ELSE IF id = Current THEN Reply(r, WHO) /\ NoEffect /\ UNCHANGED memory
        ELSE Asked(r, [call |-> "eject", from |-> id, hash |-> hash], {id}, {WHO, HUH})
Solicit(r) ==
    LET hash == LoadInto(HashBytes, r[7])
    IN  IF hash = None THEN Panic(r)
        ELSE Asked(r, [call |-> "solicit", hash |-> hash, length |-> r[8]], {}, {HUH, FULL})
Forget(r) ==
    LET hash == LoadInto(HashBytes, r[7])
    IN  IF hash = None THEN Panic(r)
        ELSE Asked(r, [call |-> "forget", hash |-> hash, length |-> r[8]], {}, {HUH})
Provide(r) ==
    LET id == GetServiceIdOrCurrent(r[7])
        preimage == LoadInto(Allocated(r[9]), r[8])
    IN  IF preimage = None THEN Panic(r)
        ELSE Asked(r, [call |-> "provide", to |-> id, preimage |-> preimage], {id}, {WHO, HUH})
Yield(r) ==
    LET hash == LoadInto(HashBytes, r[7])
    IN  IF hash = None THEN Panic(r) ELSE Asked(r, [call |-> "yield", hash |-> hash], {}, {})
Checkpoint(r) ==
    /\ UNCHANGED <<memory, own>> /\ Reply(r, gas - 1)
    /\ effects' = Append(effects, [call |-> "checkpoint"])

\* A service that is named twice gets the gas of its last entry.
AutoAccumulate(r) ==
    LET entry(i) == LoadInto(AutoBytes, r[11] + AutoBytes * (i - 1))
        count == Min({r[12], MemorySize})
    IN  IF \E i \in 1..count : entry(i) = None THEN None
        ELSE [id \in {entry(i)[1] : i \in 1..count} |-> entry(Max({i \in 1..count : entry(i)[1] = id}))[2]]
Bless(r) ==
    LET auto == AutoAccumulate(r)
        assigners == LoadInto(CoresCount, r[8])
        ids == {GetServiceId(r[i]) : i \in {7, 9, 10}}
    IN  IF auto = None \/ assigners = None THEN Panic(r)
        ELSE Asked(r, [call |-> "bless", assigners |-> assigners, auto |-> auto], ids, {WHO})
\* The memory is looked at before the core.
Assign(r) ==
    LET authQueue == LoadInto(QueueBytes, r[8])
        assigner == GetServiceId(r[9])
    IN  IF authQueue = None THEN Panic(r)
        ELSE IF r[7] >= CoresCount THEN Reply(r, CORE) /\ NoEffect /\ UNCHANGED memory
        ELSE Asked(r, [call |-> "assign", core |-> r[7], queue |-> authQueue], {assigner}, {HUH, WHO})
Designate(r) ==
    LET validators == LoadInto(ValidatorsBytes, r[7])
    IN  IF validators = None THEN Panic(r)
        ELSE Asked(r, [call |-> "designate", validators |-> validators], {}, {HUH})

\* The memory of an inner machine: a fault in the source is the caller's.
Pages(r) == Asked(r, [call |-> "pages", pages |-> r[8], operation |-> IF r[10] <= 4 THEN r[10] ELSE None],
                  {IF r[10] <= 4 THEN r[10] ELSE None}, {WHO, HUH})
PeekPoke(r, call) == Panic(r) \/ Asked(r, [call |-> call, from |-> r[8], to |-> r[9], length |-> r[10]], {}, {WHO, OOB})

Handle(name, r) ==
    CASE name = "read" -> Read(r) [] name = "lookup" -> Lookup(r) [] name = "info" -> Info(r) [] name = "fetch" -> Fetch(r)
      [] name = "query" -> Query(r) [] name = "gas" -> GasLeft(r) [] name = "log" -> Log(r) [] name = "missing" -> Missing(r)
      [] name = "write" -> Write(r) [] name = "transfer" -> Transfer(r) [] name = "new" -> New(r) [] name = "upgrade" -> Upgrade(r)
      [] name = "eject" -> Eject(r) [] name = "solicit" -> Solicit(r) [] name = "forget" -> Forget(r) [] name = "provide" -> Provide(r)
      [] name = "yield" -> Yield(r) [] name = "checkpoint" -> Checkpoint(r) [] name = "bless" -> Bless(r) [] name = "assign" -> Assign(r)
      [] name = "designate" -> Designate(r) [] name = "pages" -> Pages(r) [] OTHER -> PeekPoke(r, name)

\* A call costs gas before it runs.  Bound: one call from each initial state.
HostNext ==
    /\ asked = None
    /\ \E name \in DOMAIN Registers : \E r \in Registers[name] :
        /\ asked' = [name |-> name, r |-> r]
        /\ IF gas = 0 THEN Ends(r, "oog") /\ gas' = 0 /\ UNCHANGED <<memory, own, effects>>
           ELSE Handle(name, r) /\ gas' = IF outcome' = "oog" THEN 0
                   ELSE IF name = "transfer" /\ regs'[7] = OK THEN gas - 1 - r[9] ELSE gas - 1

-----------------------------------------------------------------------------
(* What must hold                                                          *)

Errors == {WHO, FULL, CORE, CASH, LOW, HUH, OOB}
Reading == [read |-> [kind |-> "storage", to |-> 10], lookup |-> [kind |-> "preimages", to |-> 9],
            info |-> [kind |-> "info", to |-> 8], fetch |-> [kind |-> "constants", to |-> 7]]

\* The slots a program takes out of the two registers.
SlotsOf(first, second) ==
    IF first = NONE THEN None
    ELSE SubSeq(<<first \div MemorySize, second % MemorySize, second \div MemorySize>>, 1, first % MemorySize)

\* Of the value there is, what the program asked for is where it wanted it.
IsDelivered(value, to, from, most, before, after) ==
    \A a \in DOMAIN before : LET i == (a - to) % MemorySize IN
        after[a] = IF i < most /\ from + i < Len(value) THEN value[from + i + 1] ELSE before[a]

\* A program learns what a call did from register 7 alone: no error code
\* stands for something that was done, nothing is done when the program ends
\* for the call (but a transfer that takes the last gas, pvm.ts undoes that),
\* the parts of a value that are read fit together, what Query packs into two
\* registers can be taken apart again, and memory that the program may not
\* write stays (jam-host-calls/general/read.ts:67, accumulate/query.ts:67,
\* accumulate/transfer.ts:72).
CallsTellTheTruth ==
    LET name == asked'.name
        r == asked'.r
        done == effects' # effects \/ own' # own
    IN  /\ outcome' # "running" =>
            memory' = memory /\ (done => (name = "transfer" /\ outcome' = "oog" /\ r[9] > gas - 1))
        /\ \A a \in DOMAIN memory \ Writable : memory'[a] = memory[a]
        /\ \A i \in 8..12 : regs'[i] = r[i] \/ (i = 8 /\ name = "query")
        /\ outcome' = "running" =>
            /\ done => (regs'[7] \notin Errors \/ name = "query")
            /\ (~done /\ regs'[7] = OK) => (name \in DOMAIN Reading \/ name \in {"gas", "write"})
            /\ name = "query" => SlotsOf(regs'[7], regs'[8]) = Last(effects').slots
            /\ name \in DOMAIN Reading =>
                LET to == Reading[name].to
                    values == {v \in UNION {UNION {{all[kind][k] : k \in DOMAIN all[kind]} : kind \in {"storage", "preimages", "info"}} :
                                    all \in {Values[id] : id \in DOMAIN Values}}
                                \cup {own[k] : k \in DOMAIN own}
                                \cup {Fetched(kind, i) : kind \in Range(FetchKinds), i \in 0..(Len(Transfers) + Len(Operands) - 1)} : Len(v) = regs'[7]}
                IN  IF regs'[7] = NONE THEN memory' = memory
                    ELSE \E value \in values : IsDelivered(value, r[to], r[to + 1], r[to + 2], memory, memory')
=============================================================================
