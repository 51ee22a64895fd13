--------------------------------- MODULE Pvm ---------------------------------
(***************************************************************************)
(* The interpreter of the PVM (core/pvm-interpreter/interpreter.ts) and    *)
(* the executor that runs it until it halts, answering its host calls      *)
(* (core/pvm-host-calls/host-calls-executor.ts).                           *)
(*                                                                         *)
(* A program is its code (numbers below 256), the set of the positions     *)
(* where an instruction begins, and the jump table.  Every instruction     *)
(* costs one unit of gas.  What a host call does is left open: it writes   *)
(* one register, spends gas, and goes on or ends the program.              *)
(***************************************************************************)
EXTENDS PvmMemory, FiniteSets

CONSTANTS
    Programs,       \* [code, starts, jumps, registers, layout, gas]
    MaxDistance,    \* MAX_INSTRUCTION_DISTANCE
    TableLimit,     \* numbers a Uint8Array holds, 256
    Registers,      \* NO_OF_REGISTERS
    Answers,        \* what a host call writes to register 0
    HostGas         \* what a host call spends

VARIABLES
    program,    \* the program, as it was loaded
    registers, memory, gas, pc,
    status,     \* Status
    nextPc,     \* of the last instruction, where a host call resumes
    answered,   \* a host call was answered and the program not resumed yet
    outcome     \* ReturnStatus, or "none"

vars == <<program, registers, memory, gas, pc, status, nextPc, answered, outcome>>

Fetch(i) == IF i < Len(program.code) THEN program.code[i + 1] ELSE 0

-----------------------------------------------------------------------------
(* What is computed of a program when it is loaded.                        *)

\* buildLookupTableForward: how far the next instruction is, or the end, in
\* an array of bytes.
Distance(i) ==
    Min({j - i : j \in {k \in i..Len(program.code) :
                            k \in program.starts \/ k = Len(program.code)}})
LookupTable(i) == Distance(i) % TableLimit

IsInstruction(i) == i < Len(program.code) /\ LookupTable(i) = 0
\* A plausible bug: the greatest distance is taken for the skip's, one less.
BytesToNextOfSkip(i) ==
    IF i >= Len(program.code) THEN 0 ELSE Min({LookupTable(i), MaxDistance - 1})

BytesToNext(i) ==
    IF i >= Len(program.code) THEN 0 ELSE Min({LookupTable(i), MaxDistance})

\* isTermination: TRAP, FALLTHROUGH, JUMP, JUMP_IND, LOAD_IMM_JUMP,
\* LOAD_IMM_JUMP_IND and the branches.
Terminations == {0, 1, 40, 50, 180} \cup (80..90) \cup (170..175)
BasicBlocks ==
    {0} \cup {i + 1 + BytesToNext(i + 1) :
                i \in {j \in 0..(Len(program.code) - 1) : IsInstruction(j) /\ Fetch(j) \in Terminations}}

-----------------------------------------------------------------------------
(* Arguments (args-decoder).                                               *)

ArgumentTypes ==
    [NO_ARGUMENTS |-> {0, 1}, ONE_IMMEDIATE |-> {10}, ONE_REGISTER_ONE_EXTENDED |-> {20},
     TWO_IMMEDIATES |-> 30..33, ONE_OFFSET |-> {40}, ONE_REGISTER_ONE_IMMEDIATE |-> 50..62,
     ONE_REGISTER_TWO_IMMEDIATES |-> 70..73, ONE_REGISTER_ONE_IMMEDIATE_ONE_OFFSET |-> 80..90,
     TWO_REGISTERS |-> 100..111, TWO_REGISTERS_ONE_IMMEDIATE |-> 120..161,
     TWO_REGISTERS_ONE_OFFSET |-> 170..175, TWO_REGISTERS_TWO_IMMEDIATES |-> {180},
     THREE_REGISTERS |-> 190..230]
IsValid(instruction) == \E t \in DOMAIN ArgumentTypes : instruction \in ArgumentTypes[t]

RegisterIndex(nibble) == Min({nibble, Registers - 1})
LowRegister(i) == RegisterIndex(Fetch(i) % 16)
HighRegister(i) == RegisterIndex(Fetch(i) \div 16)
LowLength(i) == Min({Fetch(i) % 16, 4})
HighLength(i) == Min({Fetch(i) \div 16, 4})

\* setBytes of the immediate decoders: little endian; the sign is the
\* highest bit of the last byte there is, or none for the extended one.
FromBytes(bytes) ==
    LET add(byte, value) == (byte % 2^ByteBits) + (value * 2^ByteBits)
    IN  FoldRight(add, bytes, 0)
Bytes(from, length) == SubSeq(program.code, from + 1, Min({from + length, Len(program.code)}))
Immediate(from, length) ==
    LET bytes == Bytes(from, length)
    IN  IF bytes = <<>> THEN 0 ELSE SetU64(Signed(FromBytes(bytes), ByteBits * Len(bytes)))
ExtendedImmediate(from) == FromBytes(Bytes(from, 8))

U32(v) == GetLowerU32(v)

\* Skip: to the next instruction.  What an instruction has no argument for
\* is not looked at.
Skip == 1 + BytesToNext(pc + 1)
Rest(n) == Min({4, Max({0, Skip - n})})

\* An immediate of that length, and another of what is left.
TwoImmediates(from, length) == <<Immediate(from, length), Immediate(from + length, Rest(from - pc + length))>>

Arguments ==
    LET is(type) == Fetch(pc) \in ArgumentTypes[type]
        first == IF is("TWO_REGISTERS") THEN HighRegister(pc + 1) ELSE LowRegister(pc + 1)
        second == IF is("TWO_REGISTERS") THEN LowRegister(pc + 1) ELSE HighRegister(pc + 1)
        args(third, x, y) == [first |-> first, second |-> second, third |-> third, x |-> x, y |-> y]
        two(from, length) == args(0, TwoImmediates(from, length)[1], TwoImmediates(from, length)[2])
    IN  CASE is("ONE_IMMEDIATE") \/ is("ONE_OFFSET") -> args(0, Immediate(pc + 1, Rest(1)), 0)
          [] is("ONE_REGISTER_ONE_EXTENDED") -> args(0, ExtendedImmediate(pc + 2), 0)
          [] is("TWO_IMMEDIATES") -> two(pc + 2, LowLength(pc + 1))
          [] is("ONE_REGISTER_TWO_IMMEDIATES") \/ is("ONE_REGISTER_ONE_IMMEDIATE_ONE_OFFSET") ->
                two(pc + 2, HighLength(pc + 1))
          [] is("TWO_REGISTERS_TWO_IMMEDIATES") -> two(pc + 3, LowLength(pc + 2))
          [] is("THREE_REGISTERS") -> args(LowRegister(pc + 2), 0, 0)
          [] OTHER -> args(0, Immediate(pc + 2, Rest(2)), 0)

-----------------------------------------------------------------------------
(* The effect of an instruction: a status or "none", and what becomes of   *)
(* the registers, the memory and the program counter.                      *)

Nothing == [status |-> "none", registers |-> registers, memory |-> memory, next |-> pc + Skip]
Ends(how) == [Nothing EXCEPT !.status = how]
Sets(r, v) == [Nothing EXCEPT !.registers[r] = v]

\* branch and djump
GoesTo(effect, target) ==
    IF target \in BasicBlocks THEN [effect EXCEPT !.next = target]
    ELSE [effect EXCEPT !.status = "PANIC"]

Exit == 2^W32 - 2^W16
JumpsInd(effect, address) ==
    LET index == (address \div 2) - 1
    IN  IF address = Exit THEN [effect EXCEPT !.status = "HALT"]
        ELSE IF address = 0 \/ address % 2 # 0 \/ index >= Len(program.jumps)
             THEN [effect EXCEPT !.status = "PANIC"]
        ELSE GoesTo(effect, program.jumps[index + 1])

Target(offset) == pc + Signed(U32(offset), W32)

\* loadNumber and loadSignedNumber; an access fault is a panic.
ToStatus(fault) == IF fault = "FAULT" THEN "FAULT" ELSE "PANIC"
Loads(address, r, length, isSigned) ==
    LET found == Inaccessible(memory, PagesOf(address, length), FALSE)
        value == FromBytes(LoadInto(memory, address, length))
    IN  IF found.fault # "none" THEN Ends(ToStatus(found.fault))
        ELSE Sets(r, IF isSigned THEN SignExtend(value, length * ByteBits) ELSE value)

\* store: the lower bytes of v.
Stores(address, v, length) ==
    LET found == Inaccessible(memory, PagesOf(address, length), TRUE)
        bytes == [i \in 1..length |-> (v \div 2^(ByteBits * (i - 1))) % 2^ByteBits]
    IN  IF found.fault # "none" THEN Ends(ToStatus(found.fault))
        ELSE [Nothing EXCEPT !.memory = StoreFrom(memory, address, bytes)]

\* MemoryOps.sbrk
Grows(r, length) ==
    IF CanGrow(memory, length)
    THEN [Sets(r, SignExtend32(memory.virtual)) EXCEPT !.memory = Sbrk(memory, length)]
    ELSE Ends("FAULT")

\* The dispatchers.  Loads and stores come as U8, I8, U16, I16, U32, I32 and
\* U64, and as U8, U16, U32 and U64.
LoadsNth(n, address, r) == Loads(address, r, 2^(n \div 2), n % 2 = 1)
StoresNth(n, address, v) == Stores(address, v, 2^n)

\* A register and an immediate.
Computes(op, a) ==
    LET row == WithImmediate[op - 130]
        p == IF row[2] THEN a.x ELSE registers[a.second]
        q == IF row[2] THEN registers[a.second] ELSE a.x
    IN  TwoOperands(row[1], p, q, registers[a.first])

Execute(op, a) ==
    LET reg(r) == registers[r]
        at(r) == AddWithOverflowU32(U32(reg(r)), U32(a.x))
        loaded == Sets(a.first, a.x)
        branch(condition, p, q) == IF IsTaken(condition, reg(p), q) THEN GoesTo(Nothing, Target(a.y))
                                   ELSE Nothing
    IN  CASE op = 0 \/ ~IsValid(op) -> Ends("PANIC")
          [] op = 1 -> Nothing
          [] op = 10 -> Ends("HOST")
          [] op \in {20, 51} -> loaded
          [] op \in 30..33 -> StoresNth(op - 30, U32(a.x), a.y)
          [] op = 40 -> GoesTo(Nothing, Target(a.x))
          [] op = 50 -> JumpsInd(Nothing, at(a.first))
          [] op \in 52..58 -> LoadsNth(op - 52, U32(a.x), a.first)
          [] op \in 59..62 -> StoresNth(op - 59, U32(a.x), reg(a.first))
          [] op \in 70..73 -> StoresNth(op - 70, at(a.first), a.y)
          [] op = 80 -> GoesTo(loaded, Target(a.y))
          [] op \in 81..90 -> branch(Branches[op - 80], a.first, a.x)
          [] op = 101 -> Grows(a.second, U32(reg(a.first)))
          [] op \in 100..111 -> Sets(a.second, OneOperand(TwoRegisters[op - 99], reg(a.first)))
          [] op \in 120..123 -> StoresNth(op - 120, at(a.second), reg(a.first))
          [] op \in 124..130 -> LoadsNth(op - 124, at(a.second), a.first)
          [] op \in 131..161 -> Sets(a.first, Computes(op, a))
          [] op \in 170..175 ->
                IF IsTaken(BranchesOfRegisters[op - 169], reg(a.first), reg(a.second))
                THEN GoesTo(Nothing, Target(a.x)) ELSE Nothing
          [] op = 180 ->
                JumpsInd(loaded, AddWithOverflowU32(U32(reg(a.second)), U32(a.y)))
          [] op \in 190..230 ->
                Sets(a.third, TwoOperands(ThreeRegisters[op - 189], reg(a.first), reg(a.second),
                                          reg(a.third)))

-----------------------------------------------------------------------------

\* resetJam
Start ==
    /\ registers = program.registers /\ memory = InitialMemory(program.layout)
    /\ gas = program.gas /\ pc = 0 /\ nextPc = 0
    /\ status = "OK" /\ answered = FALSE /\ outcome = "none"
Init == program \in Programs /\ Start

\* nextStep up to the gas: a resumed program goes on after its host call.
OutOfGas ==
    /\ outcome = "none" /\ (status = "OK" \/ answered) /\ gas = 0
    /\ status' = "OOG" /\ answered' = FALSE
    /\ pc' = IF answered THEN nextPc ELSE pc
    /\ UNCHANGED <<program, registers, memory, gas, nextPc, outcome>>

Resume ==
    /\ outcome = "none" /\ answered /\ gas > 0
    /\ status' = "OK" /\ pc' = nextPc /\ answered' = FALSE
    /\ UNCHANGED <<program, registers, memory, gas, nextPc, outcome>>

NextStep ==
    /\ outcome = "none" /\ status = "OK" /\ gas > 0
    /\ \E effect \in {Execute(Fetch(pc), Arguments)} :
          /\ registers' = effect.registers /\ memory' = effect.memory /\ nextPc' = effect.next
          /\ status' = IF effect.status = "none" THEN "OK" ELSE effect.status
          /\ pc' = IF effect.status = "none" THEN effect.next ELSE pc
    /\ gas' = gas - 1
    /\ UNCHANGED <<program, answered, outcome>>

\* The executor, at a host call.
HostCall(answer, spent, result) ==
    /\ outcome = "none" /\ status = "HOST" /\ ~answered
    /\ IF gas < spent
       THEN /\ gas' = 0 /\ outcome' = "OOG" /\ UNCHANGED <<registers, answered>>
       ELSE /\ gas' = gas - spent
            /\ registers' = [registers EXCEPT ![0] = answer]
            /\ outcome' = result /\ answered' = (result = "none")
    /\ UNCHANGED <<program, memory, pc, status, nextPc>>

\* getReturnValue
Return ==
    /\ outcome = "none" /\ status \notin {"OK", "HOST"}
    /\ outcome' = CASE status = "OOG" -> "OOG" [] status = "HALT" -> "OK" [] OTHER -> "PANIC"
    /\ UNCHANGED <<program, registers, memory, gas, pc, status, nextPc, answered>>

Next ==
    \/ OutOfGas \/ Resume \/ NextStep \/ Return
    \/ \E answer \in Answers, spent \in HostGas, result \in {"none", "OK", "OOG", "PANIC"} :
          HostCall(answer, spent, result)

Spec == Init /\ [][Next]_vars

-----------------------------------------------------------------------------
(* Properties.                                                             *)

\* The memory as the program sees it.
Cells(m) == [a \in {b \in 0..(MemorySize - 1) : b \div PageSize \in DOMAIN m.pages} |->
                ByteOf(m.pages[a \div PageSize], a % PageSize)]

Span(from, length) == {(from + i) % MemorySize : i \in 0..(length - 1)}
Little(cells, from, length) ==
    LET sum[i \in 0..length] ==
            IF i = 0 THEN 0
            ELSE sum[i - 1] + (cells[(from + i - 1) % MemorySize] * 2^(ByteBits * (i - 1)))
    IN  sum[length]

\* An instruction reads or writes length bytes at address, which r has or gets.
LoadedExactly(r, address, length, isSigned) ==
    /\ Span(address, length) \subseteq DOMAIN Cells(memory)
    /\ registers'[r] = LET v == Little(Cells(memory), address, length)
                       IN  IF isSigned THEN Long(Signed(v, length * ByteBits)) ELSE v
StoredExactly(v, address, length) ==
    LET old == Cells(memory)
        new == Cells(memory')
    IN  /\ DOMAIN new = DOMAIN old /\ Span(address, length) \subseteq DOMAIN new
        /\ \A a \in Span(address, length) : memory.pages[a \div PageSize].writeable
        /\ Little(new, address, length) = v % 2^(ByteBits * length)
        /\ \A a \in DOMAIN new \ Span(address, length) : new[a] = old[a]

IsExact(op, a) ==
    LET at(r) == (registers[r] + a.x) % 2^W32
        same == registers' = registers /\ memory' = memory
    IN  CASE status' \in {"OOG", "FAULT"} -> same
          [] status # "OK" \/ status' = "PANIC" \/ ~IsValid(op) -> TRUE
          [] op \in 190..230 ->
                IsMeantTwo(ThreeRegisters[op - 189], registers[a.first], registers[a.second],
                           registers[a.third], registers'[a.third])
          [] op \in 131..161 ->
                LET row == WithImmediate[op - 130]
                    p == IF row[2] THEN a.x ELSE registers[a.second]
                    q == IF row[2] THEN registers[a.second] ELSE a.x
                IN  IsMeantTwo(row[1], p, q, registers[a.first], registers'[a.first])
          [] op = 101 ->
                LET old == Cells(memory)
                    new == Cells(memory')
                IN  /\ \A b \in DOMAIN old : new[b] = old[b]
                    /\ \A b \in DOMAIN new \ DOMAIN old : new[b] = 0
                    /\ registers'[a.second] % 2^W32 = memory.virtual
                    /\ memory'.virtual = memory.virtual + (registers[a.first] % 2^W32)
                    /\ memory.virtual..(memory'.virtual - 1) \subseteq DOMAIN new
          [] op \in 100..111 -> IsMeantOne(TwoRegisters[op - 99], registers[a.first], registers'[a.second])
          [] op \in 124..130 -> LoadedExactly(a.first, at(a.second), 2^((op - 124) \div 2), op % 2 = 1)
          [] op \in 52..58 -> LoadedExactly(a.first, a.x % 2^W32, 2^((op - 52) \div 2), op % 2 = 1)
          [] op \in 120..123 -> StoredExactly(registers[a.first], at(a.second), 2^(op - 120))
          [] op \in 59..62 -> StoredExactly(registers[a.first], a.x % 2^W32, 2^(op - 59))
          [] op \in 30..33 -> StoredExactly(a.y, a.x % 2^W32, 2^(op - 30))
          [] op \in 70..73 -> StoredExactly(a.y, at(a.first), 2^(op - 70))
          [] OTHER -> memory' = memory

(* What a step does is what the instruction means: the arithmetic of       *)
(* masks, halves and shifts is that of integers and bits, memory in lazily *)
(* filled pages is one array of bytes, new heap is zero, follows the old   *)
(* and changes nothing else.  A step that faults or runs out of gas leaves *)
(* everything as it was, so that it can be repeated (load-ops.ts reads     *)
(* straight into the bytes of the register).                               *)
InstructionsAreExact == [][IsExact(Fetch(pc), Arguments)]_vars

(* Whatever is branched to, skipped, jumped to through the table or        *)
(* resumed after a host call, only what the mask says is an instruction is *)
(* ever executed, or the end of the code; in code whose instructions are   *)
(* not longer than the code of the instruction set allows (mask.ts).       *)
OnlyInstructionsRun ==
    (status = "OK" /\ 0 \in program.starts
        /\ \A i \in program.starts : Distance(i + 1) <= MaxDistance)
    => pc \in program.starts \/ pc >= Len(program.code)
=============================================================================
