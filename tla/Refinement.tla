----------------------------- MODULE Refinement -----------------------------
(***************************************************************************)
(* The in-core computation of a work package: the checks of its context,   *)
(* the authorization program, the items one after the other, each by a     *)
(* program that makes host calls, and the report put together at the end.  *)
(*                                                                         *)
(* A program is what it does next: a host call, or its end.  A call costs  *)
(* one unit of gas, so a gas limit bounds the calls of a program.  Memory  *)
(* is what the calls see of it: an access with "ok" or one that faults.    *)
(* Programs started by a program are sequences of instructions that cost   *)
(* one unit each.  Services have the numbers of `Db`; "current" stands for *)
(* the register value 2^64 - 1, "wide" for an id of more than 32 bits.     *)
(***************************************************************************)
EXTENDS Integers, Sequences, FiniteSets, SequencesExt, FiniteSetsExt

CONSTANTS
    Db,             \* header -> state: [root, slot, services: id -> [codeHash, preimages: hash -> length]]
    Packages,       \* the packages that are refined
    Codes,          \* what a program may start: sequences of instructions, None for no program
    MaxCode,        \* W_C, the length of a code that is accepted
    MaxAuthorizer,  \* W_A, that of an authorizer
    MaxExports,     \* MAX_NUMBER_OF_EXPORTS_WP
    AuthorizerGas,  \* G_I
    InnerGas,       \* gas a program gives to another
    None

VARIABLES
    package,    \* what is refined, None before
    stage,      \* "anchor", "authorize", "item", "running", "done", "failed"
    gas,        \* left to the program that runs
    exported,   \* by the item that runs: the indices its program was told
    offset,     \* exports of the items before
    machines,   \* of the item that runs: [id, vm], by id
    answer,     \* what the last call put into register 7
    results,    \* of the items: [result, gasUsed, exports]
    outcome     \* None, an error, or the report

refinementVars == <<package, stage, gas, exported, offset, machines, answer, results, outcome>>

Item == package.items[Len(results) + 1]
State == Db[package.context.anchor]
LookupState == Db[package.context.lookupAnchor]
PreimageOf(state, id, hash) ==
    IF id \notin DOMAIN state.services \/ hash \notin DOMAIN state.services[id].preimages THEN None
    ELSE state.services[id].preimages[hash]

RefinementInit ==
    /\ package \in Packages /\ stage = "anchor" /\ outcome = None
    /\ gas = 0 /\ exported = <<>> /\ offset = 0 /\ machines = <<>> /\ answer = 0 /\ results = <<>>

Start(limit) == gas' = limit /\ exported' = <<>> /\ machines' = <<>> /\ answer' = 0
Fail(error) == outcome' = error /\ stage' = "failed" /\ UNCHANGED <<package, gas, exported, offset, machines, answer, results>>

(***************************************************************************)
(* The context and the authorization                                       *)
(***************************************************************************)
ContextError ==
    LET context == package.context IN
    IF context.anchor \notin DOMAIN Db THEN "StateMissing"
    ELSE IF State.root # context.stateRoot THEN "StateRootMismatch"
    ELSE IF context.lookupAnchor \notin DOMAIN Db THEN "StateMissing"
    ELSE IF LookupState.slot # context.lookupAnchorSlot THEN "InvalidLookupAnchorSlot"
    ELSE None

\* The authorizer is looked up by its hash among the preimages of its host.
AuthorizerError ==
    LET length == PreimageOf(State, package.authCodeHost, package.authCodeHash) IN
    IF length = None THEN "CodeNotFound" ELSE IF length > MaxAuthorizer THEN "CodeTooBig" ELSE None

Authorize ==
    /\ stage = "anchor"
    /\ IF ContextError # None THEN Fail(ContextError)
       ELSE IF AuthorizerError # None THEN Fail(AuthorizerError)
       ELSE /\ Start(AuthorizerGas) /\ stage' = "authorize"
            /\ UNCHANGED <<package, offset, results, outcome>>

(***************************************************************************)
(* An item: its code, its run, its result                                  *)
(***************************************************************************)
ServiceCodeError ==
    IF Item.service \notin DOMAIN State.services THEN "badCode"
    ELSE IF State.services[Item.service].codeHash # Item.codeHash THEN "badCode"
    ELSE LET length == PreimageOf(State, Item.service, Item.codeHash) IN
         IF length = None THEN "badCode" ELSE IF length > MaxCode THEN "codeOversize" ELSE None

CountingDropped(result) ==
    /\ results' = Append(results, result)
    /\ offset' = offset + Len(exported)
    /\ stage' = "item"
    /\ UNCHANGED <<package, outcome>>
\* The next item begins where the exports end that are kept of this one.
KeepResult(result) ==
    /\ results' = Append(results, result)
    /\ offset' = offset + Len(result.exports)
    /\ stage' = "item"
    /\ UNCHANGED <<package, outcome>>

Failed(error) == [result |-> error, gasUsed |-> Item.gas, exports |-> <<>>]

Refine ==
    /\ stage = "item" /\ Len(results) < Len(package.items)
    /\ IF ServiceCodeError # None
       THEN KeepResult(Failed(ServiceCodeError)) /\ UNCHANGED <<gas, exported, machines, answer>>
       ELSE Start(Item.gas) /\ stage' = "running" /\ UNCHANGED <<package, offset, results, outcome>>

\* The number of exports is looked at before the way the program ended.
Finish(status, left) ==
    /\ gas' = left
    /\ UNCHANGED <<exported, machines, answer>>
    /\ IF stage = "authorize"
       THEN /\ IF status = "ok" THEN stage' = "item" /\ outcome' = None ELSE stage' = "failed" /\ outcome' = "PvmFailed"
            /\ UNCHANGED <<package, offset, results>>
       ELSE KeepResult(IF Len(exported) # Item.exportCount THEN Failed("incorrectNumberOfExports")
                    ELSE [result |-> status, gasUsed |-> Item.gas - left, exports |-> exported])

\* A program halts, or traps; gas may also end between two calls.
ProgramEnds ==
    /\ stage \in {"authorize", "running"}
    /\ \/ \E status \in {"ok", "panic"} : Finish(status, gas)
       \/ Finish("outOfGas", 0)

Amalgamate ==
    /\ stage = "item" /\ Len(results) = Len(package.items)
    /\ stage' = "done"
    /\ outcome' = [exportsCount |-> FoldLeft(LAMBDA n, r : n + Len(r.exports), 0, results), results |-> results]
    /\ UNCHANGED <<package, gas, exported, offset, machines, answer, results>>

(***************************************************************************)
(* Host calls                                                              *)
(***************************************************************************)
\* A call is paid first; one that cannot be paid ends the program.
Call(context, effect) ==
    /\ stage \in context
    /\ IF gas = 0 THEN Finish("outOfGas", 0) ELSE effect
Everywhere == {"authorize", "running"}

Answer(value) == answer' = value /\ gas' = gas - 1 /\ UNCHANGED <<package, stage, offset, results, outcome>>
Panic == Finish("panic", gas - 1)

GasCall == Call(Everywhere, Answer(gas - 1) /\ UNCHANGED <<exported, machines>>)
MissingCall == Call(Everywhere, Answer("WHAT") /\ UNCHANGED <<exported, machines>>)

ExportSegment ==
    /\ UNCHANGED machines
    /\ LET index == offset + Len(exported) IN
       IF index >= MaxExports THEN Answer("FULL") /\ UNCHANGED exported
       ELSE Answer(index) /\ exported' = Append(exported, index)
Export == \E ok \in BOOLEAN : Call({"running"}, IF ok THEN ExportSegment ELSE Panic)

\* The service named by a register: what stands for "current" is the largest
\* id there is, and an id that is none at all stands for the item's service.
ServiceIdOrCurrent(register) == IF register = "current" THEN "4294967295" ELSE IF register = "wide" THEN None ELSE register
HistoricalLookup == stage = "running" /\
    \E register \in {"current", "wide"} \union DOMAIN LookupState.services, hash \in {Item.codeHash}, readable, writable \in BOOLEAN :
        Call({"running"},
            LET id == ServiceIdOrCurrent(register)
                length == PreimageOf(LookupState, IF id = None THEN Item.service ELSE id, hash)
            IN  IF ~readable \/ (length # None /\ length > 0 /\ ~writable) THEN Panic
                ELSE Answer(IF length = None THEN "NONE" ELSE length) /\ UNCHANGED <<exported, machines>>)

\* FetchKind, but what only an accumulation has (HostCalls.FetchKinds).
OfPackage == {"package", "configuration", "token", "context", "items", "item", "payload"}
OfItem == {"trace", "extrinsic", "import", "myExtrinsic", "myImport"}
Kinds == {"constants", "entropy", "transfers"} \cup OfPackage \cup OfItem

\* FetchContext: what may be fetched depends on the program.
Offered == [authorize |-> {"constants"} \cup OfPackage, running |-> {"constants", "entropy"} \cup OfPackage \cup OfItem]

\* A value is its length here.  A part of it is stored, and storing nothing
\* never faults.
FetchedItem(kind, index) == IF kind \in {"myExtrinsic", "myImport"} THEN Len(results) + 1 ELSE index
Fetched(kind, index, inner) ==
    IF kind \in {"constants", "entropy", "trace", "package", "context", "items"} THEN 1
    ELSE IF kind \in {"configuration", "token"} THEN package[kind]
    ELSE IF FetchedItem(kind, index) \notin DOMAIN package.items THEN None
    ELSE LET item == package.items[FetchedItem(kind, index)] IN
         CASE kind = "item" -> 1
           [] kind = "payload" -> item.payload
           [] kind \in {"extrinsic", "myExtrinsic"} -> IF inner \in DOMAIN item.extrinsics THEN item.extrinsics[inner] ELSE None
           [] kind \in {"import", "myImport"} -> IF inner \in DOMAIN item.imports THEN 1 ELSE None
Fetch ==
    \E kind \in Kinds, index \in 1..2, store \in {"nothing", "written", "fault"} :
        Call(Everywhere,
            LET length == IF kind \in Offered[stage] THEN Fetched(kind, index, 1) ELSE None
            IN  IF store = "fault" /\ length # None /\ length > 0 THEN Panic
                ELSE Answer(IF length = None THEN "NONE" ELSE length) /\ UNCHANGED <<exported, machines>>)

\* Not implemented: the promise of the whole refinement is rejected.
PagesPeekPoke ==
    Call({"running"}, Fail("rejected"))

(***************************************************************************)
(* Programs started by the program                                         *)
(***************************************************************************)
\* The smallest free id, by bisection: ids[mid] > mid where one is missing before.
MachineId ==
    LET ids == [i \in 1..Len(machines) |-> machines[i].id]
        Search[low \in 0..Len(ids), high \in 0..Len(ids)] ==
            IF low >= high THEN low
            ELSE LET mid == (low + high) \div 2 IN
                 IF ids[mid + 1] > mid THEN Search[low, mid] ELSE Search[mid + 1, high]
    IN  Search[0, Len(ids)]
Insert(entry) == SelectSeq(machines, LAMBDA m : m.id < entry.id) \o <<entry>> \o SelectSeq(machines, LAMBDA m : m.id > entry.id)
At(id) == IF \E i \in DOMAIN machines : machines[i].id = id THEN CHOOSE i \in DOMAIN machines : machines[i].id = id ELSE None

\* `calls` is what the machine has ever reported, kept for the property below.
ResetGeneric(code, pc) ==
    [code |-> code, pc |-> pc, next |-> pc, status |-> "OK", result |-> None, gas |-> 0, calls |-> <<>>]

MachineInit(code, pc) ==
    /\ UNCHANGED exported
    /\ IF code = None THEN Answer("HUH") /\ UNCHANGED machines
       ELSE Answer(MachineId) /\ machines' = Insert([id |-> MachineId, vm |-> ResetGeneric(code, pc)])
Machine == \E code \in Codes, ok \in BOOLEAN : Call({"running"}, IF ok THEN MachineInit(code, 1) ELSE Panic)

MachineExpunge(id) ==
    /\ UNCHANGED exported
    /\ IF At(id) = None THEN Answer("WHO") /\ UNCHANGED machines
       ELSE Answer(machines[At(id)].vm.pc) /\ machines' = RemoveAt(machines, At(id))
ExpungeMachine(id) == Call({"running"}, MachineExpunge(id))

ResumingTheCall(vm) == IF vm.status = "HOST" THEN [vm EXCEPT !.status = "OK", !.result = None] ELSE vm
\* After a host call the next instruction is resumed; any other status stays.
Resumed(vm) == IF vm.status = "HOST" THEN [vm EXCEPT !.status = "OK", !.pc = vm.next, !.result = None] ELSE vm
StatusOf == [host |-> "HOST", halt |-> "HALT", trap |-> "PANIC", fault |-> "FAULT"]
NextStep(before) ==
    LET vm == Resumed(before) IN
    IF vm.gas = 0 THEN [vm EXCEPT !.status = "OOG"]
    ELSE LET instruction == IF vm.pc \in DOMAIN vm.code THEN vm.code[vm.pc] ELSE "trap"
             done == [vm EXCEPT !.gas = @ - 1, !.next = vm.pc + 1,
                                !.result = IF instruction = "op" THEN @ ELSE StatusOf[instruction]]
         IN  IF done.result = None THEN [done EXCEPT !.pc = done.next] ELSE [done EXCEPT !.status = done.result]
RunProgram(vm) ==
    LET steps[n \in 0..(vm.gas + 1)] ==
            IF n = 0 THEN NextStep(vm)
            ELSE IF steps[n - 1].status = "OK" THEN NextStep(steps[n - 1]) ELSE steps[n - 1]
    IN  steps[vm.gas + 1]

MachineInvoke(id, given) ==
    /\ UNCHANGED exported
    /\ IF At(id) = None THEN Answer("WHO") /\ UNCHANGED machines
       ELSE LET vm == RunProgram([machines[At(id)].vm EXCEPT !.gas = given])
                told == IF vm.status = "HOST" THEN [vm EXCEPT !.calls = Append(@, vm.pc)] ELSE vm
            IN  Answer(vm.status) /\ machines' = [machines EXCEPT ![At(id)].vm = told]
\* Gas and registers are read from memory the results are written to.
Invoke(id) == \E given \in InnerGas, readable, writable \in BOOLEAN :
    Call({"running"}, IF readable /\ writable THEN MachineInvoke(id, given) ELSE Panic)

HostCall == GasCall \/ MissingCall \/ Export \/ HistoricalLookup \/ Fetch \/ PagesPeekPoke \/ Machine
    \/ \E id \in 0..Len(machines) : ExpungeMachine(id) \/ Invoke(id)

RefinementNext == Authorize \/ Refine \/ HostCall \/ ProgramEnds \/ Amalgamate

(***************************************************************************)
(* What must hold                                                          *)
(***************************************************************************)
\* The exports of a report are those that its programs were told the indices
\* of, in order and without gaps, though items that fail drop what they
\* exported after the fact; an item that succeeds exports what it declared,
\* and nobody is charged more than the limit (refine.ts:137, in-core.ts:144,
\* refine.ts:208).
ExportsAreIndexed ==
    stage = "done" =>
        LET all == FlattenSeq([i \in DOMAIN results |-> results[i].exports]) IN
        /\ all = [k \in 1..outcome.exportsCount |-> k - 1]
        /\ outcome.exportsCount <= MaxExports
        /\ \A i \in DOMAIN results :
            /\ results[i].exports # <<>> => Len(results[i].exports) = package.items[i].exportCount
            /\ results[i].result = "ok" => Len(results[i].exports) = package.items[i].exportCount
            /\ results[i].gasUsed \in 0..package.items[i].gas

\* A machine gets the smallest free id, and keeps it; a machine that is
\* invoked again and again, with gas that ends anywhere, reports its host
\* calls in the order of its program and none of them twice (refine.ts:156,
\* interpreter.ts:174).
GetsSmallestId ==
    \A i \in DOMAIN machines' : LET id == machines'[i].id IN
        At(id) = None => \A smaller \in 0..(id - 1) : At(smaller) # None
ReportsOnce == \A i \in DOMAIN machines : LET calls == machines[i].vm.calls IN
    \A j \in 1..(Len(calls) - 1) : calls[j] < calls[j + 1]
MachinesGoOn == GetsSmallestId /\ ReportsOnce'
=============================================================================
