----------------------------- MODULE MCInstances -----------------------------
(***************************************************************************)
(* Values for the constants of the parts in MCParts.                       *)
(***************************************************************************)
EXTENDS Integers, Sequences, SequencesExt, TLC

\* --- Pvm: a byte has one bit, so that a register has 8 and an address 4;
\* there are 8 pages of 2 bytes.

MCByteBits == 1
MCPageSize == 2
MCMinAllocation == 1
MCReserved == 1
MCSegmentPages == 1
MCDataPages == 2
MCRegisters == 3
MCMaxDistance == 4
MCTableLimit == 16
MCAnswers == {6}
MCHostGas == {0, 2}

LOCAL Memory == INSTANCE PvmMemory WITH
    ByteBits <- MCByteBits, PageSize <- MCPageSize, MinAllocation <- MCMinAllocation,
    Reserved <- MCReserved, SegmentPages <- MCSegmentPages, DataPages <- MCDataPages

\* An instruction is the sequence of its bytes.
Assembled(instructions) ==
    LET join(before, i) ==
            [code |-> before.code \o i, starts |-> before.starts \cup {Len(before.code)}]
    IN  FoldLeft(join, [code |-> <<>>, starts |-> {}], instructions)

Loaded(assembled, layout, jumps, values, limit) ==
    assembled @@ [jumps |-> jumps, layout |-> layout, gas |-> limit,
                  registers |-> [r \in 0..(MCRegisters - 1) |-> values[r + 1]]]

\* A read-only byte, no heap yet, an argument; and a heap with a byte, two
\* arguments.  One page of heap can be had in each.
Layouts ==
    {l \in {Memory!StandardSegments(<<1>>, <<>>, 0, 0, <<1>>),
            Memory!StandardSegments(<<>>, <<1>>, 0, 0, <<0, 1>>),
            Memory!StandardSegments(<<>>, <<>>, 0, 2, <<>>)} : Memory!IsBuildable(l)}
Bare == CHOOSE l \in Layouts : TRUE

\* 8 bits: small, around the halves (2 and 8), signs, the largest.
Numbers == {0, 1, 7, 8, 100, 128, 255}
Op(op, p, q) == <<op, 16 * q + p>>
Computing ==
    {Loaded(p, Bare, <<>>, <<a, b, 77>>, 3) :
        p \in {Assembled(<<<<op, 16, 2>>, <<0>>>>) : op \in 190..230}, a \in Numbers, b \in Numbers}
    \cup {Loaded(p, Bare, <<>>, <<a, 77, 0>>, 3) :
        p \in {Assembled(<<Op(op, 1, 0), <<0>>>>) : op \in (100..111) \ {101}}
                \cup {Assembled(<<Op(op, 1, 0) \o i, <<0>>>>) :
                        op \in 131..161, i \in {<<>>, <<0, 1, 0>>, <<1, 0, 1>>}},
        a \in Numbers \cup {2, 13, 16, 77, 200}}

\* Registers 0 and 1 hold addresses or lengths, register 2 what is stored.
Accesses ==
    {Op(op, 2, 1) \o <<1>> : op \in {121, 122, 125, 128}} \cup {Op(op, 2, 1) : op \in {120, 123, 124, 127, 130}}
    \cup {<<60, 2, 0, 1, 1>>, <<31, 3, 0, 1, 1, 1>>, <<72, 32, 0, 1, 1>>, <<56, 2, 0, 1, 1>>}
Accessing ==
    {Loaded(p, l, <<>>, <<n, a, 181>>, 6) :
        p \in {Assembled(<<Op(101, 0, 0), i, j, <<0>>>>) : i \in Accesses, j \in Accesses},
        l \in Layouts, n \in {0, 1, 2, 3}, a \in {5, 6, 7}}

\* Gaps, branches into and between instructions, jumps through the table, to
\* the exit and nowhere, host calls, and too little gas.
Branching ==
    {Loaded(p, Bare, <<0, 4, 5>>, <<a, 1, 0>>, limit) :
        p \in {Assembled(<<first, <<1>>, <<10, 1>>, second, <<51, 0, 1, 1>>, <<1>>>>) :
                first \in {<<40, 1, 1, 0>>, <<170, 1, 0, 1, 1>>, <<83, 16, 1, 1, 0>>, <<180, 1, 0>>,
                           <<51, 1, 1, 0, 1>>, <<80, 16, 1, 1, 1, 0>>},
                second \in {<<50, 0>>, <<50, 1>>, <<40, 0, 1, 1>>, <<85, 1, 1, 1>>, <<20, 0, 1, 1, 1>>}},
        a \in {2, 4, 6, 12}, limit \in {1, 3, 7}}

MCVmPrograms == Computing \cup Accessing \cup Branching

\* --- Refinement: work packages over two states, an anchor and a lookup anchor:
\* one item of up to four calls, two items of two calls, and packages and items
\* that are refused for each of the reasons there are.

MCDb ==
    LET service(hash) == [codeHash |-> hash, preimages |-> [code |-> 1, empty |-> 0, large |-> 3]]
    IN  [now |-> [root |-> 1, slot |-> 2, services |-> "1" :> service("code") @@ "2" :> service("lost") @@ "3" :> service("large")],
         before |-> [root |-> 0, slot |-> 1, services |-> "1" :> service("empty")]]
MCContext == [anchor |-> "now", stateRoot |-> 1, lookupAnchor |-> "before", lookupAnchorSlot |-> 1]
MCItem(gas, exports) ==
    [service |-> "1", codeHash |-> "code", exportCount |-> exports, gas |-> gas, payload |-> 0, extrinsics |-> <<1>>, imports |-> <<0>>]
MCPackage(items) ==
    [context |-> MCContext, authCodeHost |-> "1", authCodeHash |-> "code", configuration |-> 0, token |-> 1, items |-> items]
MCRefused == MCPackage(<<MCItem(1, 0)>>)

MCPackages ==
    {MCPackage(<<MCItem(4, 0)>>), MCPackage(<<MCItem(3, 1)>>), MCPackage(<<MCItem(3, 2)>>)}
    \union {MCPackage(<<MCItem(2, m), MCItem(2, n)>>) : m, n \in 0..1}
    \union {[MCRefused EXCEPT !.items[1].service = id] : id \in {"2", "3", "4"}}
    \union {[MCRefused EXCEPT !.items[1].service = "2", !.items[1].codeHash = "lost"],
            [MCRefused EXCEPT !.items[1].service = "3", !.items[1].codeHash = "large"],
            [MCRefused EXCEPT !.context.anchor = "unknown"], [MCRefused EXCEPT !.context.stateRoot = 0],
            [MCRefused EXCEPT !.context.lookupAnchor = "unknown"], [MCRefused EXCEPT !.context.lookupAnchorSlot = 2],
            [MCRefused EXCEPT !.authCodeHash = "lost"], [MCRefused EXCEPT !.authCodeHash = "large"]}
MCCodes == {<<"op", "host", "op", "host", "fault">>, <<"host", "halt">>}

\* --- HostCalls: a register has 64 values and an address 8; the memory has two
\* bytes that may be read, two that may be written, and nothing else.

MCReadable == 1..4
MCWritable == 3..4
MCHostBytes == {[a \in 0..7 |-> IF a \in 1..2 THEN 2 - a ELSE IF a \in 3..4 THEN b ELSE 0] : b \in {0, 2}}

MCValues ==
    1 :> [storage |-> <<>>, preimages |-> <<1>> :> <<2>>, info |-> <<>> :> <<3, 4, 5>>]
 @@ 7 :> [storage |-> <<>> :> <<6>>, preimages |-> <<>>, info |-> <<>> :> <<7, 8, 9>>]
MCOwn == {<<>>, <<1>> :> <<4, 5>>}

LOCAL Source == {1, 3, 6}
LOCAL Id == {1, 8, 63}
LOCAL From == {0, 1, 9}
LOCAL Most == {0, 1, 63}
LOCAL To == {3, 4, 12, 1}
\* Registers from the sets of values for register 7, 8, ...; the rest are 5.
LOCAL RegistersFrom(sets) ==
    LET all == [i \in 7..12 |-> IF i - 6 \in DOMAIN sets THEN sets[i - 6] ELSE {5}]
    IN  {[i \in 7..12 |-> <<a, b, c, d, e, f>>[i - 6]] :
            a \in all[7], b \in all[8], c \in all[9], d \in all[10], e \in all[11], f \in all[12]}

MCHostRegisters ==
    [read |-> RegistersFrom(<<Id, {1, 6}, {0, 1}, To, From, Most>>),
     lookup |-> RegistersFrom(<<Id, {1, 6}, To, From, Most>>),
     info |-> RegistersFrom(<<Id, To, From, Most>>),
     fetch |-> RegistersFrom(<<To, From, Most, {0, 1, 2, 3, 4, 63}, {0, 1, 2, 63}>>),
     query |-> RegistersFrom(<<Source>>),
     gas |-> RegistersFrom(<<>>), log |-> RegistersFrom(<<{0}, {6}, {9}>>), missing |-> RegistersFrom(<<>>),
     write |-> RegistersFrom(<<Source, {0, 1, 63}, {3, 6}, {0, 1, 2, 63}>>),
     transfer |-> RegistersFrom(<<{1, 8}, {0, 9}, {0, 1, 9}, Source>>),
     new |-> RegistersFrom(<<Source, {1}, {0}, {0}, {0, 9}, {1, 63}>>),
     upgrade |-> RegistersFrom(<<Source>>),
     eject |-> RegistersFrom(<<{1, 7, 8}, Source>>),
     solicit |-> RegistersFrom(<<Source, {0, 63}>>), forget |-> RegistersFrom(<<Source, {0, 63}>>),
     provide |-> RegistersFrom(<<Id, Source, {0, 1, 2, 63}>>),
     yield |-> RegistersFrom(<<Source>>), checkpoint |-> RegistersFrom(<<>>),
     bless |-> RegistersFrom(<<{1, 8}, {1, 4}, {7, 63}, {1}, {1, 3}, {0, 1, 2, 63}>>),
     assign |-> RegistersFrom(<<{0, 1, 2, 63}, {1, 4}, {1, 8}>>),
     designate |-> RegistersFrom(<<Source \cup {4}>>),
     pages |-> RegistersFrom(<<{0}, {1}, {1}, {0, 4, 5}>>),
     peek |-> RegistersFrom(<<{0}, {1}, {1}, {1}>>), poke |-> RegistersFrom(<<{0}, {1}, {1}, {1}>>)]
MCSlots(none) == {none, <<>>, <<1>>, <<7, 2>>, <<7, 0, 6>>}

\* --- Disputes: three reports on two cores; four validators, one of whom leaves
\* later on; who signed what, and votes of any three of them.

LOCAL Statement(k, says, r) == [key |-> k, says |-> says, report |-> r]
MCSigned ==
    {Statement(1, "guarantee", 1), Statement(2, "guarantee", 1), Statement(1, "valid", 1)}
    \cup {Statement(k, "invalid", 1) : k \in {2, 3, 4}}
    \cup {Statement(k, "invalid", 2) : k \in {1, 2}} \cup {Statement(k, "valid", 2) : k \in {2, 3, 4}}
MCValidators == [e \in 0..2 |-> IF e < 2 THEN <<1, 2, 3, 4>> ELSE <<2, 3, 4, 5>>]
MCCoreOf == <<1, 2, 1>>
MCVotes ==
    {[i \in 1..3 |-> [index |-> voters[i], valid |-> says[i]]] :
        voters \in {<<1, 2, 3>>, <<2, 3, 4>>, <<2, 2, 3>>, <<3, 4, 5>>}, says \in [1..3 -> BOOLEAN]}

\* --- Activity: an empty block, some with a report and preimages, and some with
\* two reports, an available one and a new queue of authorizers.

LOCAL MCResult(id, gas) == [service |-> id, gas |-> gas, imports |-> 1, exports |-> 2, output |-> 1]
LOCAL MCGuarantee(c, age, a, signers, results) ==
    [core |-> c, age |-> age, authorizer |-> a, signers |-> signers, results |-> results, length |-> 3, dependencies |-> 1, output |-> 1]
LOCAL MCBody(author, guarantees, assurances) ==
    [author |-> author, tickets |-> author, preimages |-> <<>>, guarantees |-> guarantees, assurances |-> assurances,
     available |-> <<>>, accumulated |-> <<>>, queues |-> <<>>]
LOCAL MCOne(age, signers) ==
    [MCBody(1, <<MCGuarantee(0, age, "x", signers, <<MCResult(7, 5), MCResult(8, 1)>>)>>, 1 :> {1}) EXCEPT
        !.preimages = <<[to |-> 7, size |-> 2], [to |-> 9, size |-> 3]>>]
LOCAL MCTwo(age) ==
    [MCBody(0, <<MCGuarantee(0, age, "x", <<0, 3>>, <<MCResult(7, 5)>>), MCGuarantee(1, age, "y", <<1, 2>>, <<MCResult(7, 4)>>)>>, <<>>) EXCEPT
        !.available = <<[core |-> 1, length |-> 3, exported |-> 1]>>, !.accumulated = 8 :> [count |-> 1, gas |-> 6],
        !.queues = 0 :> <<"z", "x">>]
MCBodies == {MCBody(0, <<>>, 0 :> {0, 1} @@ 1 :> {}), MCOne(0, <<2, 3>>), MCOne(1, <<2, 3>>), MCTwo(0), MCTwo(1)}
MCKeysOf == [k \in 0..4 |-> [v \in 0..3 |-> v + k]]
MCRandoms == <<<<0, 1, 0, 0>>, <<0, 0, 0, 0>>, <<3, 2, 1, 0>>>> @@ 0 :> <<0, 0, 0, 0>> @@ 4 :> <<0, 1, 0, 0>>
MCPools == 0 :> <<"x">> @@ 1 :> <<"y", "y">>
MCQueues == 0 :> <<"x", "y">> @@ 1 :> <<"y", "x">>

\* --- Rpc: a client that subscribes to a value and one that has a package
\* refined; the service is there from block 1 on.

MCRequests ==
    "a" :> {[method |-> "subscribeServiceValue", params |-> [service |-> 1, key |-> "k"]]}
 @@ "b" :> {[method |-> "refineWorkPackage", params |-> <<>>]}
MCMaxRequests == "a" :> 2 @@ "b" :> 1
MCRpcServices ==
    0 :> <<>>
 @@ 1 :> (1 :> [info |-> 1, storage |-> "k" :> 1, preimages |-> <<>>, requests |-> <<>>])
=============================================================================
