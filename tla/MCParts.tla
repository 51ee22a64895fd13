------------------------------- MODULE MCParts -------------------------------
(***************************************************************************)
(* The parts of the node that share nothing in the models, side by side:   *)
(* an initial state chooses one of them, and only that one runs.  A part   *)
(* that does not run stays in one of its initial states, where what is     *)
(* said of it holds.                                                       *)
(***************************************************************************)
EXTENDS MCAccumulation, MCInstances, DummyFinalizer, Network, FuzzSession, WorkerPool, Channels, Disputes, Rpc

VARIABLES
    part,       \* the one that runs
    vmProgram, registers, memory, vmGas, pc, status, nextPc, answered, outcome,
    bestState, clock, worker, epochData, verified, generating, authored,
    package, stage, itemGas, exported, offset, machines, answer, itemResults, refined,
    asked, hostRegs, hostMemory, own, hostGas, effects, hostOutcome,
    lastSlot, sets, stored, cached, pools, queues, imported, lost, miscounted, spent

vmVars == <<vmProgram, registers, memory, vmGas, pc, status, nextPc, answered, outcome>>
authorshipVars == <<bestState, clock, worker, epochData, verified, generating, authored>>
refinementVars == <<package, stage, itemGas, exported, offset, machines, answer, itemResults, refined>>
hostVars == <<asked, hostRegs, hostMemory, own, hostGas, effects, hostOutcome>>
activityVars == <<lastSlot, sets, stored, cached, pools, queues, imported, lost, miscounted, spent>>

Vm == INSTANCE Pvm WITH
    ByteBits <- MCByteBits, PageSize <- MCPageSize, MinAllocation <- MCMinAllocation,
    Reserved <- MCReserved, SegmentPages <- MCSegmentPages, DataPages <- MCDataPages,
    Programs <- MCVmPrograms, MaxDistance <- MCMaxDistance, TableLimit <- MCTableLimit,
    Registers <- MCRegisters, Answers <- MCAnswers, HostGas <- MCHostGas,
    program <- vmProgram, gas <- vmGas

\* The finalizer: a header is the number of its import; names mean nothing to it.
InOrder == \A h \in Header : parent'[h] # NotImported => \A g \in 1..(h - 1) : parent'[g] # NotImported

\* The network: one peer that may connect twice, and no blocks.
MCNoParents == <<>>
MCTimeSlot == [b \in ChainBlock |-> 0]
MCTheirs == [p \in Peer |-> {FirstBlock}]

\* One connection; the peer has blocks of slots 0, 1 and 3, we may author the
\* fork of slot 2.
Sync == INSTANCE Network WITH
    Peer <- {"peer"}, Bootnode <- {}, Connection <- {1}, MaxRetries <- 2,
    ChainBlock <- 0..3, FirstBlock <- 0, ParentBlock <- <<0, 1, 1>>,
    TimeSlot <- [b \in 0..3 |-> IF b = 3 THEN 2 ELSE IF b = 2 THEN 3 ELSE b],
    Theirs <- [p \in {"peer"} |-> {0, 1, 2}], MaxSequence <- 2, MaxStreams <- 3, MaxIncoming <- 0, NoOne <- NoOne

\* One peer that may connect twice; it announces the block and so do we.
Greeting == INSTANCE Network WITH
    Peer <- {"peer"}, Bootnode <- {}, Connection <- {1, 2}, MaxRetries <- 2,
    ChainBlock <- {0, 1}, FirstBlock <- 0, ParentBlock <- <<0>>, TimeSlot <- [b \in {0, 1} |-> b],
    Theirs <- [p \in {"peer"} |-> {0, 1}], MaxSequence <- 2, MaxStreams <- 1, MaxIncoming <- 1, NoOne <- NoOne

\* Two validators, of which one is ours, in two epochs.
Author == INSTANCE Authorship WITH
    Validators <- {<<1, 2>>}, Ours <- {1}, MaxSlot <- 5, EpochLength <- 3, ContestLength <- 2,
    TicketsPerValidator <- 2, MaxTicketsPerExtrinsic <- 3, Nobody <- None, best <- bestState

InCore == INSTANCE Refinement WITH
    Db <- MCDb, Packages <- MCPackages, Codes <- MCCodes \union {None}, MaxCode <- 2, MaxAuthorizer <- 1, MaxExports <- 2,
    AuthorizerGas <- 1, InnerGas <- {1, 2}, gas <- itemGas, results <- itemResults, outcome <- refined

\* Registers of 64 values, addresses of 8.
Host == INSTANCE HostCalls WITH
    RegisterSize <- 64, MemorySize <- 8, MaxLength <- 5, Readable <- MCReadable, Writable <- MCWritable,
    Bytes <- MCHostBytes, HashBytes <- 1, MemoBytes <- 1, QueueBytes <- 2, ValidatorsBytes <- 2, AutoBytes <- 2,
    CoresCount <- 2, Current <- 1, Values <- MCValues, Constants <- <<1, 2>>, Entropy <- <<9>>,
    Transfers <- << <<7>> >>, Operands <- << <<8, 9>> >>, FetchKinds <- [constants |-> 0, entropy |-> 1, all |-> 2, one |-> 3], Slots <- MCSlots(None), NewId <- {7},
    Own <- MCOwn, Registers <- MCHostRegisters,
    regs <- hostRegs, memory <- hostMemory, gas <- hostGas, outcome <- hostOutcome

Activities == INSTANCE Activity WITH
    Bodies <- MCBodies, KeysOf <- MCKeysOf, Randoms <- MCRandoms, Cores <- {0, 1}, InitialPools <- MCPools, InitialQueues <- MCQueues,
    RotationPeriod <- 2, MaxItems <- 2, MaxDependencies <- 1, MaxOutput <- 3, EpochLength <- 4, QueueSize <- 2, MaxPool <- 2, SegmentSize <- 4, MaxSlot <- 8, MaxBlocks <- 2, MaxLost <- 1, slot <- lastSlot

\* Nobody reads the database between polls, and one client stays connected.
InPolls == (databaseVars' # databaseVars => polling # <<>>) /\ connections'["b"] = "open"

AccumulationInit ==
    /\ part # "accumulation" =>
        /\ state = (CHOOSE s \in Initial : TRUE).accounts /\ reports = CHOOSE r \in Reports : TRUE
        /\ program = CHOOSE p \in Programs : TRUE
    /\ Init
    /\ part = "accumulation" => Matched
IdleProgram == CHOOSE p \in Branching : TRUE
VmInit == IF part = "pvm" THEN Vm!Init ELSE vmProgram = IdleProgram /\ Vm!Start

Beginning ==
    /\ AccumulationInit
    /\ VmInit
    /\ FinalizerInit
    /\ CASE part = "links" -> NetworkInit [] part = "greeting" -> Greeting!NetworkInit [] OTHER -> Sync!NetworkInit
    /\ PoolInit
    /\ (part # "channels" => direct = TRUE) /\ ChannelInit
    /\ (part # "authorship" => clock = 0) /\ Author!Init
    /\ (part # "refinement" => package = CHOOSE p \in MCPackages : TRUE) /\ InCore!RefinementInit
    /\ (part # "hostcalls" => hostMemory = CHOOSE b \in MCHostBytes : TRUE) /\ (part # "hostcalls" => own = <<>> /\ hostGas = 0) /\ Host!HostInit
    /\ (part # "disputes" => cores = [c \in {1, 2} |-> NoReport]) /\ DisputesInit
    /\ Activities!ActivityInit
    /\ (part # "fuzzing" => backend = "memory") /\ FuzzInit
    /\ RpcInit

PartsInit ==
    /\ part \in {"accumulation", "pvm", "finalizer", "links", "sync", "pool", "channels", "authorship", "refinement", "hostcalls",
                "disputes", "activity", "fuzzing", "rpc"}
    /\ Beginning

PartsNext ==
    /\ UNCHANGED part
    /\ IF part = "accumulation" THEN Next ELSE UNCHANGED vars
    /\ IF part = "pvm" THEN Vm!Next ELSE UNCHANGED vmVars
    /\ IF part = "finalizer" THEN FinalizerNext /\ InOrder ELSE UNCHANGED finalizerVars
    /\ CASE part = "links" -> NetworkNext
         [] part = "sync" -> Sync!NetworkNext
         [] part = "greeting" -> Greeting!NetworkNext
         [] OTHER -> UNCHANGED networkVars
    /\ IF part = "pool" THEN PoolNext ELSE UNCHANGED poolVars
    /\ IF part = "channels" THEN ChannelNext ELSE UNCHANGED channelVars
    /\ IF part = "authorship" THEN Author!Next ELSE UNCHANGED authorshipVars
    /\ IF part = "refinement" THEN InCore!RefinementNext ELSE UNCHANGED refinementVars
    /\ IF part = "hostcalls" THEN Host!HostNext ELSE UNCHANGED hostVars
    /\ IF part = "disputes" THEN DisputesNext ELSE UNCHANGED disputesVars
    /\ IF part = "activity" THEN Activities!ActivityNext ELSE UNCHANGED activityVars
    /\ IF part = "fuzzing" THEN FuzzNext ELSE UNCHANGED fuzzVars
    /\ IF part = "rpc" THEN RpcNext /\ InPolls ELSE UNCHANGED rpcVars

partsVars == <<part, vars, vmVars, finalizerVars, networkVars, poolVars, channelVars, authorshipVars, refinementVars, hostVars,
               disputesVars, activityVars, fuzzVars, rpcVars>>
PartsSpec == PartsInit /\ [][PartsNext]_partsVars

\* The announcements alone.
GreetingSpec == part = "greeting" /\ Beginning /\ [][PartsNext]_partsVars

\* An instruction computes what it means, in registers and memory.
InstructionsAreExact == [][part = "pvm" => Vm!IsExact(Vm!Fetch(pc), Vm!Arguments)]_vmVars
\* The counter stays at beginnings of instructions.
OnlyInstructionsRun == part = "pvm" => Vm!OnlyInstructionsRun

\* What is announced goes out on a stream our handshake went out on.
AnnouncedAfterHandshake == part = "greeting" => Greeting!HandshakeFirst
\* A batch of blocks attaches to one that is known.
SyncBatchesAttach == part = "sync" => Sync!BatchesAttach
\* Segments are at the indices that the report says.
ExportsAreIndexed == part = "refinement" => InCore!ExportsAreIndexed
\* An inner machine goes on where it stopped.
MachinesGoOn == [][part = "refinement" => InCore!MachinesGoOn]_refinementVars
\* What a host call answers is what it did.
CallsTellTheTruth == [][part = "hostcalls" => Host!CallsTellTheTruth]_hostVars
\* The records of validators, cores and services are a tally of the blocks.
ActivityIsTrue == part = "activity" => Activities!ActivityIsTrue
\* A block of our own is accepted.
BlocksPass == part = "authorship" => Author!BlocksPass
=============================================================================
