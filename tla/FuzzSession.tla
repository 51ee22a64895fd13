------------------------------ MODULE FuzzSession ------------------------------
(***************************************************************************)
(* A node that is driven by a fuzzer over a local socket: the messages of  *)
(* one client (packages/jam/fuzz-proto/v1, packages/extensions/ipc) and    *)
(* the nodes, key spaces and files behind them                             *)
(* (packages/jam/node/main-fuzz.ts), with a shutdown at any moment.        *)
(*                                                                         *)
(* The client waits for each answer, as the protocol has it.  A step ends  *)
(* where the code awaits; what is opened, closed or deleted may fail.      *)
(***************************************************************************)
EXTENDS Naturals, Sequences, FiniteSets

CONSTANTS
    Unset,
    Backends,         \* of "memory", "hybrid" and "full"
    RebuildEvery,     \* resets until the key space is made anew
    MaxMessages

VARIABLES
    backend,          \* the one this target is configured with
    socket,           \* "open", "ended" by us
    messages,         \* received so far
    task,             \* the request that is worked on
    lastAnswer,       \* what the client got last
    runningNode,      \* index of a node, or Unset
    nodes,            \* [keyspace, status, reset]: every node there was
    keyspace,         \* index of a key space, or Unset
    keyspaces,        \* status of every key space there was
    resets,           \* resetCount
    closing           \* how far the shutdown is

fuzzVars == <<backend, socket, messages, task, lastAnswer, runningNode, nodes, keyspace, keyspaces, resets, closing>>

Kind == {"hello", "otherVersion", "initialize", "importBlock", "getState", "response", "garbage"}
\* Unset is no index and no message.
ASSUME UnsetAssumption == Unset \notin Nat /\ Unset \notin Kind

NoAnswer == [kind |-> "none", node |-> Unset]
Idle == [kind |-> Unset, at |-> "idle", on |-> Unset]
Persistent == backend # "memory"
IsActiveReset == task.kind = "initialize" /\ task.at # "start"

\* IpcSender.send: what is written to an ended socket is lost.
Answer(kind, node) ==
    /\ task' = Idle
    /\ lastAnswer' = IF socket = "open" THEN [kind |-> kind, node |-> node] ELSE NoAnswer
Respond(kind) == Answer(kind, Unset)
Await(at, on) == task' = [task EXCEPT !.at = at, !.on = on] /\ UNCHANGED lastAnswer

FuzzInit ==
    /\ backend \in Backends
    /\ socket = "open" /\ messages = 0 /\ task = Idle /\ lastAnswer = NoAnswer
    /\ runningNode = Unset /\ nodes = <<>>
    /\ keyspace = Unset /\ keyspaces = <<>> /\ resets = 0
    /\ closing = [at |-> "no", on |-> Unset]

------------------------------------------------------------------------------
(* Messages.                                                               *)

\* The client sends on a socket we have ended, and to a server that is closed:
\* only new connections are refused.
OnSocketMessage ==
    /\ task = Idle /\ messages < MaxMessages
    /\ messages' = messages + 1
    /\ \E kind \in Kind :
        IF kind \in {"otherVersion", "response", "garbage"}
        THEN socket' = "ended" /\ UNCHANGED task
        ELSE task' = [kind |-> kind, at |-> "start", on |-> Unset] /\ UNCHANGED socket
    /\ lastAnswer' = NoAnswer
    /\ UNCHANGED <<runningNode, nodes, keyspace, keyspaces, resets, closing>>

\* Nothing has to be said before the others, not even hello.
Hello ==
    /\ task.kind = "hello" /\ Respond("peerInfo")
    /\ UNCHANGED <<socket, messages, runningNode, nodes, keyspace, keyspaces, resets, closing>>

GetState ==
    /\ task.kind = "getState" /\ Respond(IF runningNode = Unset THEN "noEntries" ELSE "entries")
    /\ UNCHANGED <<socket, messages, runningNode, nodes, keyspace, keyspaces, resets, closing>>

ImportBlock ==
    /\ task.kind = "importBlock" /\ task.at = "start"
    /\ IF runningNode = Unset THEN Respond("error") ELSE Await("importing", runningNode)
    /\ UNCHANGED <<socket, messages, runningNode, nodes, keyspace, keyspaces, resets, closing>>

\* An import may be refused, and is when the node was closed under it.
BlockImported ==
    /\ task.at = "importing"
    /\ \/ Respond("error")
       \/ nodes[task.on].status = "open" /\ Answer("root", task.on)
    /\ UNCHANGED <<socket, messages, runningNode, nodes, keyspace, keyspaces, resets, closing>>

------------------------------------------------------------------------------
(* resetState.                                                             *)

\* What is in the way before the new node is built.
Prepare ==
    /\ resets' = resets + 1
    /\ IF ~Persistent THEN Await("buildingInMemory", Unset) /\ UNCHANGED keyspace
       ELSE IF keyspace = Unset THEN Await("wiping", Unset) /\ UNCHANGED keyspace
       ELSE IF resets' % RebuildEvery = 0 THEN Await("closingKeyspace", keyspace) /\ keyspace' = Unset
       ELSE Await(IF backend = "full" THEN "deletingPartitions" ELSE "building", Unset) /\ UNCHANGED keyspace

ResetState ==
    /\ task.kind = "initialize" /\ task.at = "start"
    /\ IF closing.at # "no" THEN Respond("zeroRoot") /\ UNCHANGED <<runningNode, keyspace, resets>>
       ELSE IF runningNode # Unset THEN Await("closingOld", runningNode) /\ runningNode' = Unset /\ UNCHANGED <<keyspace, resets>>
       ELSE Prepare /\ UNCHANGED runningNode
    /\ UNCHANGED <<socket, messages, nodes, keyspaces, closing>>

NodeClosed(n) == nodes' = [nodes EXCEPT ![n].status = "closed"]
NodeLeaks(n) == nodes' = [nodes EXCEPT ![n].status = "leaked"]

OldNodeClosed ==
    /\ task.at = "closingOld"
    /\ \/ NodeClosed(task.on) /\ Prepare
       \/ NodeLeaks(task.on) /\ Respond("error") /\ UNCHANGED <<keyspace, resets>>
    /\ UNCHANGED <<socket, messages, runningNode, keyspaces, closing>>

\* The rebuild goes on whether or not the old key space closes.
KeyspaceClosed ==
    /\ task.at = "closingKeyspace"
    /\ \E status \in {"closed", "leaked"} : keyspaces' = [keyspaces EXCEPT ![task.on] = status]
    /\ Await("opening", Unset)
    /\ UNCHANGED <<socket, messages, runningNode, nodes, keyspace, resets, closing>>

\* A first key space is not opened over files that cannot be removed.
Wiped ==
    /\ task.at = "wiping"
    /\ \E next \in {"opening", "buildingInMemory"} : Await(next, Unset)
    /\ UNCHANGED <<socket, messages, runningNode, nodes, keyspace, keyspaces, resets, closing>>

KeyspaceOpened ==
    /\ task.at = "opening"
    /\ \/ /\ keyspaces' = Append(keyspaces, "open") /\ keyspace' = Len(keyspaces')
          /\ Await("building", Unset)
       \/ Await("buildingInMemory", Unset) /\ UNCHANGED <<keyspace, keyspaces>>
    /\ UNCHANGED <<socket, messages, runningNode, nodes, resets, closing>>

PartitionsDeleted ==
    /\ task.at = "deletingPartitions"
    /\ \E next \in {"building", "buildingInMemory"} : Await(next, Unset)
    /\ UNCHANGED <<socket, messages, runningNode, nodes, keyspace, keyspaces, resets, closing>>

\* mainImporter: a node that cannot be made on the key space may leave half of
\* itself behind, and one in memory takes its place.
NodeBuilt ==
    /\ task.at \in {"building", "buildingInMemory"}
    /\ LET on == IF task.at = "building" THEN keyspace ELSE Unset IN
       \/ /\ nodes' = Append(nodes, [keyspace |-> on, status |-> "open", reset |-> resets])
          /\ runningNode' = Len(nodes')
          /\ Answer("root", Len(nodes'))
       \/ /\ nodes' \in {nodes, Append(nodes, [keyspace |-> on, status |-> "leaked", reset |-> resets])}
          /\ IF task.at = "building" THEN Await("buildingInMemory", Unset) ELSE Respond("error")
          /\ UNCHANGED runningNode
    /\ UNCHANGED <<socket, messages, keyspace, keyspaces, resets, closing>>

------------------------------------------------------------------------------
(* Shutdown.                                                               *)

\* What close() does next, after the reset that is under way.
CloseNext ==
    IF runningNode # Unset THEN closing' = [at |-> "node", on |-> runningNode] /\ runningNode' = Unset /\ UNCHANGED keyspace
    ELSE IF keyspace # Unset THEN closing' = [at |-> "keyspace", on |-> keyspace] /\ keyspace' = Unset /\ UNCHANGED runningNode
    ELSE closing' = [at |-> "done", on |-> Unset] /\ UNCHANGED <<runningNode, keyspace>>

\* A plausible bug: the reset that is under way is not waited for.
CloseAtOnce == CloseNext
DrainReset ==
    IF IsActiveReset THEN closing' = [at |-> "draining", on |-> Unset] /\ UNCHANGED <<runningNode, keyspace>>
    ELSE CloseNext

Close ==
    /\ closing.at = "no" /\ DrainReset
    /\ UNCHANGED <<socket, messages, task, lastAnswer, nodes, keyspaces, resets>>

ResetDrained ==
    /\ closing.at = "draining" /\ ~IsActiveReset /\ CloseNext
    /\ UNCHANGED <<socket, messages, task, lastAnswer, nodes, keyspaces, resets>>

\* Errors are logged, and the shutdown goes on.
CloseGoesOn ==
    /\ closing.at \in {"node", "keyspace"}
    /\ IF closing.at = "node"
       THEN (NodeClosed(closing.on) \/ NodeLeaks(closing.on)) /\ UNCHANGED keyspaces
       ELSE /\ \E status \in {"closed", "leaked"} : keyspaces' = [keyspaces EXCEPT ![closing.on] = status]
            /\ UNCHANGED nodes
    /\ CloseNext
    /\ UNCHANGED <<socket, messages, task, lastAnswer, resets>>

FuzzNext ==
  /\ UNCHANGED backend
  /\ \/ OnSocketMessage \/ Hello \/ GetState \/ ImportBlock \/ BlockImported
     \/ ResetState \/ OldNodeClosed \/ KeyspaceClosed \/ Wiped \/ KeyspaceOpened \/ PartitionsDeleted \/ NodeBuilt
     \/ Close \/ ResetDrained \/ CloseGoesOn

FuzzSpec == FuzzInit /\ [][FuzzNext]_fuzzVars

------------------------------------------------------------------------------
(* Properties.                                                             *)

OpenNodes == {n \in DOMAIN nodes : nodes[n].status = "open"}

\* At most one node is open and on a key space that is open too, unless a
\* failure left it behind; files are deleted and a key space is made anew only
\* when no node is on it; the roots a client gets are those of the node its last
\* reset made; and once the shutdown is over nothing is open and nothing will
\* be, whatever was under way (main-fuzz.ts:125 and 261).
NothingOutlives ==
    /\ Cardinality(OpenNodes) <= 1
    /\ runningNode # Unset => OpenNodes = {runningNode}
    /\ \A n \in OpenNodes : nodes[n].keyspace = Unset \/ keyspaces[nodes[n].keyspace] = "open"
    /\ task.at \in {"deletingPartitions", "wiping", "opening", "closingKeyspace"} => OpenNodes = {}
    /\ \A k \in DOMAIN keyspaces : keyspaces[k] = "open" =>
        \/ k = keyspace
        \/ task.at = "closingKeyspace" /\ k = task.on
        \/ closing.at = "keyspace" /\ k = closing.on
    /\ lastAnswer.kind = "root" => \A n \in DOMAIN nodes : n > lastAnswer.node => nodes[n].status = "leaked"
    /\ closing.at = "done" =>
        OpenNodes = {} /\ "open" \notin {keyspaces[k] : k \in DOMAIN keyspaces} /\ ~IsActiveReset
=============================================================================
