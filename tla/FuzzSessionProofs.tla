-------------------------- MODULE FuzzSessionProofs --------------------------
(***************************************************************************)
(* Proofs about FuzzSession for any backend, any rate at which the key     *)
(* space is made anew and any number of messages.                          *)
(***************************************************************************)
EXTENDS FuzzSession, TLAPS, SequenceTheorems, FiniteSetTheorems

Resetting == {"closingOld", "closingKeyspace", "wiping", "opening", "deletingPartitions",
              "building", "buildingInMemory"}
Status == {"open", "closed", "leaked"}
NodeRecord == [keyspace : Nat \cup {Unset}, status : Status, reset : Nat]

\* Nodes and key spaces are known by their index; a request is at a stage of
\* its own kind.
Types ==
    /\ nodes \in Seq(NodeRecord)
    /\ keyspaces \in Seq(Status)
    /\ runningNode \in DOMAIN nodes \cup {Unset}
    /\ keyspace \in DOMAIN keyspaces \cup {Unset}
    /\ resets \in Nat
    /\ task \in [kind : Kind \cup {Unset}, at : {"idle", "start", "importing"} \cup Resetting, on : Nat \cup {Unset}]
    /\ task.at \in Resetting => task.kind = "initialize"
    /\ task.at = "importing" => task.kind = "importBlock"
    /\ task.at = "idle" => task.kind = Unset
    /\ lastAnswer \in [kind : {"none", "peerInfo", "noEntries", "entries", "error", "root", "zeroRoot"}, node : Nat \cup {Unset}]
    /\ closing \in [at : {"no", "draining", "node", "keyspace", "done"}, on : Nat \cup {Unset}]

\* Where the open node is, and where the open key space is: each has one owner,
\* who runs on it or closes it.
NodeHeld ==
    IF runningNode # Unset THEN {runningNode}
    ELSE IF task.at = "closingOld" THEN {task.on}
    ELSE IF closing.at = "node" THEN {closing.on} ELSE {}
OpenKeyspaces == {k \in DOMAIN keyspaces : keyspaces[k] = "open"}
KeyspaceHeld ==
    IF keyspace # Unset THEN {keyspace}
    ELSE IF task.at = "closingKeyspace" THEN {task.on}
    ELSE IF closing.at = "keyspace" THEN {closing.on} ELSE {}

\* The open node is the last one made, on the key space in use.
OneOwner ==
    /\ OpenNodes = NodeHeld
    /\ \A n \in OpenNodes : n = Len(nodes) /\ nodes[n].keyspace \in {Unset, keyspace}
    /\ OpenKeyspaces = KeyspaceHeld

\* A reset and the shutdown take what they close out of use first, and never
\* run together.
Exclusive ==
    /\ task.at \in Resetting => runningNode = Unset /\ closing.at \in {"no", "draining"}
    /\ task.at \in {"closingKeyspace", "wiping", "opening"} => keyspace = Unset
    /\ closing.at \in {"node", "keyspace", "done"} => runningNode = Unset
    /\ closing.at \in {"keyspace", "done"} => keyspace = Unset

\* Answers are about the last node that was built.
AnswersLast ==
    /\ task.at = "importing" => task.on \in DOMAIN nodes /\ task.on = Len(nodes)
    /\ lastAnswer.kind = "root" =>
        /\ lastAnswer.node \in DOMAIN nodes
        /\ \A n \in DOMAIN nodes : n > lastAnswer.node => nodes[n].status = "leaked"

IInv == Types /\ OneOwner /\ Exclusive /\ AnswersLast

LEMMA InitIInv ==
  ASSUME FuzzInit
  PROVE  IInv
  BY UnsetAssumption DEF FuzzInit, NoAnswer, Idle, IInv, Types, OneOwner, Exclusive, AnswersLast, NodeHeld, KeyspaceHeld,
         OpenNodes, OpenKeyspaces, Kind, Resetting, Status

\* An answer ends the request.
LEMMA Answers ==
  ASSUME IInv, NEW kind \in {"none", "peerInfo", "noEntries", "entries", "error", "root", "zeroRoot"},
         NEW node \in Nat \cup {Unset}, Answer(kind, node)
  PROVE  /\ task' = Idle
         /\ lastAnswer' \in [kind : {"none", "peerInfo", "noEntries", "entries", "error", "root", "zeroRoot"}, node : Nat \cup {Unset}]
         /\ lastAnswer'.kind = "root" => kind = "root" /\ lastAnswer'.node = node
  BY DEF Answer, NoAnswer

\* The request goes on to another stage.
LEMMA Awaits ==
  ASSUME IInv, NEW at \in {"idle", "start", "importing"} \cup Resetting, NEW on \in Nat \cup {Unset}, Await(at, on)
  PROVE  /\ task' \in [kind : Kind \cup {Unset}, at : {"idle", "start", "importing"} \cup Resetting, on : Nat \cup {Unset}]
         /\ task'.kind = task.kind /\ task'.at = at /\ task'.on = on /\ lastAnswer' = lastAnswer
<1>1. task \in [kind : Kind \cup {Unset}, at : {"idle", "start", "importing"} \cup Resetting, on : Nat \cup {Unset}]
  BY DEF IInv, Types
<1> QED
  BY <1>1 DEF Await

\* The request is answered with no more done to it than its end.
LEMMA AnswerStep ==
  ASSUME IInv, task.at \notin {"closingOld", "closingKeyspace"},
         NEW kind \in {"peerInfo", "noEntries", "entries", "error", "root", "zeroRoot"}, NEW node \in Nat \cup {Unset},
         Answer(kind, node), kind = "root" => node \in DOMAIN nodes /\ node = Len(nodes),
         UNCHANGED <<runningNode, nodes, keyspace, keyspaces, resets, closing>>
  PROVE  IInv'
<1>1. task' = Idle
  BY DEF Answer
<1>2. /\ lastAnswer' \in [kind : {"none", "peerInfo", "noEntries", "entries", "error", "root", "zeroRoot"}, node : Nat \cup {Unset}]
      /\ lastAnswer'.kind = "root" => kind = "root" /\ lastAnswer'.node = node
  BY Answers
<1>3. Types'
  BY <1>1, <1>2 DEF IInv, Types, Idle, Resetting
<1>4. OneOwner'
  BY <1>1 DEF IInv, OneOwner, NodeHeld, KeyspaceHeld, OpenNodes, OpenKeyspaces, Idle
<1>5. Exclusive'
  BY <1>1 DEF IInv, Exclusive, Idle, Resetting
<1>6. AnswersLast'
  BY <1>1, <1>2 DEF IInv, Types, AnswersLast, Idle
<1> QED
  BY <1>3, <1>4, <1>5, <1>6 DEF IInv

\* The open node is closed, or what fails in it stays behind.
LEMMA NodeEnds ==
  ASSUME IInv, NEW n, NodeHeld = {n}, NEW status \in {"closed", "leaked"},
         nodes' = [nodes EXCEPT ![n].status = status]
  PROVE  /\ nodes' \in Seq(NodeRecord)
         /\ Len(nodes') = Len(nodes) /\ DOMAIN nodes' = DOMAIN nodes
         /\ OpenNodes' = {}
         /\ lastAnswer.kind = "root" =>
              /\ lastAnswer.node \in DOMAIN nodes'
              /\ \A m \in DOMAIN nodes' : m > lastAnswer.node => nodes'[m].status = "leaked"
<1>1. /\ nodes \in Seq(NodeRecord)
      /\ n \in DOMAIN nodes /\ nodes[n].status = "open"
      /\ \A m \in DOMAIN nodes : nodes[m].status = "open" => m = n
  BY DEF IInv, Types, OneOwner, OpenNodes
<1> DEFINE ended == [nodes[n] EXCEPT !.status = status]
<1>2. ended \in NodeRecord /\ ended.status = status
  <2>1. nodes[n] \in NodeRecord
    BY <1>1
  <2> QED
    BY <2>1 DEF Status, NodeRecord
<1>3. nodes' = [nodes EXCEPT ![n] = ended]
  OBVIOUS
<1> HIDE DEF ended
<1>9. n \in 1..Len(nodes)
  BY <1>1
<1>4. /\ nodes' \in Seq(NodeRecord)
      /\ Len(nodes') = Len(nodes) /\ DOMAIN nodes' = DOMAIN nodes
      /\ nodes'[n] = ended /\ \A m \in DOMAIN nodes : m # n => nodes'[m] = nodes[m]
  BY <1>1, <1>2, <1>3, <1>9, ExceptSeq
<1>5. OpenNodes' = {}
  BY <1>1, <1>2, <1>4 DEF OpenNodes
<1>6. lastAnswer.kind = "root" => lastAnswer.node \in DOMAIN nodes /\ ~(n > lastAnswer.node)
  BY <1>1 DEF IInv, AnswersLast
<1> QED
  BY <1>4, <1>5, <1>6 DEF IInv, AnswersLast

\* The answer before stays while the reset goes on.
LEMMA PrepareAwaits == Prepare => lastAnswer' = lastAnswer
  BY DEF Prepare, Await

\* What resetState does before the new node is built, once no node is open.
LEMMA PrepareStep ==
  ASSUME IInv, task.kind = "initialize", task.at \in {"start", "closingOld"},
         closing.at \in {"no", "draining"}, Prepare, runningNode' = Unset,
         UNCHANGED <<keyspaces, closing>>,
         nodes' \in Seq(NodeRecord),
         Len(nodes') = Len(nodes), DOMAIN nodes' = DOMAIN nodes, OpenNodes' = {},
         lastAnswer.kind = "root" =>
              /\ lastAnswer.node \in DOMAIN nodes'
              /\ \A m \in DOMAIN nodes' : m > lastAnswer.node => nodes'[m].status = "leaked"
  PROVE  IInv'
<1>1. /\ resets' \in Nat /\ lastAnswer' = lastAnswer
      /\ keyspaces \in Seq(Status) /\ keyspace \in DOMAIN keyspaces \cup {Unset}
  BY PrepareAwaits DEF Prepare, IInv, Types
<1>2. PICK at \in Resetting \ {"closingOld"}, on \in {keyspace, Unset} :
        /\ Await(at, on)
        /\ at \in {"wiping", "opening", "closingKeyspace"} => keyspace' = Unset
        /\ at = "closingKeyspace" => keyspace # Unset /\ on = keyspace
        /\ at # "closingKeyspace" => keyspace' = keyspace
  <2>1. CASE ~Persistent
    BY <2>1 DEF Prepare, Resetting
  <2>2. CASE Persistent /\ keyspace = Unset
    BY <2>2 DEF Prepare, Resetting
  <2>3. CASE Persistent /\ keyspace # Unset /\ resets' % RebuildEvery = 0
    BY <2>3 DEF Prepare, Resetting
  <2>4. CASE Persistent /\ keyspace # Unset /\ ~(resets' % RebuildEvery = 0)
    <3>1. PICK at \in {"building", "deletingPartitions"} : Await(at, Unset) /\ keyspace' = keyspace
      BY <2>4 DEF Prepare
    <3> QED
      BY <3>1, <2>4 DEF Resetting
  <2> QED
    BY <2>1, <2>2, <2>3, <2>4
<1>3. task' \in [kind : Kind \cup {Unset}, at : {"idle", "start", "importing"} \cup Resetting, on : Nat \cup {Unset}]
      /\ task'.at = at /\ task'.on = on /\ task'.kind = "initialize"
  <2>1. on \in Nat \cup {Unset}
    BY <1>1, <1>2
  <2> QED
    BY <1>2, <2>1, Awaits
<1>4. keyspace' \in {keyspace, Unset}
  BY DEF Prepare
<1>5. Types'
  BY <1>1, <1>3, <1>4 DEF IInv, Types, Resetting
<1>6. OneOwner'
  <2>1. NodeHeld' = {}
    BY <1>2, <1>3 DEF NodeHeld
  <2>2. KeyspaceHeld' = KeyspaceHeld
    BY <1>2, <1>3, UnsetAssumption DEF KeyspaceHeld
  <2>3. OpenKeyspaces' = OpenKeyspaces
    BY DEF OpenKeyspaces
  <2> QED
    BY <2>1, <2>2, <2>3 DEF IInv, OneOwner
<1>7. Exclusive'
  BY <1>2, <1>3 DEF IInv, Exclusive
<1>8. AnswersLast'
  BY <1>1, <1>3, <1>2 DEF AnswersLast, Resetting
<1> QED
  BY <1>5, <1>6, <1>7, <1>8 DEF IInv

LEMMA ResetStateStep ==
  ASSUME IInv, ResetState
  PROVE  IInv'
<1>1. task.kind = "initialize" /\ task.at = "start" /\ UNCHANGED <<nodes, keyspaces, closing>>
  BY DEF ResetState
<1>2. CASE closing.at # "no"
  BY <1>1, <1>2, AnswerStep DEF ResetState, Respond
<1>3. CASE closing.at = "no" /\ runningNode # Unset
  <2>1. Await("closingOld", runningNode) /\ runningNode' = Unset /\ UNCHANGED <<keyspace, resets>>
    BY <1>1, <1>3 DEF ResetState
  <2>2. /\ task' \in [kind : Kind \cup {Unset}, at : {"idle", "start", "importing"} \cup Resetting, on : Nat \cup {Unset}]
        /\ task'.at = "closingOld" /\ task'.on = runningNode /\ task'.kind = "initialize" /\ lastAnswer' = lastAnswer
    <3>1. runningNode \in Nat \cup {Unset} /\ "closingOld" \in Resetting
      BY DEF IInv, Types, Resetting
    <3> QED
      BY <3>1, <1>1, <2>1, Awaits
  <2>3. Types'
    BY <1>1, <2>1, <2>2 DEF IInv, Types, Resetting
  <2>4. OneOwner'
    BY <1>1, <1>3, <2>1, <2>2 DEF IInv, OneOwner, NodeHeld, KeyspaceHeld, OpenNodes, OpenKeyspaces
  <2>5. Exclusive' /\ AnswersLast'
    BY <1>1, <1>3, <2>1, <2>2 DEF IInv, Exclusive, AnswersLast
  <2> QED
    BY <2>3, <2>4, <2>5 DEF IInv
<1>4. CASE closing.at = "no" /\ runningNode = Unset
  <2>1. Prepare /\ runningNode' = Unset
    BY <1>1, <1>4 DEF ResetState
  <2>2. OpenNodes' = {}
    BY <1>1, <1>4 DEF IInv, OneOwner, NodeHeld, OpenNodes
  <2> QED
    BY <1>1, <1>4, <2>1, <2>2, PrepareStep DEF IInv, Types, AnswersLast
<1> QED
  BY <1>2, <1>3, <1>4

LEMMA OldNodeClosedStep ==
  ASSUME IInv, OldNodeClosed
  PROVE  IInv'
<1>1. task.at = "closingOld" /\ UNCHANGED <<runningNode, keyspaces, closing>>
  BY DEF OldNodeClosed
<1>2. task.kind = "initialize" /\ closing.at \in {"no", "draining"} /\ runningNode = Unset /\ NodeHeld = {task.on}
  BY <1>1 DEF IInv, Types, Exclusive, NodeHeld, Resetting
<1>3. CASE NodeClosed(task.on) /\ Prepare
  <2>1. nodes' = [nodes EXCEPT ![task.on].status = "closed"] /\ lastAnswer' = lastAnswer
    BY <1>3, PrepareAwaits DEF NodeClosed
  <2> DEFINE n == task.on
  <2>2. NodeHeld = {n} /\ nodes' = [nodes EXCEPT ![n].status = "closed"]
    BY <1>2, <2>1
  <2> HIDE DEF n
  <2>3. /\ nodes' \in Seq(NodeRecord)
        /\ Len(nodes') = Len(nodes) /\ DOMAIN nodes' = DOMAIN nodes
        /\ OpenNodes' = {}
        /\ lastAnswer.kind = "root" =>
              /\ lastAnswer.node \in DOMAIN nodes'
              /\ \A m \in DOMAIN nodes' : m > lastAnswer.node => nodes'[m].status = "leaked"
    BY <2>1, <2>2, NodeEnds
  <2> QED
    BY <1>1, <1>2, <1>3, <2>1, <2>3, PrepareStep
<1>4. CASE NodeLeaks(task.on) /\ Respond("error") /\ UNCHANGED <<keyspace, resets>>
  <2>1. nodes' = [nodes EXCEPT ![task.on].status = "leaked"]
    BY <1>4 DEF NodeLeaks
  <2> DEFINE n == task.on
  <2>2. NodeHeld = {n} /\ nodes' = [nodes EXCEPT ![n].status = "leaked"]
    BY <1>2, <2>1
  <2> HIDE DEF n
  <2>3. nodes' \in Seq(NodeRecord) /\ DOMAIN nodes' = DOMAIN nodes /\ OpenNodes' = {}
    BY <2>2, NodeEnds
  <2>4. task' = Idle
    BY <1>4 DEF Respond, Answer
  <2>5. /\ lastAnswer' \in [kind : {"none", "peerInfo", "noEntries", "entries", "error", "root", "zeroRoot"}, node : Nat \cup {Unset}]
        /\ lastAnswer'.kind # "root"
    BY <1>4, Answers DEF Respond
  <2>6. Types'
    BY <1>1, <1>4, <2>3, <2>4, <2>5 DEF IInv, Types, Idle, Resetting
  <2>7. OneOwner'
    <3>1. NodeHeld' = {}
      BY <1>1, <1>2, <2>4 DEF NodeHeld, Idle
    <3>2. KeyspaceHeld' = KeyspaceHeld /\ OpenKeyspaces' = OpenKeyspaces
      BY <1>1, <1>2, <1>4, <2>4 DEF KeyspaceHeld, OpenKeyspaces, Idle
    <3> QED
      BY <3>1, <3>2, <2>3 DEF IInv, OneOwner
  <2>8. Exclusive' /\ AnswersLast'
    BY <1>1, <1>2, <1>4, <2>4, <2>5 DEF IInv, Exclusive, AnswersLast, Idle, Resetting
  <2> QED
    BY <2>6, <2>7, <2>8 DEF IInv
<1> QED
  BY <1>3, <1>4 DEF OldNodeClosed

\* The reset goes on to building, or to opening a key space, with the same
\* nodes and key spaces open.
LEMMA GoesOn ==
  ASSUME IInv, task.at \in Resetting \ {"closingOld", "closingKeyspace"},
         NEW at \in {"opening", "building", "buildingInMemory"}, at = "opening" => keyspace = Unset,
         Await(at, Unset), UNCHANGED <<runningNode, nodes, keyspace, keyspaces, resets, closing>>
  PROVE  IInv'
<1>1. /\ task' \in [kind : Kind \cup {Unset}, at : {"idle", "start", "importing"} \cup Resetting, on : Nat \cup {Unset}]
      /\ task'.kind = task.kind /\ task'.at = at /\ task'.on = Unset /\ lastAnswer' = lastAnswer
  BY Awaits DEF Resetting
<1>2. Types'
  BY <1>1 DEF IInv, Types, Resetting
<1>3. OneOwner'
  BY <1>1 DEF IInv, OneOwner, NodeHeld, KeyspaceHeld, OpenNodes, OpenKeyspaces
<1>4. Exclusive' /\ AnswersLast'
  BY <1>1 DEF IInv, Exclusive, AnswersLast, Resetting
<1> QED
  BY <1>2, <1>3, <1>4 DEF IInv

LEMMA KeyspaceClosedStep ==
  ASSUME IInv, KeyspaceClosed
  PROVE  IInv'
<1>1. /\ task.at = "closingKeyspace" /\ keyspace = Unset
      /\ Await("opening", Unset) /\ UNCHANGED <<runningNode, nodes, keyspace, resets, closing>>
  BY DEF KeyspaceClosed, IInv, Exclusive
<1>2. PICK status \in {"closed", "leaked"} : keyspaces' = [keyspaces EXCEPT ![task.on] = status]
  BY DEF KeyspaceClosed
<1>3. OpenKeyspaces = {task.on} /\ task.on \in 1..Len(keyspaces) /\ keyspaces \in Seq(Status)
  <2>1. keyspaces \in Seq(Status) /\ OpenKeyspaces = {task.on}
    BY <1>1 DEF IInv, Types, OneOwner, KeyspaceHeld
  <2>2. task.on \in OpenKeyspaces
    BY <2>1
  <2>3. task.on \in DOMAIN keyspaces
    BY <2>2 DEF OpenKeyspaces
  <2> QED
    BY <2>1, <2>3
<1>4. keyspaces' \in Seq(Status) /\ DOMAIN keyspaces' = DOMAIN keyspaces
  BY <1>2, <1>3, ExceptSeq DEF Status
<1>5. OpenKeyspaces' = {}
  BY <1>2, <1>3 DEF OpenKeyspaces
<1>6. /\ task' \in [kind : Kind \cup {Unset}, at : {"idle", "start", "importing"} \cup Resetting, on : Nat \cup {Unset}]
      /\ task'.kind = task.kind /\ task'.at = "opening" /\ task'.on = Unset /\ lastAnswer' = lastAnswer
  BY <1>1, Awaits DEF Resetting
<1>7. Types'
  BY <1>1, <1>4, <1>6 DEF IInv, Types, Resetting
<1>8. OneOwner'
  <2>1. NodeHeld' = NodeHeld /\ OpenNodes' = OpenNodes
    BY <1>1, <1>6 DEF NodeHeld, OpenNodes
  <2>2. KeyspaceHeld' = {}
    BY <1>1, <1>6 DEF KeyspaceHeld, IInv, Exclusive, Resetting
  <2> QED
    BY <1>1, <1>5, <2>1, <2>2 DEF IInv, OneOwner
<1>9. Exclusive' /\ AnswersLast'
  BY <1>1, <1>6 DEF IInv, Exclusive, AnswersLast, Resetting
<1> QED
  BY <1>7, <1>8, <1>9 DEF IInv

LEMMA KeyspaceOpenedStep ==
  ASSUME IInv, KeyspaceOpened
  PROVE  IInv'
<1>1. /\ task.at = "opening" /\ keyspace = Unset /\ task.kind = "initialize"
      /\ UNCHANGED <<runningNode, nodes, resets, closing>>
  BY DEF KeyspaceOpened, IInv, Exclusive, Types, Resetting
<1>2. CASE Await("buildingInMemory", Unset) /\ UNCHANGED <<keyspace, keyspaces>>
  BY <1>1, <1>2, GoesOn DEF Resetting
<1>3. CASE keyspaces' = Append(keyspaces, "open") /\ keyspace' = Len(keyspaces') /\ Await("building", Unset)
  <2>1. /\ task' \in [kind : Kind \cup {Unset}, at : {"idle", "start", "importing"} \cup Resetting, on : Nat \cup {Unset}]
        /\ task'.kind = task.kind /\ task'.at = "building" /\ task'.on = Unset /\ lastAnswer' = lastAnswer
    BY <1>3, Awaits DEF Resetting
  <2>2. keyspaces \in Seq(Status) /\ OpenKeyspaces = {} /\ runningNode = Unset /\ OpenNodes = {}
    BY <1>1 DEF IInv, Types, OneOwner, Exclusive, KeyspaceHeld, NodeHeld, Resetting
  <2>3. /\ keyspaces' \in Seq(Status) /\ keyspace' \in DOMAIN keyspaces' /\ keyspace' \in Nat
        /\ OpenKeyspaces' = {keyspace'}
    BY <1>3, <2>2 DEF OpenKeyspaces, Status
  <2>4. Types'
    BY <1>1, <2>1, <2>3 DEF IInv, Types, Resetting
  <2>5. OneOwner'
    <3>1. OpenNodes' = {} /\ NodeHeld' = {}
      BY <1>1, <2>1, <2>2 DEF OpenNodes, NodeHeld, IInv, Exclusive, Resetting
    <3>2. KeyspaceHeld' = {keyspace'}
      BY <2>3, UnsetAssumption DEF KeyspaceHeld
    <3> QED
      BY <2>3, <3>1, <3>2 DEF OneOwner
  <2>6. Exclusive' /\ AnswersLast'
    BY <1>1, <2>1 DEF IInv, Exclusive, AnswersLast, Resetting
  <2> QED
    BY <2>4, <2>5, <2>6 DEF IInv
<1> QED
  BY <1>2, <1>3 DEF KeyspaceOpened

\* A node is added at the end, open or left behind.
LEMMA NodeAdded ==
  ASSUME Types, NEW n \in NodeRecord, nodes' = Append(nodes, n), OpenNodes = {}
  PROVE  /\ nodes' \in Seq(NodeRecord) /\ Len(nodes') = Len(nodes) + 1
         /\ Len(nodes') \in DOMAIN nodes' /\ Len(nodes') \in Nat /\ nodes'[Len(nodes')] = n
         /\ DOMAIN nodes' = DOMAIN nodes \cup {Len(nodes')}
         /\ \A m \in DOMAIN nodes : nodes'[m] = nodes[m]
         /\ OpenNodes' = IF n.status = "open" THEN {Len(nodes')} ELSE {}
<1>1. nodes \in Seq(NodeRecord)
  BY DEF Types
<1>2. /\ nodes' \in Seq(NodeRecord) /\ Len(nodes') = Len(nodes) + 1
      /\ Len(nodes') \in DOMAIN nodes' /\ Len(nodes') \in Nat /\ nodes'[Len(nodes')] = n
      /\ DOMAIN nodes' = DOMAIN nodes \cup {Len(nodes')}
      /\ \A m \in DOMAIN nodes : nodes'[m] = nodes[m]
  BY <1>1
<1>3. OpenNodes' = IF n.status = "open" THEN {Len(nodes')} ELSE {}
  BY <1>2 DEF OpenNodes
<1> QED
  BY <1>2, <1>3

LEMMA NodeBuiltStep ==
  ASSUME IInv, NodeBuilt
  PROVE  IInv'
<1> DEFINE on == IF task.at = "building" THEN keyspace ELSE Unset
<1>1. /\ task.at \in {"building", "buildingInMemory"} /\ task.kind = "initialize"
      /\ runningNode = Unset /\ closing.at \in {"no", "draining"} /\ OpenNodes = {}
      /\ UNCHANGED <<keyspace, keyspaces, resets, closing>>
  BY DEF NodeBuilt, IInv, Types, Exclusive, OneOwner, NodeHeld, Resetting
<1>2. on \in Nat \cup {Unset} /\ on \in {Unset, keyspace} /\ resets \in Nat
  BY DEF IInv, Types
<1>3. \/ /\ nodes' = Append(nodes, [keyspace |-> on, status |-> "open", reset |-> resets])
         /\ runningNode' = Len(nodes')
         /\ Answer("root", Len(nodes'))
      \/ /\ nodes' \in {nodes, Append(nodes, [keyspace |-> on, status |-> "leaked", reset |-> resets])}
         /\ Await("buildingInMemory", Unset) \/ Respond("error")
         /\ UNCHANGED runningNode
  BY DEF NodeBuilt
<1> HIDE DEF on
<1>4. CASE /\ nodes' = Append(nodes, [keyspace |-> on, status |-> "open", reset |-> resets])
           /\ runningNode' = Len(nodes')
           /\ Answer("root", Len(nodes'))
  <2> DEFINE n == [keyspace |-> on, status |-> "open", reset |-> resets]
  <2>1. n \in NodeRecord /\ n.status = "open" /\ n.keyspace = on
    BY <1>2 DEF NodeRecord, Status
  <2>2. nodes' = Append(nodes, n)
    BY <1>4
  <2> HIDE DEF n
  <2>3. /\ nodes' \in Seq(NodeRecord) /\ Len(nodes') = Len(nodes) + 1
        /\ Len(nodes') \in DOMAIN nodes' /\ Len(nodes') \in Nat /\ nodes'[Len(nodes')] = n
        /\ OpenNodes' = {Len(nodes')}
    BY <1>1, <2>1, <2>2, NodeAdded DEF IInv
  <2>4. /\ task' = Idle
        /\ lastAnswer' \in [kind : {"none", "peerInfo", "noEntries", "entries", "error", "root", "zeroRoot"}, node : Nat \cup {Unset}]
        /\ lastAnswer'.kind = "root" => lastAnswer'.node = Len(nodes')
    BY <1>4, <2>3 DEF Answer, NoAnswer
  <2>5. Types'
    BY <1>1, <1>4, <2>3, <2>4 DEF IInv, Types, Idle, Resetting
  <2>6. OneOwner'
    <3>1. NodeHeld' = {Len(nodes')}
      BY <1>4, <2>3, UnsetAssumption DEF NodeHeld
    <3>2. KeyspaceHeld' = KeyspaceHeld /\ OpenKeyspaces' = OpenKeyspaces
      BY <1>1, <2>4 DEF KeyspaceHeld, OpenKeyspaces, Idle
    <3>3. nodes'[Len(nodes')].keyspace \in {Unset, keyspace'}
      BY <1>1, <1>2, <2>1, <2>3
    <3> QED
      BY <2>3, <3>1, <3>2, <3>3 DEF IInv, OneOwner
  <2>7. Exclusive'
    BY <1>1, <2>4 DEF IInv, Exclusive, Idle, Resetting
  <2>8. AnswersLast'
    BY <2>3, <2>4 DEF AnswersLast, Idle
  <2> QED
    BY <2>5, <2>6, <2>7, <2>8 DEF IInv
<1>5. CASE /\ nodes' \in {nodes, Append(nodes, [keyspace |-> on, status |-> "leaked", reset |-> resets])}
           /\ Await("buildingInMemory", Unset) \/ Respond("error")
           /\ UNCHANGED runningNode
  <2>1. /\ nodes' \in Seq(NodeRecord) /\ OpenNodes' = {}
        /\ DOMAIN nodes \subseteq DOMAIN nodes'
        /\ lastAnswer.kind = "root" =>
              \A m \in DOMAIN nodes' : m > lastAnswer.node => nodes'[m].status = "leaked"
    <3>1. CASE nodes' = nodes
      BY <1>1, <3>1 DEF IInv, Types, OpenNodes, AnswersLast
    <3>2. CASE nodes' = Append(nodes, [keyspace |-> on, status |-> "leaked", reset |-> resets])
      <4> DEFINE n == [keyspace |-> on, status |-> "leaked", reset |-> resets]
      <4>1. n \in NodeRecord /\ n.status = "leaked"
        BY <1>2 DEF NodeRecord, Status
      <4>2. nodes' = Append(nodes, n)
        BY <3>2
      <4> HIDE DEF n
      <4>3. /\ nodes' \in Seq(NodeRecord) /\ nodes'[Len(nodes')] = n
            /\ DOMAIN nodes' = DOMAIN nodes \cup {Len(nodes')}
            /\ \A m \in DOMAIN nodes : nodes'[m] = nodes[m]
            /\ OpenNodes' = {}
        BY <1>1, <4>1, <4>2, NodeAdded DEF IInv
      <4> QED
        BY <4>1, <4>3 DEF IInv, AnswersLast
    <3> QED
      BY <1>5, <3>1, <3>2
  <2>2. /\ task' \in [kind : Kind \cup {Unset}, at : {"idle", "start", "importing"} \cup Resetting, on : Nat \cup {Unset}]
        /\ \/ task'.at = "idle" /\ task'.kind = Unset
           \/ task'.at = "buildingInMemory" /\ task'.kind = "initialize"
        /\ lastAnswer' \in [kind : {"none", "peerInfo", "noEntries", "entries", "error", "root", "zeroRoot"}, node : Nat \cup {Unset}]
        /\ lastAnswer'.kind = "root" => lastAnswer' = lastAnswer
    <3>1. CASE Await("buildingInMemory", Unset)
      BY <1>1, <3>1, Awaits DEF Resetting, IInv, Types
    <3>2. CASE Respond("error")
      BY <3>2 DEF Respond, Answer, NoAnswer, Idle
    <3> QED
      BY <1>5, <3>1, <3>2
  <2>3. Types'
    BY <1>1, <1>5, <2>1, <2>2 DEF IInv, Types, Resetting
  <2>4. OneOwner'
    <3>1. NodeHeld' = {} /\ KeyspaceHeld' = KeyspaceHeld /\ OpenKeyspaces' = OpenKeyspaces
      BY <1>1, <1>5, <2>2 DEF NodeHeld, KeyspaceHeld, OpenKeyspaces
    <3> QED
      BY <2>1, <3>1 DEF IInv, OneOwner
  <2>5. Exclusive' /\ AnswersLast'
    BY <1>1, <1>5, <2>1, <2>2 DEF IInv, Exclusive, AnswersLast, Resetting
  <2> QED
    BY <2>3, <2>4, <2>5 DEF IInv
<1> QED
  BY <1>3, <1>4, <1>5

LEMMA MessageStep ==
  ASSUME IInv, OnSocketMessage
  PROVE  IInv'
<1>1. task.at = "idle" /\ lastAnswer' = NoAnswer /\ UNCHANGED <<runningNode, nodes, keyspace, keyspaces, resets, closing>>
  BY DEF OnSocketMessage, Idle
<1>2. /\ task' \in [kind : Kind \cup {Unset}, at : {"idle", "start", "importing"} \cup Resetting, on : Nat \cup {Unset}]
      /\ \/ task' = task
         \/ task'.at = "start"
  BY DEF OnSocketMessage, IInv, Types
<1>3. Types'
  BY <1>1, <1>2 DEF IInv, Types, Resetting, NoAnswer
<1>4. OneOwner'
  BY <1>1, <1>2 DEF IInv, OneOwner, NodeHeld, KeyspaceHeld, OpenNodes, OpenKeyspaces
<1>5. Exclusive' /\ AnswersLast'
  BY <1>1, <1>2 DEF IInv, Exclusive, AnswersLast, NoAnswer, Resetting
<1> QED
  BY <1>3, <1>4, <1>5 DEF IInv

\* Requests that do not reset the state.
LEMMA RequestStep ==
  ASSUME IInv, Hello \/ GetState \/ ImportBlock \/ BlockImported
  PROVE  IInv'
<1>1. /\ task.kind # "initialize" /\ task.at \notin Resetting
      /\ UNCHANGED <<runningNode, nodes, keyspace, keyspaces, resets, closing>>
  BY DEF Hello, GetState, ImportBlock, BlockImported, IInv, Types
<1>2. task.at \notin {"closingOld", "closingKeyspace"}
  BY <1>1 DEF Resetting
<1>3. ASSUME NEW kind \in {"peerInfo", "noEntries", "entries", "error"}, Respond(kind)
      PROVE  IInv'
  BY <1>1, <1>2, <1>3, AnswerStep DEF Respond
<1>4. CASE Hello \/ GetState
  BY <1>3, <1>4 DEF Hello, GetState
<1>5. CASE ImportBlock
  <2>1. CASE runningNode = Unset
    BY <1>3, <1>5, <2>1 DEF ImportBlock
  <2>2. CASE runningNode # Unset
    <3>1. Await("importing", runningNode) /\ task.kind = "importBlock"
      BY <1>5, <2>2 DEF ImportBlock
    <3>2. runningNode \in DOMAIN nodes /\ runningNode = Len(nodes) /\ runningNode \in Nat
      BY <2>2 DEF IInv, Types, OneOwner, NodeHeld
    <3>3. /\ task' \in [kind : Kind \cup {Unset}, at : {"idle", "start", "importing"} \cup Resetting, on : Nat \cup {Unset}]
          /\ task'.kind = task.kind /\ task'.at = "importing" /\ task'.on = runningNode /\ lastAnswer' = lastAnswer
      BY <3>1, <3>2, Awaits
    <3>4. Types'
      BY <1>1, <3>1, <3>3 DEF IInv, Types, Resetting
    <3>5. OneOwner'
      BY <1>1, <1>2, <3>3 DEF IInv, OneOwner, NodeHeld, KeyspaceHeld, OpenNodes, OpenKeyspaces
    <3>6. Exclusive' /\ AnswersLast'
      BY <1>1, <3>2, <3>3 DEF IInv, Exclusive, AnswersLast, Resetting
    <3> QED
      BY <3>4, <3>5, <3>6 DEF IInv
  <2> QED
    BY <2>1, <2>2
<1>6. CASE BlockImported
  <2>1. CASE Respond("error")
    BY <1>3, <2>1
  <2>2. CASE Answer("root", task.on)
    <3> DEFINE node == task.on
    <3>1. node \in DOMAIN nodes /\ node = Len(nodes) /\ node \in Nat
      BY <1>6 DEF BlockImported, IInv, Types, AnswersLast
    <3>2. Answer("root", node)
      BY <2>2
    <3> HIDE DEF node
    <3> QED
      BY <1>1, <1>2, <3>1, <3>2, AnswerStep
  <2> QED
    BY <1>6, <2>1, <2>2 DEF BlockImported
<1> QED
  BY <1>4, <1>5, <1>6

\* What is in use is taken out of use and closed next, or nothing is left.
LEMMA CloseNextStep ==
  ASSUME IInv, CloseNext, task.at \notin Resetting, UNCHANGED <<task, lastAnswer, resets>>,
         nodes' \in Seq(NodeRecord), DOMAIN nodes' = DOMAIN nodes, Len(nodes') = Len(nodes),
         OpenNodes' = IF runningNode # Unset THEN {runningNode} ELSE {},
         \A n \in OpenNodes' : n = Len(nodes) /\ nodes'[n].keyspace \in {Unset, keyspace},
         keyspaces' \in Seq(Status), DOMAIN keyspaces' = DOMAIN keyspaces,
         OpenKeyspaces' = IF keyspace # Unset THEN {keyspace} ELSE {},
         lastAnswer.kind = "root" => \A m \in DOMAIN nodes' : m > lastAnswer.node => nodes'[m].status = "leaked"
  PROVE  IInv'
<1>1. task.at \notin {"closingOld", "closingKeyspace", "wiping", "opening"}
  BY DEF Resetting
<1>2. /\ runningNode \in Nat \cup {Unset} /\ keyspace \in Nat \cup {Unset}
      /\ runningNode \in DOMAIN nodes \cup {Unset} /\ keyspace \in DOMAIN keyspaces \cup {Unset}
  BY DEF IInv, Types
<1>3. CASE runningNode # Unset
  <2>1. closing' = [at |-> "node", on |-> runningNode] /\ runningNode' = Unset /\ keyspace' = keyspace
    BY <1>3 DEF CloseNext
  <2>2. Types'
    BY <1>2, <2>1 DEF IInv, Types
  <2>3. OneOwner'
    BY <1>1, <1>3, <2>1 DEF OneOwner, NodeHeld, KeyspaceHeld
  <2>4. Exclusive' /\ AnswersLast'
    BY <1>1, <2>1 DEF IInv, Exclusive, AnswersLast, Resetting
  <2> QED
    BY <2>2, <2>3, <2>4 DEF IInv
<1>4. CASE runningNode = Unset /\ keyspace # Unset
  <2>1. closing' = [at |-> "keyspace", on |-> keyspace] /\ keyspace' = Unset /\ runningNode' = runningNode
    BY <1>4 DEF CloseNext
  <2>2. Types'
    BY <1>2, <2>1 DEF IInv, Types
  <2>3. OneOwner'
    BY <1>1, <1>4, <2>1 DEF OneOwner, NodeHeld, KeyspaceHeld
  <2>4. Exclusive' /\ AnswersLast'
    BY <1>1, <1>4, <2>1 DEF IInv, Exclusive, AnswersLast, Resetting
  <2> QED
    BY <2>2, <2>3, <2>4 DEF IInv
<1>5. CASE runningNode = Unset /\ keyspace = Unset
  <2>1. closing' = [at |-> "done", on |-> Unset] /\ keyspace' = Unset /\ runningNode' = Unset
    BY <1>5 DEF CloseNext
  <2>2. Types'
    BY <1>2, <2>1 DEF IInv, Types
  <2>3. OneOwner'
    BY <1>1, <1>5, <2>1 DEF OneOwner, NodeHeld, KeyspaceHeld
  <2>4. Exclusive' /\ AnswersLast'
    BY <1>1, <1>5, <2>1 DEF IInv, Exclusive, AnswersLast, Resetting
  <2> QED
    BY <2>2, <2>3, <2>4 DEF IInv
<1> QED
  BY <1>3, <1>4, <1>5

\* The shutdown begins, at once or when the reset that was under way is over.
LEMMA CloseBegins ==
  ASSUME IInv, Close \/ ResetDrained
  PROVE  IInv'
<1>1. closing.at \in {"no", "draining"} /\ UNCHANGED <<task, lastAnswer, nodes, keyspaces, resets>>
  BY DEF Close, ResetDrained
<1>2. CASE IsActiveReset
  <2>1. closing' = [at |-> "draining", on |-> Unset] /\ UNCHANGED <<runningNode, keyspace>>
    BY <1>2 DEF Close, DrainReset, ResetDrained
  <2>2. Types'
    BY <1>1, <2>1 DEF IInv, Types
  <2>3. OneOwner'
    BY <1>1, <2>1 DEF IInv, OneOwner, NodeHeld, KeyspaceHeld, OpenNodes, OpenKeyspaces
  <2>4. Exclusive' /\ AnswersLast'
    BY <1>1, <2>1 DEF IInv, Exclusive, AnswersLast
  <2> QED
    BY <2>2, <2>3, <2>4 DEF IInv
<1>3. CASE ~IsActiveReset
  <2>1. CloseNext
    BY <1>3 DEF Close, DrainReset, ResetDrained
  <2>2. task.at \notin Resetting
    BY <1>3 DEF IsActiveReset, IInv, Types, Resetting
  <2>3. /\ OpenNodes' = OpenNodes /\ OpenNodes = IF runningNode # Unset THEN {runningNode} ELSE {}
        /\ OpenKeyspaces' = OpenKeyspaces /\ OpenKeyspaces = IF keyspace # Unset THEN {keyspace} ELSE {}
    BY <1>1, <2>2 DEF IInv, OneOwner, NodeHeld, KeyspaceHeld, OpenNodes, OpenKeyspaces, Resetting
  <2>4. /\ nodes' \in Seq(NodeRecord) /\ DOMAIN nodes' = DOMAIN nodes /\ Len(nodes') = Len(nodes)
        /\ keyspaces' \in Seq(Status) /\ DOMAIN keyspaces' = DOMAIN keyspaces
        /\ \A n \in OpenNodes' : n = Len(nodes) /\ nodes'[n].keyspace \in {Unset, keyspace}
        /\ lastAnswer.kind = "root" => \A m \in DOMAIN nodes' : m > lastAnswer.node => nodes'[m].status = "leaked"
    BY <1>1, <2>3 DEF IInv, Types, OneOwner, AnswersLast
  <2> QED
    BY <1>1, <2>1, <2>2, <2>3, <2>4, CloseNextStep
<1> QED
  BY <1>2, <1>3

LEMMA CloseGoesOnStep ==
  ASSUME IInv, CloseGoesOn
  PROVE  IInv'
<1>1. /\ closing.at \in {"node", "keyspace"} /\ runningNode = Unset /\ task.at \notin Resetting
      /\ CloseNext /\ UNCHANGED <<task, lastAnswer, resets>>
  BY DEF CloseGoesOn, IInv, Exclusive
<1>2. task.at \notin {"closingOld", "closingKeyspace"}
  BY <1>1 DEF Resetting
<1>3. CASE closing.at = "node"
  <2> DEFINE n == closing.on
  <2>1. PICK status \in {"closed", "leaked"} : nodes' = [nodes EXCEPT ![n].status = status]
    BY <1>3 DEF CloseGoesOn, NodeClosed, NodeLeaks
  <2>2. NodeHeld = {n} /\ keyspaces' = keyspaces
    BY <1>1, <1>2, <1>3 DEF NodeHeld, CloseGoesOn
  <2> HIDE DEF n
  <2>3. /\ nodes' \in Seq(NodeRecord) /\ Len(nodes') = Len(nodes) /\ DOMAIN nodes' = DOMAIN nodes
        /\ OpenNodes' = {}
        /\ lastAnswer.kind = "root" => \A m \in DOMAIN nodes' : m > lastAnswer.node => nodes'[m].status = "leaked"
    BY <2>1, <2>2, NodeEnds
  <2>4. OpenKeyspaces' = IF keyspace # Unset THEN {keyspace} ELSE {}
    BY <1>2, <1>3, <2>2 DEF IInv, OneOwner, KeyspaceHeld, OpenKeyspaces
  <2>5. keyspaces' \in Seq(Status) /\ DOMAIN keyspaces' = DOMAIN keyspaces
    BY <2>2 DEF IInv, Types
  <2> QED
    BY <1>1, <2>3, <2>4, <2>5, CloseNextStep
<1>4. CASE closing.at = "keyspace"
  <2>1. PICK status \in {"closed", "leaked"} : keyspaces' = [keyspaces EXCEPT ![closing.on] = status]
    BY <1>4 DEF CloseGoesOn
  <2>2. nodes' = nodes /\ keyspace = Unset
    BY <1>4 DEF CloseGoesOn, IInv, Exclusive
  <2>3. keyspaces \in Seq(Status) /\ OpenKeyspaces = {closing.on}
    BY <1>2, <1>4, <2>2 DEF IInv, Types, OneOwner, KeyspaceHeld
  <2>4. closing.on \in OpenKeyspaces
    BY <2>3
  <2>5. closing.on \in 1..Len(keyspaces)
    BY <2>3, <2>4 DEF OpenKeyspaces
  <2>6. keyspaces' \in Seq(Status) /\ DOMAIN keyspaces' = DOMAIN keyspaces
    BY <2>1, <2>3, <2>5, ExceptSeq DEF Status
  <2>7. OpenKeyspaces' = {}
    BY <2>1, <2>3, <2>5 DEF OpenKeyspaces
  <2>8. OpenNodes' = {}
    BY <1>1, <1>2, <1>4, <2>2 DEF IInv, OneOwner, NodeHeld, OpenNodes
  <2>9. /\ nodes' \in Seq(NodeRecord) /\ Len(nodes') = Len(nodes) /\ DOMAIN nodes' = DOMAIN nodes
        /\ lastAnswer.kind = "root" => \A m \in DOMAIN nodes' : m > lastAnswer.node => nodes'[m].status = "leaked"
    BY <2>2 DEF IInv, Types, AnswersLast
  <2> QED
    BY <1>1, <2>2, <2>6, <2>7, <2>8, <2>9, CloseNextStep
<1> QED
  BY <1>1, <1>3, <1>4

\* Every step keeps the invariant.
LEMMA StepIInv ==
  ASSUME IInv, [FuzzNext]_fuzzVars
  PROVE  IInv'
<1>1. CASE Wiped
  <2>1. task.at = "wiping" /\ keyspace = Unset /\ UNCHANGED <<runningNode, nodes, keyspace, keyspaces, resets, closing>>
    BY <1>1 DEF Wiped, IInv, Exclusive
  <2>2. PICK next \in {"opening", "buildingInMemory"} : Await(next, Unset)
    BY <1>1 DEF Wiped
  <2> QED
    BY <2>1, <2>2, GoesOn DEF Resetting
<1>2. CASE PartitionsDeleted
  <2>1. task.at = "deletingPartitions" /\ UNCHANGED <<runningNode, nodes, keyspace, keyspaces, resets, closing>>
    BY <1>2 DEF PartitionsDeleted
  <2>2. PICK next \in {"building", "buildingInMemory"} : Await(next, Unset)
    BY <1>2 DEF PartitionsDeleted
  <2> QED
    BY <2>1, <2>2, GoesOn DEF Resetting
<1>3. CASE UNCHANGED fuzzVars
  BY <1>3 DEF fuzzVars, IInv, Types, OneOwner, Exclusive, AnswersLast, NodeHeld, KeyspaceHeld, OpenNodes, OpenKeyspaces
<1> QED
  BY <1>1, <1>2, <1>3, MessageStep, RequestStep, ResetStateStep, OldNodeClosedStep, KeyspaceClosedStep,
     KeyspaceOpenedStep, NodeBuiltStep, CloseBegins, CloseGoesOnStep DEF FuzzNext

-----------------------------------------------------------------------------

\* There is one open node at most, on an open key space; nothing is deleted or
\* made anew under it; the answers of a session are those of its last node; and
\* nothing outlives the shutdown.
THEOREM NothingOutlivesTheSession == FuzzSpec => []NothingOutlives
<1>1. IInv => NothingOutlives
  <2> SUFFICES ASSUME IInv PROVE NothingOutlives
    OBVIOUS
  <2>1. \E n : OpenNodes \subseteq {n}
    BY DEF IInv, OneOwner
  <2>2. Cardinality(OpenNodes) <= 1
    <3>1. PICK n : OpenNodes \subseteq {n}
      BY <2>1
    <3>2. Cardinality({n}) = 1 /\ IsFiniteSet({n})
      BY FS_Singleton
    <3>3. Cardinality(OpenNodes) \in Nat /\ Cardinality(OpenNodes) <= Cardinality({n})
      BY <3>1, <3>2, FS_Subset, FS_CardinalityType
    <3> QED
      BY <3>2, <3>3
  <2>3. runningNode # Unset => OpenNodes = {runningNode}
    BY DEF IInv, OneOwner, NodeHeld
  <2>4. \A n \in OpenNodes : nodes[n].keyspace = Unset \/ keyspaces[nodes[n].keyspace] = "open"
    BY DEF IInv, OneOwner, KeyspaceHeld, OpenKeyspaces
  <2>5. task.at \in {"deletingPartitions", "wiping", "opening", "closingKeyspace"} => OpenNodes = {}
    BY DEF IInv, OneOwner, Exclusive, NodeHeld, Resetting
  <2>6. \A k \in DOMAIN keyspaces : keyspaces[k] = "open" =>
          \/ k = keyspace
          \/ task.at = "closingKeyspace" /\ k = task.on
          \/ closing.at = "keyspace" /\ k = closing.on
    BY DEF IInv, OneOwner, KeyspaceHeld, OpenKeyspaces
  <2>7. lastAnswer.kind = "root" => \A n \in DOMAIN nodes : n > lastAnswer.node => nodes[n].status = "leaked"
    BY DEF IInv, AnswersLast
  <2>8. closing.at = "done" =>
          OpenNodes = {} /\ "open" \notin {keyspaces[k] : k \in DOMAIN keyspaces} /\ ~IsActiveReset
    <3> SUFFICES ASSUME closing.at = "done"
                 PROVE  OpenNodes = {} /\ "open" \notin {keyspaces[k] : k \in DOMAIN keyspaces} /\ ~IsActiveReset
      OBVIOUS
    <3>1. runningNode = Unset /\ keyspace = Unset /\ task.at \notin Resetting
      BY DEF IInv, Exclusive
    <3>2. OpenNodes = {} /\ OpenKeyspaces = {}
      BY <3>1 DEF IInv, OneOwner, NodeHeld, KeyspaceHeld, Resetting
    <3>3. ~IsActiveReset
      BY <3>1, UnsetAssumption DEF IsActiveReset, IInv, Types, Kind, Resetting
    <3> QED
      BY <3>2, <3>3 DEF OpenKeyspaces
  <2> QED
    BY <2>2, <2>3, <2>4, <2>5, <2>6, <2>7, <2>8 DEF NothingOutlives
<1>2. FuzzInit => IInv
  BY InitIInv
<1>3. IInv /\ [FuzzNext]_fuzzVars => IInv'
  BY StepIInv
<1> QED
  BY <1>1, <1>2, <1>3, PTL DEF FuzzSpec
=============================================================================
