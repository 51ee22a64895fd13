---------------------------------- MODULE Rpc ----------------------------------
(***************************************************************************)
(* The RPC server, its subscriptions and its client                        *)
(* (packages/jam/rpc, rpc-client and rpc-validation), over a database that *)
(* another thread writes.                                                  *)
(*                                                                         *)
(* A handler of the server reads without waiting, so one message is one    *)
(* step; a poll of the subscriptions is not interrupted by messages        *)
(* either, but the database moves on while it runs.  A client handles all  *)
(* messages of one packet before what waits for their answers goes on.     *)
(* Batches and requests without an id, which this client never sends, are  *)
(* left out.                                                               *)
(***************************************************************************)
EXTENDS Integers, Sequences, FiniteSets

CONSTANTS
    Null,
    Clients,
    Requests,                    \* requests [method, params] each client may send
    ParentOf, SlotOf, RootOf,    \* of each block; block 0 has no parent
    ServicesAt,                    \* ServicesAt[b][s]: [info, storage, preimages, requests]
    StatisticsOf,
    MaxBlock, MaxRequests, MaxPolls

\* An unsubscription is sent by CallUnsubscribe.
RpcAssumption == \A c \in Clients : \A r \in Requests[c] : r.method # "unsubscribe"
ASSUME RpcAssumption

VARIABLES
    newest, bestStored, prunedStates,       \* the database: blocks 0..newest
    connections,                            \* of each client: "open", "lost", "closed"
    toServer, toClient,                     \* messages under way
    subscriptions, lastResults, nextSubscription,   \* the server's
    polling, polls,                         \* subscriptions still to visit, and the best block read for the first
    underWay,                               \* requests that take their time
    messageQueue, resolved, emitters, sent, \* a client's: calls, ids not yet known, ids with an emitter, number of calls
    told, heard, missed                     \* of a subscription: all that was sent and heard, how much came too early

databaseVars == <<newest, bestStored, prunedStates>>
serverVars == <<subscriptions, lastResults, nextSubscription, polling, polls, underWay>>
clientVars == <<messageQueue, resolved, emitters, sent, heard, missed>>
rpcVars == <<databaseVars, connections, toServer, toClient, serverVars, clientVars, told>>

------------------------------------------------------------------------------
(* Handlers.                                                               *)

Result(v) == [result |-> v]
Failure(e) == [error |-> e]
At(f, k) == IF k \in DOMAIN f THEN f[k] ELSE Null
Entered(f, k, v) == [x \in DOMAIN f \cup {k} |-> IF x = k THEN v ELSE f[x]]

HasHeader(h) == h \in 0..newest
HasState(h) == h \in 0..newest \ prunedStates
AccountAt(h, s) == At(ServicesAt[h], s)

BestBlock(h) == IF HasHeader(h) THEN Result([header |-> h, slot |-> SlotOf[h]]) ELSE Failure("block unavailable")
FinalizedBlock(h) == BestBlock(h)
Parent(h) ==
    IF ~HasHeader(h) THEN Failure("block unavailable")
    ELSE IF ParentOf[h] = Null THEN Failure("no parent")
    ELSE Result([header |-> ParentOf[h], slot |-> SlotOf[ParentOf[h]]])
StateRoot(h) == IF HasHeader(h) THEN Result(RootOf[h]) ELSE Failure("block unavailable")
ListServices(h) == IF HasState(h) THEN Result(DOMAIN ServicesAt[h]) ELSE Failure("no state")
Statistics(h) == IF HasState(h) THEN Result(StatisticsOf[h]) ELSE Failure("no state")
ServiceData(h, p) ==
    IF ~HasState(h) THEN Failure("no state")
    ELSE Result(IF AccountAt(h, p.service) = Null THEN Null ELSE AccountAt(h, p.service).info)
ServiceValue(h, p) ==
    IF ~HasState(h) THEN Failure("no state")
    ELSE Result(IF AccountAt(h, p.service) = Null THEN Null ELSE At(AccountAt(h, p.service).storage, p.key))
\* A service that does not exist is an error here alone.
ServicePreimage(h, p) ==
    IF ~HasState(h) THEN Failure("no state")
    ELSE IF AccountAt(h, p.service) = Null THEN Failure("no service")
    ELSE Result(At(AccountAt(h, p.service).preimages, p.hash))
\* And here nothing is: a pruned state looks like a missing request.
ServiceRequest(h, p) ==
    Result(IF ~HasState(h) \/ AccountAt(h, p.service) = Null THEN Null
           ELSE At(AccountAt(h, p.service).requests, <<p.hash, p.length>>))

\* What a subscription asks of the best block, which `finalized` is as well.
SubscribeBestBlock(h) == BestBlock(h)
SubscribeFinalizedBlock(h) == FinalizedBlock(h)
SubscribeStatistics(h) == Statistics(h)
SubscribeServiceData(h, p) == ServiceData(h, p)
SubscribeServiceValue(h, p) == ServiceValue(h, p)
SubscribeServicePreimage(h, p) == ServicePreimage(h, p)
SubscribeServiceRequest(h, p) == ServiceRequest(h, p)

SubscribableMethods ==
    {"subscribeBestBlock", "subscribeFinalizedBlock", "subscribeStatistics", "subscribeServiceData",
     "subscribeServiceValue", "subscribeServicePreimage", "subscribeServiceRequest"}

Polled(h, method, p) ==
    CASE method = "subscribeBestBlock" -> SubscribeBestBlock(h)
      [] method = "subscribeFinalizedBlock" -> SubscribeFinalizedBlock(h)
      [] method = "subscribeStatistics" -> SubscribeStatistics(h)
      [] method = "subscribeServiceData" -> SubscribeServiceData(h, p)
      [] method = "subscribeServiceValue" -> SubscribeServiceValue(h, p)
      [] method = "subscribeServicePreimage" -> SubscribeServicePreimage(h, p)
      [] method = "subscribeServiceRequest" -> SubscribeServiceRequest(h, p)

\* What a request that changes nothing is answered.
Read(method, p) ==
    CASE method = "bestBlock" -> BestBlock(bestStored)
      [] method = "finalizedBlock" -> FinalizedBlock(bestStored)
      [] method = "parent" -> Parent(p.header)
      [] method = "stateRoot" -> StateRoot(p.header)
      [] method = "listServices" -> ListServices(p.header)
      [] method = "statistics" -> Statistics(p.header)
      [] method = "serviceData" -> ServiceData(p.header, p)
      [] method = "serviceValue" -> ServiceValue(p.header, p)
      [] method = "servicePreimage" -> ServicePreimage(p.header, p)
      [] method = "serviceRequest" -> ServiceRequest(p.header, p)
      [] method = "submitWorkPackage" -> Failure("not implemented")
      [] OTHER -> Failure("method not found")

------------------------------------------------------------------------------
(* The server.                                                             *)

\* What is sent on a connection that is gone is lost.
SendMessage(c, message) == IF connections[c] = "open" THEN [toClient EXCEPT ![c] = Append(@, message)] ELSE toClient
ResponseTo(call, answer) == [call |-> call, answer |-> answer]
\* The number of a notification is not sent: it is kept for the properties.
Notification(id, answer, nth) == [id |-> id, answer |-> answer, nth |-> nth]

Subscribe(c, request) ==
    /\ subscriptions' = Entered(subscriptions, nextSubscription, [ws |-> c, method |-> request.method, params |-> request.params])
    /\ nextSubscription' = nextSubscription + 1
    /\ told' = Entered(told, nextSubscription, <<>>)
    /\ heard' = Entered(heard, nextSubscription, <<>>) /\ missed' = Entered(missed, nextSubscription, 0)
    /\ toClient' = SendMessage(c, ResponseTo(request.call, Result(nextSubscription)))
    /\ UNCHANGED lastResults

DropSubscriptions(ids) ==
    /\ subscriptions' = [i \in DOMAIN subscriptions \ ids |-> subscriptions[i]]
    /\ lastResults' = [i \in DOMAIN lastResults \ ids |-> lastResults[i]]

\* Only who subscribed may unsubscribe.  A plausible bug: any id that is known
\* will do.
AnySubscription(c, id) == id \in DOMAIN subscriptions
OwnSubscription(c, id) == id \in DOMAIN subscriptions /\ subscriptions[id].ws = c
Unsubscribe(c, request) ==
    /\ IF OwnSubscription(c, request.params)
       THEN DropSubscriptions({request.params}) /\ toClient' = SendMessage(c, ResponseTo(request.call, Result(TRUE)))
       ELSE UNCHANGED <<subscriptions, lastResults>> /\ toClient' = SendMessage(c, ResponseTo(request.call, Failure("not found")))
    /\ UNCHANGED <<nextSubscription, told, heard, missed>>

\* handleRequest, fulfillRequest: the refinement of a package is the one
\* request that takes its time.
HandleRequest(c) ==
    /\ polling = <<>> /\ connections[c] # "closed" /\ toServer[c] # <<>>
    /\ toServer' = [toServer EXCEPT ![c] = Tail(@)]
    /\ LET request == Head(toServer[c]) IN
       CASE request.method \in SubscribableMethods -> Subscribe(c, request) /\ UNCHANGED underWay
         [] request.method = "unsubscribe" -> Unsubscribe(c, request) /\ UNCHANGED underWay
         [] request.method = "refineWorkPackage" ->
                /\ underWay' = underWay \cup {[ws |-> c, call |-> request.call]}
                /\ UNCHANGED <<subscriptions, lastResults, nextSubscription, toClient, told, heard, missed>>
         [] OTHER ->
                /\ toClient' = SendMessage(c, ResponseTo(request.call, Read(request.method, request.params)))
                /\ UNCHANGED <<subscriptions, lastResults, nextSubscription, told, heard, missed, underWay>>
    /\ UNCHANGED <<databaseVars, connections, polling, polls, messageQueue, resolved, emitters, sent>>

RequestFulfilled ==
    /\ polling = <<>>
    /\ \E u \in underWay :
        /\ underWay' = underWay \ {u}
        /\ toClient' = SendMessage(u.ws, ResponseTo(u.call, Result("refined")))
    /\ UNCHANGED <<databaseVars, connections, toServer, subscriptions, lastResults, nextSubscription, polling, polls, clientVars, told>>

\* Every second, in the order in which they were made.
PollSubscriptions ==
    /\ polling = <<>> /\ subscriptions # <<>> /\ polls < MaxPolls
    /\ polls' = polls + 1
    /\ \E ids \in [1..Cardinality(DOMAIN subscriptions) -> DOMAIN subscriptions] :
        /\ \A i, j \in DOMAIN ids : i < j => ids[i] < ids[j]
        /\ polling' = [i \in DOMAIN ids |-> [id |-> ids[i], header |-> Null]]
    /\ UNCHANGED <<databaseVars, connections, toServer, toClient, subscriptions, lastResults, nextSubscription, underWay, clientVars, told>>

ReadBest ==
    /\ polling # <<>> /\ Head(polling).header = Null
    /\ polling' = [polling EXCEPT ![1].header = bestStored]
    /\ UNCHANGED <<databaseVars, connections, toServer, toClient, subscriptions, lastResults, nextSubscription, polls, underWay, clientVars, told>>

Notify ==
    /\ polling # <<>> /\ Head(polling).header # Null
    /\ polling' = Tail(polling)
    /\ LET id == Head(polling).id
           s == subscriptions[id]
           answer == Polled(Head(polling).header, s.method, s.params)
       IN  IF id \in DOMAIN lastResults /\ lastResults[id] = answer
           THEN UNCHANGED <<lastResults, toClient, told>>
           ELSE /\ lastResults' = Entered(lastResults, id, answer)
                /\ toClient' = SendMessage(s.ws, Notification(id, answer, Len(told[id]) + 1))
                /\ told' = [told EXCEPT ![id] = Append(@, answer)]
    /\ UNCHANGED <<databaseVars, connections, toServer, subscriptions, nextSubscription, polls, underWay, clientVars>>

\* The client closes or is silent for a ping: nothing arrives any more.
ConnectionLost(c) ==
    /\ connections[c] = "open"
    /\ connections' = [connections EXCEPT ![c] = "lost"] /\ toClient' = [toClient EXCEPT ![c] = <<>>]
    /\ UNCHANGED <<databaseVars, toServer, serverVars, clientVars, told>>

\* The listeners of every subscription.
OnClose(c) ==
    /\ polling = <<>> /\ connections[c] = "lost"
    /\ connections' = [connections EXCEPT ![c] = "closed"]
    /\ DropSubscriptions({id \in DOMAIN subscriptions : subscriptions[id].ws = c})
    /\ UNCHANGED <<databaseVars, toServer, toClient, nextSubscription, polling, polls, underWay, clientVars, told>>

------------------------------------------------------------------------------
(* The client.                                                             *)

Call(c, request) ==
    /\ connections[c] = "open" /\ resolved[c] = {} /\ sent[c] < MaxRequests[c]
    /\ sent' = [sent EXCEPT ![c] = @ + 1]
    /\ messageQueue' = [messageQueue EXCEPT ![c] = Entered(@, sent[c] + 1, request)]
    /\ toServer' = [toServer EXCEPT ![c] = Append(@, [call |-> sent[c] + 1, method |-> request.method, params |-> request.params])]
    /\ UNCHANGED <<databaseVars, connections, toClient, serverVars, resolved, emitters, heard, missed, told>>

\* Through the emitter, or for an id that is somebody else's.
CallUnsubscribe(c) ==
    \E id \in emitters[c] \cup {i \in DOMAIN subscriptions : subscriptions[i].ws # c} :
        Call(c, [method |-> "unsubscribe", params |-> id])

OnMessage(c) ==
    /\ connections[c] = "open" /\ toClient[c] # <<>>
    /\ toClient' = [toClient EXCEPT ![c] = Tail(@)]
    /\ LET message == Head(toClient[c]) IN
       IF "id" \in DOMAIN message
       THEN /\ IF message.id \in emitters[c]
               THEN heard' = [heard EXCEPT ![message.id] = Append(@, message.answer)] /\ UNCHANGED missed
               ELSE missed' = [missed EXCEPT ![message.id] = @ + 1] /\ UNCHANGED heard
            /\ UNCHANGED <<messageQueue, resolved>>
       ELSE LET request == messageQueue[c][message.call] IN
            /\ messageQueue' = [messageQueue EXCEPT ![c] = [n \in DOMAIN @ \ {message.call} |-> @[n]]]
            /\ resolved' = [resolved EXCEPT ![c] =
                    IF "error" \in DOMAIN message.answer THEN @
                    ELSE IF request.method \in SubscribableMethods THEN @ \cup {[id |-> message.answer.result, on |-> TRUE]}
                    ELSE IF request.method = "unsubscribe" THEN @ \cup {[id |-> request.params, on |-> FALSE]} ELSE @]
            /\ UNCHANGED <<heard, missed>>
    /\ UNCHANGED <<databaseVars, connections, toServer, serverVars, emitters, sent, told>>

\* What waited for an answer goes on once the packet is done.
AnswersAwaited(c) ==
    /\ resolved[c] # {}
    /\ emitters' = [emitters EXCEPT ![c] = (@ \cup {r.id : r \in {x \in resolved[c] : x.on}})
                                           \ {r.id : r \in {x \in resolved[c] : ~x.on}}]
    /\ resolved' = [resolved EXCEPT ![c] = {}]
    /\ UNCHANGED <<databaseVars, connections, toServer, toClient, serverVars, messageQueue, sent, heard, missed, told>>

------------------------------------------------------------------------------
(* The database and the whole.                                             *)

Import ==
    /\ newest < MaxBlock
    /\ newest' = newest + 1 /\ bestStored' \in {bestStored, newest'}
    /\ UNCHANGED <<prunedStates, connections, toServer, toClient, serverVars, clientVars, told>>
Prune ==
    /\ \E b \in 0..newest \ ({bestStored} \cup prunedStates) : prunedStates' = prunedStates \cup {b}
    /\ UNCHANGED <<newest, bestStored, connections, toServer, toClient, serverVars, clientVars, told>>

RpcInit ==
    /\ newest = 0 /\ bestStored = 0 /\ prunedStates = {}
    /\ connections = [c \in Clients |-> "open"]
    /\ toServer = [c \in Clients |-> <<>>] /\ toClient = toServer
    /\ subscriptions = <<>> /\ lastResults = <<>> /\ nextSubscription = 0
    /\ polling = <<>> /\ polls = 0 /\ underWay = {}
    /\ messageQueue = [c \in Clients |-> <<>>] /\ sent = [c \in Clients |-> 0]
    /\ resolved = [c \in Clients |-> {}] /\ emitters = resolved
    /\ told = <<>> /\ heard = <<>> /\ missed = <<>>

RpcNext ==
    \/ Import \/ Prune
    \/ RequestFulfilled \/ PollSubscriptions \/ ReadBest \/ Notify
    \/ \E c \in Clients :
        \/ HandleRequest(c) \/ ConnectionLost(c) \/ OnClose(c)
        \/ OnMessage(c) \/ AnswersAwaited(c) \/ CallUnsubscribe(c)
        \/ \E r \in Requests[c] : Call(c, r)

------------------------------------------------------------------------------
(* Properties.                                                             *)

(***************************************************************************)
(* The client that knows a subscription hears what the server tells, in    *)
(* order and each change once; all it can miss is what was in the packet   *)
(* of the answer that brought the id (rpc-client/index.ts:156), and no     *)
(* other client hears of it or ends it.  The server keeps nothing of       *)
(* connections that are gone.  A call of an open connection is in one      *)
(* place until it is answered.                                             *)
(***************************************************************************)
IsNote(message) == "id" \in DOMAIN message
NotesOf(messages, id) == {i \in DOMAIN messages : IsNote(messages[i]) /\ messages[i].id = id}
AnswersIn(messages) == {i \in DOMAIN messages : ~IsNote(messages[i])}
Succeeds(answer) == "error" \notin DOMAIN answer

\* Somebody asks, and the last that was told is what a poll compares with.
SubscriptionsAreKept ==
    /\ DOMAIN lastResults \subseteq DOMAIN subscriptions
    /\ \A id \in DOMAIN subscriptions :
        /\ connections[subscriptions[id].ws] # "closed"
        /\ IF told[id] = <<>> THEN id \notin DOMAIN lastResults
           ELSE id \in DOMAIN lastResults /\ lastResults[id] = told[id][Len(told[id])]

OnlyChangesAreTold == \A id \in DOMAIN told : \A i \in 2..Len(told[id]) : told[id][i] # told[id][i - 1]

\* What was heard, and then what comes, is all that was told but what was missed.
AllIsHeard(messages, id) ==
    /\ \A i \in DOMAIN heard[id] : heard[id][i] = told[id][missed[id] + i]
    /\ {messages[i].nth : i \in NotesOf(messages, id)} = (missed[id] + Len(heard[id]) + 1)..Len(told[id])
    /\ \A i \in NotesOf(messages, id) :
        /\ messages[i].answer = told[id][messages[i].nth]
        /\ \A j \in NotesOf(messages, id) : i < j => messages[i].nth < messages[j].nth

\* The answer comes that the subscription was ended as the client asked.
EndComes(c, id) ==
    \E i \in AnswersIn(toClient[c]) :
        /\ Succeeds(toClient[c][i].answer)
        /\ messageQueue[c][toClient[c][i].call] = [method |-> "unsubscribe", params |-> id]

OwnersHear ==
    \A c \in Clients : \A id \in emitters[c] :
        /\ \A d \in Clients \ {c} : id \notin emitters[d] /\ NotesOf(toClient[d], id) = {}
        /\ id \in DOMAIN subscriptions => subscriptions[id].ws = c
        /\ connections[c] = "open" =>
            /\ AllIsHeard(toClient[c], id)
            /\ id \in DOMAIN subscriptions \/ EndComes(c, id) \/ [id |-> id, on |-> FALSE] \in resolved[c]

CallsAreAnswered ==
    \A c \in Clients :
        LET requested == {toServer[c][i].call : i \in DOMAIN toServer[c]}
            worked == {u.call : u \in {x \in underWay : x.ws = c}}
            answered == {toClient[c][i].call : i \in AnswersIn(toClient[c])}
        IN  connections[c] = "open" =>
                /\ DOMAIN messageQueue[c] = requested \cup worked \cup answered
                /\ requested \cap worked = {} /\ answered \cap (requested \cup worked) = {}
                /\ \A i, j \in DOMAIN toServer[c] : i # j => toServer[c][i].call # toServer[c][j].call
                /\ \A i, j \in AnswersIn(toClient[c]) : i # j => toClient[c][i].call # toClient[c][j].call

SubscribersAreTold == SubscriptionsAreKept /\ OnlyChangesAreTold /\ OwnersHear /\ CallsAreAnswered
=============================================================================
