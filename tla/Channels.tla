------------------------------- MODULE Channels -------------------------------
(***************************************************************************)
(* The channels the workers talk over: a Channel at each of two connected  *)
(* ports turns a request into an event that carries a response id, and     *)
(* listens once to the event of that id.  A DirectPort calls the other     *)
(* end's listeners at once, a ThreadPort sends a message; what comes       *)
(* before its listener waits in pendingMessages.                           *)
(***************************************************************************)
EXTENDS Naturals, Sequences, FiniteSets

CONSTANTS
    Method,         \* the methods of the protocol
    MaxSent         \* bound: requests made by each end

\* No method has the name of an event a response comes with.
ChannelAssumption == MaxSent \in Nat /\ Method \cap (Method \X (1..MaxSent)) = {}
ASSUME ChannelAssumption

End == {"tx", "rx"}
Other(e) == IF e = "tx" THEN "rx" ELSE "tx"

VARIABLES
    direct,         \* whether the ports are DirectPorts
    port,           \* per end: listeners, pendingMessages, messages on the way to it
    channel,        \* per end: the requests made and pendingPromises
    handling,       \* requests in a handler: [end, call, id], end being the handler's
    handled,        \* per end and call: the ids handed to the handler, in order
    settled,        \* per end: id -> what its promise got
    open            \* the ports that are not closed

channelVars == <<direct, port, channel, handling, handled, settled, open>>

\* Messages: [event, id, answer]; the event of a response is its responseId,
\* made of the method and a number.
ResponseId(call, n) == <<call, n>>
Request(call, n) == [event |-> call, id |-> ResponseId(call, n), answer |-> <<>>]
Response(id) == [event |-> id, id |-> id, answer |-> id]

\* pendingMessages: what waits for each event; nothing, for those without an entry.
NothingPending == [v \in Method \cup (Method \X (1..MaxSent)) |-> <<>>]

ChannelInit ==
    /\ direct \in BOOLEAN
    /\ port = [e \in End |-> [listeners |-> {}, pending |-> NothingPending, wire |-> <<>>]]
    /\ channel = [e \in End |-> [next |-> 0, pendingPromises |-> {}, attached |-> {}, calls |-> <<>>]]
    /\ handling = {}
    /\ handled = [e \in End |-> [c \in Method |-> <<>>]]
    /\ settled = [e \in End |-> <<>>]
    /\ open = End

Here == [port |-> port, channel |-> channel, handling |-> handling, handled |-> handled, settled |-> settled]
Leave(s) ==
    /\ port' = s.port /\ channel' = s.channel /\ handling' = s.handling
    /\ handled' = s.handled /\ settled' = s.settled
    /\ UNCHANGED direct

\* A request starts its handler; a response settles its promise, and its
\* listener is gone.
Trigger(s, e, m) ==
    IF m.event \in Method
    THEN [s EXCEPT !.handling = @ \cup {[end |-> e, call |-> m.event, id |-> m.id]},
                   !.handled[e][m.event] = Append(@, m.id)]
    ELSE [s EXCEPT !.channel[e].pendingPromises = @ \ {m.event},
                   !.settled[e] = [i \in DOMAIN @ \cup {m.event} |-> IF i = m.event THEN m.answer ELSE @[i]],
                   !.port[e].listeners = @ \ {m.event}]

\* queuePending, or emit.
Receive(s, e, m) ==
    IF m.event \in s.port[e].listeners THEN Trigger(s, e, m)
    ELSE [s EXCEPT !.port[e].pending[m.event] = Append(@, m)]

\* A closed ThreadPort drops what is posted to it.
PostMessage(s, to, m) ==
    IF direct THEN Receive(s, to, m)
    ELSE IF open = End THEN [s EXCEPT !.port[to].wire = Append(@, m)]
    ELSE s

\* _createSender: listen once to the response, then post.
Send(e, call) ==
    LET n == channel[e].next + 1
        id == ResponseId(call, n)
        asking == [channel[e] EXCEPT !.next = n, !.pendingPromises = @ \cup {id}, !.calls = Append(@, <<id, open = End>>)]
        s == [Here EXCEPT !.channel[e] = asking, !.port[e].listeners = @ \cup {id}]
    IN
    /\ n <= MaxSent
    /\ Leave(PostMessage(s, Other(e), Request(call, n)))
    /\ UNCHANGED open

\* flushPending: all that waits for the event is handed to its new listener.
FlushNothing(s, e, call) == s
FlushPending(s, e, call) ==
    LET waiting == s.port[e].pending[call] IN
    [s EXCEPT !.port[e].pending[call] = <<>>,
              !.handling = @ \cup {[end |-> e, call |-> call, id |-> waiting[i].id] : i \in DOMAIN waiting},
              !.handled[e][call] = @ \o [i \in DOMAIN waiting |-> waiting[i].id]]

\* _createRequestHandler, once: listen, then flushPending.
SetOn(e, call) ==
    /\ call \notin channel[e].attached
    /\ Leave(FlushPending([Here EXCEPT !.port[e].listeners = @ \cup {call}, !.channel[e].attached = @ \cup {call}], e, call))
    /\ UNCHANGED open

\* The handler is done and its answer posted; one that throws answers nothing.
PostResponse(h) ==
    /\ h \in handling
    /\ Leave(PostMessage([Here EXCEPT !.handling = @ \ {h}], Other(h.end), Response(h.id)))
    /\ UNCHANGED open
HandlerThrows(h) ==
    /\ h \in handling
    /\ handling' = handling \ {h}
    /\ UNCHANGED <<direct, port, channel, handled, settled, open>>

\* The thread of the port takes the next message.
Deliver(e) ==
    /\ port[e].wire # <<>> /\ e \in open
    /\ Leave(Receive([Here EXCEPT !.port[e].wire = Tail(@)], e, Head(port[e].wire)))
    /\ UNCHANGED open

\* closeState: "error" rejects what the end waits for, then all is forgotten.
CloseState(s, e) ==
    [s EXCEPT !.settled[e] = [i \in DOMAIN @ \cup s.channel[e].pendingPromises |->
                                IF i \in s.channel[e].pendingPromises THEN "rejected" ELSE @[i]],
              !.channel[e].pendingPromises = {},
              !.port[e] = [listeners |-> {}, pending |-> NothingPending, wire |-> <<>>]]
CloseOneState(s, e) == CloseState(s, e)
CloseBothStates(s, e) == CloseState(CloseState(s, e), Other(e))

\* DirectPort.close ends both ends at once.  ThreadPort.close clears what waits
\* and closes the message port: the other end learns of it, or still reads what
\* was on the way to it.  No promise hears of it: a MessagePort has no "error".
ClosePort(e) ==
    /\ e \in open
    /\ IF direct THEN Leave(CloseBothStates(Here, e)) /\ open' = {}
       ELSE /\ \E kept \in 0..Len(port[Other(e)].wire) :
                port' = [port EXCEPT ![e].pending = NothingPending, ![e].wire = <<>>,
                                     ![Other(e)].wire = SubSeq(@, 1, kept)]
            /\ open' = open \ {e}
            /\ UNCHANGED <<direct, channel, handling, handled, settled>>

ChannelNext ==
    \/ \E e \in End, call \in Method : Send(e, call) \/ SetOn(e, call)
    \/ \E h \in handling : PostResponse(h) \/ HandlerThrows(h)
    \/ \E e \in End : Deliver(e) \/ ClosePort(e)

ChannelSpec == ChannelInit /\ [][ChannelNext]_channelVars

(***************************************************************************)
(* A promise gets a rejection or the answer to its own request, which was  *)
(* handled.  Requests reach their handler once and in the order they were  *)
(* made, and none is left out while the ports are open, whether they came  *)
(* before the handler or not.  When direct ports are closed nobody is left *)
(* waiting for an answer to a request made before.                         *)
(***************************************************************************)
Made(e, call) == {id \in {channel[e].calls[i][1] : i \in DOMAIN channel[e].calls} : id[1] = call}
Handled(e, call) == {handled[e][call][i] : i \in DOMAIN handled[e][call]}

\* What waits for the handler of a call, and what is still on the way to it.
IdsIn(messages, call) == {messages[i].id : i \in {j \in DOMAIN messages : messages[j].event = call}}
Pending(e, call) == IdsIn(port[e].pending[call], call)
Coming(e, call) == IdsIn(port[e].wire, call)

Before(ids, later) == \A x \in ids, y \in later : x[2] < y[2]
InSequence(messages, call) ==
    \A i, j \in DOMAIN messages :
        i < j /\ messages[i].event = call /\ messages[j].event = call => messages[i].id[2] < messages[j].id[2]

OwnAnswers ==
    \A e \in End : \A id \in DOMAIN settled[e] :
        \/ settled[e][id] = "rejected"
        \/ settled[e][id] = id /\ id \in Handled(Other(e), id[1])

OneLine ==
    \A e \in End, call \in Method :
        /\ \A i, j \in DOMAIN handled[e][call] : i < j => handled[e][call][i][2] < handled[e][call][j][2]
        /\ InSequence(port[e].pending[call], call) /\ InSequence(port[e].wire, call)
        /\ Before(Handled(e, call), Pending(e, call) \cup Coming(e, call))
        /\ Before(Pending(e, call), Coming(e, call))
        /\ open = End => Made(Other(e), call) = Handled(e, call) \cup Pending(e, call) \cup Coming(e, call)
        /\ call \in port[e].listeners => port[e].pending[call] = <<>>

NobodyWaits ==
    direct /\ open = {} =>
        \A e \in End : \A i \in DOMAIN channel[e].calls :
            channel[e].calls[i][2] => channel[e].calls[i][1] \in DOMAIN settled[e]

RequestsAreServed == OwnAnswers /\ OneLine /\ NobodyWaits
=============================================================================
