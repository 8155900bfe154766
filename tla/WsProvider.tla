------------------------------ MODULE WsProvider ------------------------------
(***************************************************************************)
(* WsProvider of packages/polkadart: JSON-RPC over one WebSocket, with the *)
(* map of pending queries and the map of subscription controllers, between *)
(* an application and a node.  The connection is web_socket_client's       *)
(* WebSocket, which reconnects by itself; it and the node are external,    *)
(* modelled from how the provider uses them.                               *)
(*                                                                         *)
(* Dart runs one step of the isolate at a time: an action is the code      *)
(* between two awaits that wait for something outside the isolate, or for  *)
(* a continuation that other events can precede.                           *)
(***************************************************************************)
EXTENDS Naturals, SequencesExt

CONSTANTS
    Queries,       \* calls of send by the application
    Subscribes,    \* calls of subscribe by the application
    MaxDrops,      \* bound on the losses of the connection
    MaxConnects,   \* bound on the calls of connect
    MaxNotices,    \* bound on the notifications of one subscription
    LeavesPending  \* TRUE: the application may disconnect while queries are
                   \* pending; FALSE: it waits for their answers first

Requests == Queries \cup Subscribes

ASSUME RequestsAssumption == Queries \cap Subscribes = {}
ASSUME BoundsAssumption ==
    /\ MaxDrops \in Nat /\ MaxConnects \in Nat /\ MaxNotices \in Nat
    /\ LeavesPending \in BOOLEAN

VARIABLES
    socket,         \* the WebSocket: "null", "connecting", "open" or "lost"
    sequence,       \* _sequence
    queries,        \* the map queries, in insertion order: [id, request]
    subscriptions,  \* the map subscriptions, in insertion order: [id, closed]
    future,         \* how far the future of each request is
    answer,         \* the execution whose answer that future got
    stream,         \* what the application does with each subscription
    up, down,       \* what is on its way to the node and from the node
    live,           \* the subscriptions the node serves
    executed,       \* how often the node executed each request
    notices,        \* how often it notified of each subscription
    drops, connects

appVars    == <<future, answer, stream>>
mapVars    == <<queries, subscriptions, sequence>>
nodeVars   == <<live, executed, notices>>
boundVars  == <<drops, connects>>
vars == <<socket, mapVars, appVars, up, down, nodeVars, boundVars>>

-----------------------------------------------------------------------------
(* The node gives every execution of a subscription an id of its own.      *)
Subscriptions == [request : Subscribes, run : 1..(MaxDrops + 1)]

NoAnswer == [request |-> "none", run |-> 0]

Entries == [id : Nat, request : Requests]

Controllers == [id : Subscriptions, closed : BOOLEAN]

Answers == [kind : {"answer"}, id : Nat, request : Requests, ok : BOOLEAN, run : 1..(MaxDrops + 1)]

Notices == [kind : {"notice"}, subscription : Subscriptions]

Pending(r) == future[r] \in {"waiting", "sent"}

TypeOK ==
    /\ socket \in {"null", "connecting", "open", "lost"}
    /\ sequence \in Nat
    /\ queries \in Seq(Entries)
    /\ subscriptions \in Seq(Controllers)
    /\ future \in [Requests -> {"idle", "waiting", "sent", "answered", "done", "failed"}]
    /\ answer \in [Requests -> [request : Requests, run : 1..(MaxDrops + 1)] \cup {NoAnswer}]
    /\ stream \in [Subscriptions -> {"none", "returned", "listening", "cancelled", "done"}]
    /\ up \in Seq(Entries)
    /\ down \in Seq(Answers \cup Notices)
    /\ live \subseteq Subscriptions
    /\ executed \in [Requests -> Nat] /\ notices \in [Subscriptions -> Nat]
    /\ drops \in 0..MaxDrops /\ connects \in 0..MaxConnects

Init ==
    /\ socket = "null"
    /\ sequence = 0
    /\ queries = <<>>
    /\ subscriptions = <<>>
    /\ future = [r \in Requests |-> "idle"]
    /\ answer = [r \in Requests |-> NoAnswer]
    /\ stream = [s \in Subscriptions |-> "none"]
    /\ up = <<>> /\ down = <<>>
    /\ live = {}
    /\ executed = [r \in Requests |-> 0]
    /\ notices = [s \in Subscriptions |-> 0]
    /\ drops = 0 /\ connects = 0

-----------------------------------------------------------------------------
(* Maps in insertion order, as Dart's are: to put an existing key keeps    *)
(* its place.                                                              *)

PutQuery(id, r) ==
    LET entry == [id |-> id, request |-> r]
    IN  IF \E i \in DOMAIN queries : queries[i].id = id
        THEN [i \in DOMAIN queries |-> IF queries[i].id = id THEN entry ELSE queries[i]]
        ELSE Append(queries, entry)

(* Variant: the completed query stays in the map.                          *)
KeepQuery(id) == queries

RemoveEntry(map, id) ==
    IF \E i \in DOMAIN map : map[i].id = id
    THEN RemoveAt(map, CHOOSE i \in DOMAIN map : map[i].id = id)
    ELSE map

RemoveQuery(id) == RemoveEntry(queries, id)

RemoveSubscription(s) == RemoveEntry(subscriptions, s)

Registered(s) == \E i \in DOMAIN subscriptions : subscriptions[i].id = s

-----------------------------------------------------------------------------
(* connect, up to its await of isReady.                                    *)
Connect ==
    /\ connects < MaxConnects
    /\ socket = "null"
    /\ socket' = "connecting"
    /\ sequence' = 0
    /\ connects' = connects + 1
    /\ UNCHANGED <<queries, subscriptions, appVars, up, down, nodeVars,
                   drops>>

(* The connection is made for the first time.                              *)
Connected ==
    /\ socket = "connecting"
    /\ socket' = "open"
    /\ UNCHANGED <<mapVars, appVars, up, down, nodeVars, boundVars>>

(* The connection is lost, with everything on its way; the node forgets    *)
(* the subscriptions it served over it.                                    *)
Drop ==
    /\ drops < MaxDrops
    /\ socket = "open"
    /\ socket' = "lost"
    /\ drops' = drops + 1
    /\ up' = <<>> /\ down' = <<>>
    /\ live' = {}
    /\ UNCHANGED <<mapVars, appVars, executed, notices, connects>>

(* Variants: nothing is sent again, or everything twice.                   *)
ReconnectedOnly ==
    /\ socket = "lost"
    /\ socket' = "open"
    /\ UNCHANGED <<mapVars, appVars, up, down, nodeVars, boundVars>>

ReconnectedTwice ==
    /\ socket = "lost"
    /\ socket' = "open"
    /\ up' = up \o queries \o queries
    /\ UNCHANGED <<mapVars, appVars, down, nodeVars, boundVars>>

(* The state Reconnected: every query without an answer is sent again.     *)
Reconnected ==
    /\ socket = "lost"
    /\ socket' = "open"
    /\ up' = up \o queries
    /\ UNCHANGED <<mapVars, appVars, down, nodeVars, boundVars>>

(* The first step of send: it throws at once on a closed channel.          *)
Send(r) ==
    /\ future[r] = "idle"
    /\ future' = [future EXCEPT ![r] = IF socket = "null" THEN "failed" ELSE "waiting"]
    /\ UNCHANGED <<socket, mapVars, answer, stream, up, down, nodeVars,
                   boundVars>>

(* Variant: the sequence does not advance.                                 *)
TransmitSameId(r) ==
    /\ future[r] = "waiting"
    /\ socket = "open"
    /\ queries' = PutQuery(sequence, r)
    /\ up' = Append(up, [id |-> sequence, request |-> r])
    /\ future' = [future EXCEPT ![r] = "sent"]
    /\ UNCHANGED <<socket, sequence, subscriptions, answer, stream, down,
                   nodeVars, boundVars>>

(* isReady is over: the rest of send.                                      *)
Transmit(r) ==
    /\ future[r] = "waiting"
    /\ socket = "open"
    /\ sequence' = sequence + 1
    /\ queries' = PutQuery(sequence, r)
    /\ up' = Append(up, [id |-> sequence, request |-> r])
    /\ future' = [future EXCEPT ![r] = "sent"]
    /\ UNCHANGED <<socket, subscriptions, answer, stream, down, nodeVars,
                   boundVars>>

-----------------------------------------------------------------------------
(* The node: it answers in the order of the messages, and may refuse a     *)
(* subscription.                                                           *)
Execute ==
    /\ up # <<>>
    /\ LET m == Head(up)
           run == executed[m.request] + 1
       IN  /\ executed' = [executed EXCEPT ![m.request] = @ + 1]
           /\ \E ok \in IF m.request \in Subscribes THEN BOOLEAN ELSE {TRUE} :
                  /\ down' = Append(down, [kind |-> "answer", id |-> m.id,
                                           request |-> m.request, ok |-> ok, run |-> run])
                  /\ live' = IF m.request \in Subscribes /\ ok
                             THEN live \cup {[request |-> m.request, run |-> run]}
                             ELSE live
    /\ up' = Tail(up)
    /\ UNCHANGED <<socket, mapVars, appVars, notices, boundVars>>

Notify(s) ==
    /\ s \in live
    /\ notices[s] < MaxNotices
    /\ notices' = [notices EXCEPT ![s] = @ + 1]
    /\ down' = Append(down, [kind |-> "notice", subscription |-> s])
    /\ UNCHANGED <<socket, mapVars, appVars, up, live, executed, boundVars>>

-----------------------------------------------------------------------------
(* The listener of commands: queries.remove(id)!.completer.complete.       *)
DeliverAnswer ==
    /\ down # <<>>
    /\ Head(down).kind = "answer"
    /\ LET m == Head(down)
           waiting == {queries[i].request : i \in {j \in DOMAIN queries : queries[j].id = m.id}}
       IN  /\ queries' = RemoveQuery(m.id)
           /\ future' = [r \in Requests |->
                  IF r \notin waiting THEN future[r]
                  ELSE IF r \in Queries THEN "done"
                  ELSE IF m.ok THEN "answered" ELSE "failed"]
           /\ answer' = [r \in Requests |->
                  IF r \in waiting THEN [request |-> m.request, run |-> m.run] ELSE answer[r]]
           /\ down' = Tail(down)
    /\ UNCHANGED <<socket, sequence, subscriptions, stream, up, nodeVars, boundVars>>

(* The listener of subscriptions: controller?.add.  Without a controller,  *)
(* or without a listener of it, nobody gets the notification; a controller *)
(* that was closed throws, in the listener, where nobody catches it.       *)
DeliverNotice ==
    /\ down # <<>>
    /\ Head(down).kind = "notice"
    /\ down' = Tail(down)
    /\ UNCHANGED <<socket, mapVars, appVars, up, nodeVars, boundVars>>

(* The continuation of subscribe: getOrCreateSubscriptionController, to    *)
(* which onCancel is not handed on.  A microtask: it comes after messages  *)
(* that arrived together with the answer.  A result that is no             *)
(* subscription id fails the cast to String.                               *)
Return(r) ==
    LET s == answer[r]
    IN  /\ future[r] = "answered"
        /\ future' = [future EXCEPT ![r] = IF s.request \in Subscribes THEN "done" ELSE "failed"]
        /\ subscriptions' =
               IF s.request \in Subscribes /\ ~Registered(s)
               THEN Append(subscriptions, [id |-> s, closed |-> FALSE])
               ELSE subscriptions
        /\ stream' = [t \in Subscriptions |->
               IF t = s /\ stream[t] = "none" THEN "returned" ELSE stream[t]]
        /\ UNCHANGED <<socket, sequence, queries, answer, up, down, nodeVars,
                       boundVars>>

(* The application listens; on a closed controller it is told so at once.  *)
Listen(s) ==
    /\ stream[s] = "returned"
    /\ stream' = [stream EXCEPT ![s] =
           IF \E i \in DOMAIN subscriptions :
                  subscriptions[i].id = s /\ ~subscriptions[i].closed
           THEN "listening" ELSE "done"]
    /\ UNCHANGED <<socket, mapVars, future, answer, up, down, nodeVars,
                   boundVars>>

(* The last listener cancels: the controller's onCancel.                   *)
Cancel(s) ==
    /\ stream[s] = "listening"
    /\ stream' = [stream EXCEPT ![s] = "cancelled"]
    /\ subscriptions' = RemoveSubscription(s)
    /\ UNCHANGED <<socket, sequence, queries, future, answer, up, down, nodeVars,
                   boundVars>>

-----------------------------------------------------------------------------
(* disconnect closes one controller after the other.  Closing one that has *)
(* a listener runs its onCancel, which changes the map that the loop goes  *)
(* through: the loop throws, before the socket is closed.                  *)
Listened == {i \in DOMAIN subscriptions : stream[subscriptions[i].id] = "listening"}

ClosedUpTo(first) ==
    [i \in 1..(first - 1) |-> [subscriptions[i] EXCEPT !.closed = TRUE]]
        \o SubSeq(subscriptions, first + 1, Len(subscriptions))

MayDisconnect ==
    /\ socket # "null"
    /\ LeavesPending \/ \A r \in Requests : ~Pending(r)

(* Variant: the map is cleared before its controllers are closed.          *)
DisconnectClearsFirst ==
    /\ MayDisconnect
    /\ subscriptions' = <<>>
    /\ socket' = "null"
    /\ up' = <<>> /\ down' = <<>>
    /\ live' = {}
    /\ future' = [r \in Requests |-> IF future[r] = "waiting" THEN "failed" ELSE future[r]]
    /\ UNCHANGED <<queries, sequence, stream, answer, executed, notices, boundVars>>

DisconnectCloses ==
    /\ MayDisconnect
    /\ Listened = {}
    /\ subscriptions' = <<>>
    /\ socket' = "null"
    /\ up' = <<>> /\ down' = <<>>
    /\ live' = {}
    /\ stream' = [s \in Subscriptions |->
           IF stream[s] = "returned" THEN "done" ELSE stream[s]]
    /\ future' = [r \in Requests |-> IF future[r] = "waiting" THEN "failed" ELSE future[r]]
    /\ UNCHANGED <<queries, sequence, answer, executed, notices, boundVars>>

DisconnectThrows ==
    /\ MayDisconnect
    /\ \E first \in Listened :
           /\ \A i \in Listened : first <= i
           /\ subscriptions' = ClosedUpTo(first)
           /\ stream' = [stream EXCEPT ![subscriptions[first].id] = "done"]
    /\ UNCHANGED <<socket, queries, sequence, future, answer, up, down, nodeVars,
                   boundVars>>

-----------------------------------------------------------------------------
Next ==
    \/ Connect \/ Connected \/ Drop \/ Reconnected
    \/ \E r \in Requests : Send(r) \/ Transmit(r) \/ Return(r)
    \/ Execute
    \/ \E s \in Subscriptions : Notify(s) \/ Listen(s) \/ Cancel(s)
    \/ DeliverAnswer \/ DeliverNotice
    \/ DisconnectCloses \/ DisconnectThrows

(* web_socket_client goes on reconnecting, the node answers, and the event *)
(* loop runs every continuation.  The application owes nothing.            *)
Fairness ==
    /\ WF_vars(Connected) /\ WF_vars(Reconnected)
    /\ \A r \in Requests : WF_vars(Transmit(r)) /\ WF_vars(Return(r))
    /\ WF_vars(Execute)
    /\ WF_vars(DeliverAnswer) /\ WF_vars(DeliverNotice)

Spec == Init /\ [][Next]_vars /\ Fairness

-----------------------------------------------------------------------------
(* Whatever is lost and sent again, every answer on its way meets the      *)
(* pending query it was sent for, so that queries.remove(id)! finds it.    *)
AnswersExpected ==
    \A i \in DOMAIN down : down[i].kind = "answer" =>
        \E j \in DOMAIN queries : /\ queries[j].id = down[i].id
                                 /\ queries[j].request = down[i].request

(* A stream the application listens to has an open controller under its    *)
(* id: no disconnect that failed half way, cancellation or reconnection    *)
(* takes it away without the listener being told.                          *)
ListenedIsRegistered ==
    \A s \in Subscriptions : stream[s] = "listening" =>
        \E i \in DOMAIN subscriptions : subscriptions[i].id = s /\ ~subscriptions[i].closed

(* "The completer that will resolve the query" (queries): a call of send   *)
(* or subscribe comes to its end, however often the connection is lost.    *)
Settles(r) == Pending(r) \/ future[r] = "answered" ~> future[r] \in {"done", "failed"}
EveryRequestSettles == \A r \in Requests : Settles(r)

(* "Maps the query id to the completer that will resolve the query", with  *)
(* ids that are unique: a future gets the answer to its own request.       *)
AnswersAreOwn == \A r \in Requests : answer[r] # NoAnswer => answer[r].request = r

(* Sending again after a reconnection executes a request again, but never  *)
(* one whose answer the application has, nor more often than the           *)
(* connection was lost; and the answer it gets is that of an execution of  *)
(* its own request: WsProvider implements RequestPromise.                  *)
CallOf ==
    [r \in Requests |-> IF answer[r] # NoAnswer THEN "settled"
                        ELSE IF Pending(r) THEN "pending" ELSE future[r]]
ResultOf == [r \in Requests |-> answer[r].run]

Promise == INSTANCE RequestPromise
               WITH call <- CallOf, runs <- executed, result <- ResultOf, losses <- drops
KeepsPromise == Promise!Spec
-----------------------------------------------------------------------------
(* What holds the properties up.                                           *)

(* A query has an id and a request of its own, whose future waits for the  *)
(* answer.                                                                 *)
QueriesInv ==
    /\ \A i, j \in DOMAIN queries :
           queries[i].id = queries[j].id \/ queries[i].request = queries[j].request => i = j
    /\ \A i \in DOMAIN queries : future[queries[i].request] = "sent"
    /\ \A r \in Requests : future[r] = "answered" => answer[r].run # 0

Sending(r) == \E i \in DOMAIN up : up[i].request = r

(* One connection carries a request once.                                  *)
TrafficInv ==
    /\ socket # "open" => up = <<>> /\ down = <<>> /\ live = {}
    /\ \A i \in DOMAIN up :
           /\ future[up[i].request] \notin {"idle", "waiting"}
           /\ \A j \in DOMAIN up : up[j].request = up[i].request => j = i
    /\ \A r \in Requests :
           /\ executed[r] <= drops + 1
           /\ future[r] \in {"idle", "waiting"} \/ socket = "lost" \/ Sending(r)
                  => executed[r] <= drops

(* Nothing is executed before it is sent, and an answer is that of an      *)
(* execution there was.                                                    *)
RunsInv ==
    /\ \A r \in Requests :
           /\ future[r] \in {"idle", "waiting"} => executed[r] = 0
           /\ future[r] \in {"idle", "waiting", "sent"} => answer[r] = NoAnswer
    /\ \A i \in DOMAIN down : down[i].kind = "answer" => down[i].run <= executed[down[i].request]

(* The application waits for its answers before it disconnects, or it      *)
(* connects only once.                                                     *)
Patient == ~LeavesPending \/ MaxConnects <= 1

(* What holds for such an application: no query is left from an earlier    *)
(* connection when it connects; ids are new, and what is on its way        *)
(* belongs to a query of the map.                                          *)
UnconnectedInv ==
    /\ connects = 0 => socket = "null"
    /\ connects = 0 \/ socket = "connecting" \/ (socket = "null" /\ ~LeavesPending)
           => queries = <<>>

PatientInv ==
    /\ \A i \in DOMAIN queries : queries[i].id < sequence
    /\ \A i \in DOMAIN up : \E j \in DOMAIN queries : queries[j] = up[i]
    /\ \A i \in DOMAIN down : down[i].kind = "answer" =>
           /\ \A j \in DOMAIN down : down[j].kind = "answer" /\ down[j].id = down[i].id => j = i
           /\ \A j \in DOMAIN up : up[j].id # down[i].id
    /\ AnswersExpected

(* A query travels over an open connection, or its answer does.            *)
Travels(q) ==
    \/ \E i \in DOMAIN up : up[i] = q
    \/ \E i \in DOMAIN down : down[i].kind = "answer" /\ down[i].id = q.id

(* No call is forgotten: one that waits for the connection can still have  *)
(* it, and one that was sent is in the map, so that it is sent again, and  *)
(* while the connection is open it or its answer is on its way.            *)
NoneForgotten ==
    \A r \in Requests :
        /\ future[r] = "waiting" => socket # "null"
        /\ future[r] = "sent" =>
               /\ socket # "null" \/ LeavesPending
               /\ \E i \in DOMAIN queries : /\ queries[i].request = r
                                            /\ socket = "open" => Travels(queries[i])

Inv ==
    /\ TypeOK /\ QueriesInv /\ TrafficInv /\ RunsInv
    /\ Patient => UnconnectedInv /\ PatientInv /\ AnswersAreOwn /\ NoneForgotten
    /\ ListenedIsRegistered
=============================================================================
