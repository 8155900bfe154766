------------------------------ MODULE SmProvider ------------------------------
(***************************************************************************)
(* getRawProvider of packages/smoldot_provider: connections over one chain *)
(* that is still being added when they are opened.  A connection buffers   *)
(* messages until the chain resolves, sends them on, runs a read loop over *)
(* nextJsonRpcResponse, and closes the chain when it is disconnected.      *)
(* The chain is the RawJsonRpcChain the provider needs: one stream, pulls  *)
(* that fail once it is closed, and a bound on requests that wait in it.   *)
(***************************************************************************)
EXTENDS Naturals, SequencesExt

CONSTANTS
    Connections,
    Messages,
    MaxPending,    \* max_pending_requests of the chain
    MaxBuffered,   \* bound on the messages a connection sends before the chain resolves
    MaxNotices     \* the chain notifies until it made so many messages

ASSUME BoundsAssumption ==
    MaxPending \in Nat /\ MaxBuffered \in Nat /\ MaxNotices \in Nat

VARIABLES
    chain,      \* the FutureOr: "pending", "resolved", "failed", or a chain that was "given"
    connection, \* "unopened", "waiting" for the chain, or "ready" with _chain set
    stopped,    \* connections with _stopped
    buffered,   \* _buffered of each
    loop,       \* its read loop: "none", "pulling", "pulled" or "ended"
    inHand,     \* what its pull was completed with, before the loop goes on
    asked,      \* the messages it was given while it was not stopped
    accepted,   \* those the chain took from it
    heard,      \* what it passed to its onMessage
    disconnected, \* connections on which disconnect was called
    threw,      \* connections whose _onReady ended in an exception
    closings,   \* calls of the chain's close
    waiting,    \* requests that wait in the chain
    made,       \* the number of responses and notifications the chain made
    stream      \* those that were not pulled yet

appVars   == <<asked, heard, disconnected>>
chainVars == <<closings, waiting, made, stream>>
vars == <<chain, connection, stopped, buffered, loop, inHand, accepted, threw, appVars, chainVars>>

Failure == 0   \* a pull that failed; a response is its number, from 1 on

TypeOK ==
    /\ chain \in {"pending", "resolved", "failed", "given"}
    /\ connection \in [Connections -> {"unopened", "waiting", "ready"}]
    /\ stopped \subseteq Connections /\ disconnected \subseteq stopped
    /\ threw \subseteq Connections
    /\ loop \in [Connections -> {"none", "pulling", "pulled", "ended"}]
    /\ buffered \in [Connections -> Seq(Messages)]
    /\ asked \in [Connections -> Seq(Messages)] /\ accepted \in [Connections -> Seq(Messages)]
    /\ heard \in [Connections -> Seq(Nat)] /\ inHand \in [Connections -> Nat]
    /\ closings \in Nat /\ made \in Nat
    /\ waiting \in Seq(Messages) /\ Len(waiting) <= MaxPending
    /\ stream \in Seq(Nat)
    /\ \A k \in Connections :
           /\ buffered[k] # <<>> => connection[k] = "waiting" \/ k \in threw
           /\ loop[k] # "none" => connection[k] = "ready"

Init ==
    /\ chain \in {"pending", "given"}
    /\ connection = [k \in Connections |-> "unopened"]
    /\ stopped = {} /\ disconnected = {} /\ threw = {}
    /\ buffered = [k \in Connections |-> <<>>]
    /\ loop = [k \in Connections |-> "none"]
    /\ inHand = [k \in Connections |-> Failure]
    /\ asked = [k \in Connections |-> <<>>]
    /\ accepted = [k \in Connections |-> <<>>]
    /\ heard = [k \in Connections |-> <<>>]
    /\ closings = 0 /\ made = 0
    /\ waiting = <<>> /\ stream = <<>>

Closed == closings > 0

-----------------------------------------------------------------------------
(* close of the chain: pulls that wait fail, the stream ends.              *)
CloseChain ==
    /\ closings' = closings + 1
    /\ loop' = [k \in Connections |-> IF loop[k] = "pulling" THEN "pulled" ELSE loop[k]]
    /\ inHand' = [k \in Connections |-> IF loop[k] = "pulling" THEN Failure ELSE inHand[k]]
    /\ waiting' = <<>> /\ stream' = <<>>
    /\ UNCHANGED made

(* The loop's call of nextJsonRpcResponse; of a closed chain it throws.    *)
NextPull == IF Closed THEN "ended" ELSE "pulling"

(* How many more messages the chain takes before sendJsonRpc throws.       *)
Room == IF Closed THEN 0 ELSE MaxPending - Len(waiting)

(* Variants of _onReady: it keeps the buffer, or reads only if something   *)
(* was sent.                                                               *)
KeepsBuffer(k) == buffered
StartsIfAsked(k) == buffered[k] # <<>>

ClearsBuffer(k) == [buffered EXCEPT ![k] = <<>>]
StartsReading(k) == TRUE

(* The messages that _onReady sends before it has to throw.                *)
Taken(k) ==
    SubSeq(buffered[k], 1, IF Room < Len(buffered[k]) THEN Room ELSE Len(buffered[k]))

(* _onReady of a connection that is not stopped.                           *)
Attach(k) ==
    LET taken == Taken(k)
    IN  /\ connection' = [connection EXCEPT ![k] = "ready"]
        /\ accepted' = [accepted EXCEPT ![k] = @ \o taken]
        /\ waiting' = waiting \o taken
        /\ IF taken = buffered[k]
           THEN /\ buffered' = ClearsBuffer(k)
                /\ loop' = [loop EXCEPT ![k] = IF StartsReading(k) THEN NextPull ELSE @]
                /\ UNCHANGED threw
           ELSE /\ threw' = threw \cup {k}
                /\ UNCHANGED <<buffered, loop>>
        /\ UNCHANGED <<chain, stopped, inHand, appVars, closings, made, stream>>

Unopened(k) == connection[k] = "unopened"

(* A connection over a Chain is ready in its constructor, one over a       *)
(* Future<Chain> waits.                                                    *)
OpenGiven(k) ==
    /\ Unopened(k)
    /\ chain = "given"
    /\ Attach(k)

OpenFuture(k) ==
    /\ Unopened(k)
    /\ chain # "given"
    /\ connection' = [connection EXCEPT ![k] = "waiting"]
    /\ UNCHANGED <<chain, stopped, buffered, loop, inHand, accepted, threw, appVars, chainVars>>

(* addChain ends.                                                          *)
Resolve(how) ==
    /\ chain = "pending"
    /\ chain' = how
    /\ UNCHANGED <<connection, stopped, buffered, loop, inHand, accepted, threw, appVars,
                   chainVars>>

(* Variant: _onReady does not ask whether it comes too late.               *)
ReadyUnchecked(k) ==
    /\ chain = "resolved"
    /\ connection[k] = "waiting"
    /\ Attach(k)

ReadyInTime(k) ==
    /\ chain = "resolved"
    /\ connection[k] = "waiting"
    /\ k \notin stopped
    /\ Attach(k)

(* Variant: a chain that comes too late is left alone.                     *)
ReadyTooLateKept(k) ==
    /\ chain = "resolved"
    /\ connection[k] = "waiting"
    /\ k \in stopped
    /\ connection' = [connection EXCEPT ![k] = "ready"]
    /\ UNCHANGED <<chain, stopped, buffered, loop, inHand, accepted, threw, appVars, chainVars>>

ReadyTooLate(k) ==
    /\ chain = "resolved"
    /\ connection[k] = "waiting"
    /\ k \in stopped
    /\ connection' = [connection EXCEPT ![k] = "ready"]
    /\ CloseChain
    /\ UNCHANGED <<chain, stopped, buffered, accepted, threw, appVars>>

NeverReady(k) ==
    /\ chain = "failed"
    /\ connection[k] = "waiting"
    /\ k \notin stopped
    /\ stopped' = stopped \cup {k}
    /\ UNCHANGED <<chain, connection, buffered, loop, inHand, accepted, threw, appVars, chainVars>>

-----------------------------------------------------------------------------
(* send, when it does not throw.                                           *)
Send(k, m) ==
    /\ ~Unopened(k)
    /\ k \notin stopped
    /\ \A j \in Connections : ~Contains(asked[j], m)
    /\ asked' = [asked EXCEPT ![k] = Append(@, m)]
    /\ \/ /\ connection[k] = "ready"
          /\ Room > 0
          /\ accepted' = [accepted EXCEPT ![k] = Append(@, m)]
          /\ waiting' = Append(waiting, m)
          /\ UNCHANGED buffered
       \/ /\ connection[k] = "waiting"
          /\ Len(buffered[k]) < MaxBuffered
          /\ buffered' = [buffered EXCEPT ![k] = Append(@, m)]
          /\ UNCHANGED <<accepted, waiting>>
    /\ UNCHANGED <<chain, connection, stopped, loop, inHand, threw, heard, disconnected, closings,
                   made, stream>>

(* Variant: a second disconnect closes the chain again.                    *)
DisconnectAgain(k) ==
    /\ ~Unopened(k)
    /\ closings < 2
    /\ stopped' = stopped \cup {k}
    /\ disconnected' = disconnected \cup {k}
    /\ buffered' = [buffered EXCEPT ![k] = <<>>]
    /\ IF connection[k] = "ready" THEN CloseChain ELSE UNCHANGED <<loop, inHand, chainVars>>
    /\ UNCHANGED <<chain, connection, accepted, threw, asked, heard>>

Disconnect(k) ==
    /\ ~Unopened(k)
    /\ k \notin stopped
    /\ stopped' = stopped \cup {k}
    /\ disconnected' = disconnected \cup {k}
    /\ buffered' = [buffered EXCEPT ![k] = <<>>]
    /\ IF connection[k] = "ready" THEN CloseChain ELSE UNCHANGED <<loop, inHand, chainVars>>
    /\ UNCHANGED <<chain, connection, accepted, threw, asked, heard>>

(* Variant: the loop does not look at _stopped after its await.            *)
ReadOnUnchecked(k) ==
    /\ loop[k] = "pulled"
    /\ IF inHand[k] = Failure
       THEN loop' = [loop EXCEPT ![k] = "ended"] /\ UNCHANGED heard
       ELSE /\ heard' = [heard EXCEPT ![k] = Append(@, inHand[k])]
            /\ loop' = [loop EXCEPT ![k] = NextPull]
    /\ UNCHANGED <<chain, connection, stopped, buffered, inHand, accepted, threw, asked,
                   disconnected, chainVars>>

(* Variant: when a pull fails, the loop passes on what it still has from   *)
(* the one before.                                                         *)
ReadOnStale(k) ==
    LET failed == inHand[k] = Failure
    IN  /\ loop[k] = "pulled"
        /\ IF k \in stopped \/ (failed /\ heard[k] = <<>>)
           THEN loop' = [loop EXCEPT ![k] = "ended"] /\ UNCHANGED heard
           ELSE /\ heard' = [heard EXCEPT ![k] =
                                 Append(@, IF failed THEN Last(@) ELSE inHand[k])]
                /\ loop' = [loop EXCEPT ![k] = NextPull]
        /\ UNCHANGED <<chain, connection, stopped, buffered, inHand, accepted, threw, asked,
                       disconnected, chainVars>>

(* The read loop after its await, up to the next one.                      *)
ReadOn(k) ==
    /\ loop[k] = "pulled"
    /\ IF inHand[k] = Failure \/ k \in stopped
       THEN loop' = [loop EXCEPT ![k] = "ended"] /\ UNCHANGED heard
       ELSE /\ heard' = [heard EXCEPT ![k] = Append(@, inHand[k])]
            /\ loop' = [loop EXCEPT ![k] = NextPull]
    /\ UNCHANGED <<chain, connection, stopped, buffered, inHand, accepted, threw, asked,
                   disconnected, chainVars>>

-----------------------------------------------------------------------------
(* The chain answers its requests in order, notifies as it likes, and      *)
(* completes one pull at a time.                                           *)
Answer ==
    /\ waiting # <<>>
    /\ waiting' = Tail(waiting)
    /\ made' = made + 1
    /\ stream' = Append(stream, made')
    /\ UNCHANGED <<chain, connection, stopped, buffered, loop, inHand, accepted, threw, appVars,
                   closings>>

Notify ==
    /\ accepted # [k \in Connections |-> <<>>]
    /\ ~Closed
    /\ made < MaxNotices
    /\ made' = made + 1
    /\ stream' = Append(stream, made')
    /\ UNCHANGED <<chain, connection, stopped, buffered, loop, inHand, accepted, threw, appVars,
                   closings, waiting>>

Give(k) ==
    /\ loop[k] = "pulling"
    /\ stream # <<>>
    /\ loop' = [loop EXCEPT ![k] = "pulled"]
    /\ inHand' = [inHand EXCEPT ![k] = Head(stream)]
    /\ stream' = Tail(stream)
    /\ UNCHANGED <<chain, connection, stopped, buffered, accepted, threw, appVars, closings,
                   waiting, made>>

-----------------------------------------------------------------------------
Next ==
    \/ \E how \in {"resolved", "failed"} : Resolve(how)
    \/ \E k \in Connections :
           \/ OpenGiven(k) \/ OpenFuture(k)
           \/ ReadyInTime(k) \/ ReadyTooLate(k) \/ NeverReady(k)
           \/ \E m \in Messages : Send(k, m)
           \/ Disconnect(k) \/ ReadOn(k) \/ Give(k)
    \/ Answer \/ Notify

(* The event loop runs every callback, and the chain answers its pulls.    *)
Fairness ==
    /\ \A k \in Connections : WF_vars(ReadyInTime(k) \/ ReadyTooLate(k) \/ NeverReady(k))
    /\ \A k \in Connections : WF_vars(ReadOn(k)) /\ WF_vars(Give(k))

Spec == Init /\ [][Next]_vars /\ Fairness

-----------------------------------------------------------------------------
(* "Messages sent before the chain resolves are buffered": what a          *)
(* connection was given reaches the chain once and in order, whether it    *)
(* came before, while or after the chain resolved.                         *)
SentInOrder ==
    \A k \in Connections \ (stopped \cup threw) : asked[k] = accepted[k] \o buffered[k]

(* A response that is on its way when disconnect is called is not passed   *)
(* to onMessage any more.                                                  *)
SilentOnceStopped ==
    [][\A k \in Connections : heard'[k] # heard[k] => k \notin stopped]_vars

(* No connection closes the chain twice, not even when the chain resolves  *)
(* after the disconnect.                                                   *)
ClosedOnceEach == closings <= Cardinality(disconnected)

(* A connection hears the chain's messages in their order, and two that    *)
(* share a chain never hear the same one, whichever read loop gets it.     *)
HeardOnce ==
    /\ \A k \in Connections : \A i, j \in DOMAIN heard[k] : i < j => heard[k][i] < heard[k][j]
    /\ \A k, l \in Connections : k # l =>
           \A i \in DOMAIN heard[k], j \in DOMAIN heard[l] : heard[k][i] # heard[l][j]

(* "disconnect() removes the chain from its smoldot client": a chain that  *)
(* resolves after the disconnect is not left running.                      *)
DisconnectReleases ==
    \A k \in Connections :
        (k \in disconnected /\ chain \in {"resolved", "given"}) ~> Closed

(* Every response arrives on an onMessage while a connection is attached   *)
(* and none was disconnected.                                              *)
EveryMessageHeard ==
    \A n \in 1..(MaxNotices + Cardinality(Messages)) :
        made >= n ~> (Closed \/ \E k \in Connections : Contains(heard[k], n))
-----------------------------------------------------------------------------
(* What holds the properties up.  The chain is closed once for each        *)
(* connection that was disconnected and has had the chain; one that was    *)
(* stopped before it is still to close it, unless the chain failed.        *)
ClosingsInv ==
    /\ IsFiniteSet(disconnected)
    /\ closings = Cardinality({k \in disconnected : connection[k] = "ready"})
    /\ \A k \in stopped :
           /\ connection[k] # "unopened"
           /\ connection[k] = "waiting" => chain = "failed" \/ k \in disconnected
    /\ \A k \in disconnected : buffered[k] = <<>>

(* A message that left the stream is before all that are still in it.      *)
Passed(n) == n \in 1..made /\ \A j \in DOMAIN stream : n < stream[j]

InHand(k) == loop[k] = "pulled" /\ inHand[k] # Failure

StreamInv ==
    /\ \A i \in DOMAIN stream : stream[i] \in 1..made
    /\ \A i, j \in DOMAIN stream : i < j => stream[i] < stream[j]
    /\ \A k \in Connections : \A i \in DOMAIN heard[k] : Passed(heard[k][i])
    /\ \A k \in Connections : InHand(k) =>
           /\ Passed(inHand[k])
           /\ \A i \in DOMAIN heard[k] : heard[k][i] < inHand[k]
           /\ \A l \in Connections \ {k} :
                  /\ InHand(l) => inHand[l] # inHand[k]
                  /\ \A i \in DOMAIN heard[l] : heard[l][i] # inHand[k]

(* Until the chain is closed, no message it made is lost: each is in the   *)
(* stream, in the hand of a read loop or heard, and every connection that  *)
(* has the chain reads it and was not stopped, unless its _onReady threw.  *)
Kept(n) ==
    \/ \E i \in DOMAIN stream : stream[i] = n
    \/ \E k \in Connections : \/ InHand(k) /\ inHand[k] = n
                              \/ \E i \in DOMAIN heard[k] : heard[k][i] = n

Reads(k) == k \notin stopped /\ (k \in threw \/ loop[k] = "pulling" \/ InHand(k))

NothingLost ==
    ~Closed =>
        /\ \A n \in 1..made : Kept(n)
        /\ \A k \in Connections : connection[k] = "ready" => Reads(k)

Inv == TypeOK /\ SentInOrder /\ ClosingsInv /\ StreamInv /\ HeardOnce /\ NothingLost
=============================================================================
