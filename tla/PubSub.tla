------------------------------- MODULE PubSub -------------------------------
(***************************************************************************)
(* One signal of one publisher (qmi/core/pubsub.py, SignalManager): the    *)
(* subscription protocol between the publisher's context and a subscriber  *)
(* context that is its peer, the publisher's removal, and the delivery of  *)
(* published signals to receivers in both contexts.                        *)
(*                                                                         *)
(* Each context has a socket thread (qmi/core/messaging.py) that sends     *)
(* what other threads posted to it and handles what arrives.  Connections  *)
(* are numbered; a connection may be lost at any time and be made again.   *)
(* The publisher knows each connection by an alias of its own ($client_n). *)
(***************************************************************************)
EXTENDS Integers, Sequences

CONSTANTS Receiver,       \* receivers in the subscriber context, a thread each
          LocalReceiver,  \* receivers in the publisher's context, a thread each
          MaxPeers,       \* bound: connections made
          MaxCalls,       \* bound: calls of subscribe and unsubscribe
          MaxMakes,       \* bound: times the publisher is made
          MaxSignals      \* bound: signals published

ASSUME BoundAssumption ==
  MaxPeers \in Nat /\ MaxCalls \in Nat /\ MaxMakes \in Nat /\ MaxSignals \in Nat

Peer == 1 .. MaxPeers
NoPeer == 0

VARIABLES
  (* subscriber context: SignalManager *)
  subs,        \* _local_subscriptions
  pending,     \* the _PendingSubscriptionRequest of the signal, if there is one
  requests,    \* number of subscription requests created, used as request_id
  thread,      \* thread[r]: progress of the call of r's thread
  (* subscriber context: socket thread *)
  link,        \* connection to the publisher's context
  closing,     \* the connection is removed but not yet closed
  toSend,      \* requests posted to the event loop
  unanswered,  \* _PeerTcpConnection._pending_requests
  (* TCP *)
  up,          \* up[e]: requests sent on connection e
  down,        \* messages sent to the subscriber on connection link
  (* publisher's context *)
  exists,      \* the publisher is in the context's map of RPC objects
  remover,     \* progress of remove_rpc_object
  notify,      \* subscribers still to be told of the removal
  remoteSubs,  \* _remote_subscriptions
  localSubs,   \* _local_subscriptions, for receivers in this context
  local,       \* local[l]: progress of the call of l's thread
  peers,       \* connections the socket thread has
  posted,      \* messages posted to the event loop
  handling,    \* the subscription request in the hands of the socket thread
  publishing,  \* a signal and the remote subscribers it still has to be sent to
  (* bounds *)
  calls, made, published, lastPeer,
  (* history *)
  lastSeen,    \* lastSeen[r]: last signal received in this subscription
  overtaken    \* requests that were granted after the removal of their publisher

subVars  == <<subs, pending, requests, thread>>
wireVars == <<toSend, unanswered, up, down>>
linkVars == <<link, closing, lastPeer>>
objVars  == <<exists, remover, notify, made>>
pubVars  == <<remoteSubs, localSubs, local>>
sockVars == <<peers, posted, handling>>
sigVars  == <<publishing, published>>
vars == <<subVars, wireVars, linkVars, objVars, pubVars, sockVars, sigVars, calls,
          lastSeen, overtaken>>

NoRequest == [id |-> 0, subscribe |-> FALSE, receivers |-> {}]
NotHandling == [step |-> "none", peer |-> NoPeer, id |-> 0, ok |-> FALSE]
NotPublishing == [signal |-> 0, to |-> {}]

Signal(n)     == [kind |-> "signal", n |-> n, ok |-> TRUE]
Reply(id, ok) == [kind |-> "reply", n |-> id, ok |-> ok]
Removed       == [kind |-> "removed", n |-> 0, ok |-> TRUE]

Init ==
  /\ subs = {}
  /\ pending = NoRequest
  /\ requests = 0
  /\ thread = [r \in Receiver |-> "idle"]
  /\ link = NoPeer
  /\ closing = FALSE
  /\ toSend = <<>>
  /\ unanswered = {}
  /\ up = [e \in Peer |-> <<>>]
  /\ down = <<>>
  /\ exists = FALSE
  /\ remover = "idle"
  /\ notify = {}
  /\ remoteSubs = {}
  /\ localSubs = {}
  /\ local = [l \in LocalReceiver |-> "idle"]
  /\ peers = {}
  /\ posted = <<>>
  /\ handling = NotHandling
  /\ publishing = NotPublishing
  /\ calls = 0 /\ made = 0 /\ published = 0 /\ lastPeer = NoPeer
  /\ lastSeen = [r \in Receiver |-> 0]
  /\ overtaken = {}

-----------------------------------------------------------------------------
(* Subscriber context *)

CallOf(r) ==
  /\ thread[r] = "idle"
  /\ calls < MaxCalls
  /\ calls' = calls + 1

\* A new request enters both tables of pending requests.  (A call that changes
\* nothing, for a receiver that already is or is not subscribed, is left out.)
NewRequest(subscribe, receivers) ==
  /\ requests' = requests + 1
  /\ pending' = [id |-> requests + 1, subscribe |-> subscribe, receivers |-> receivers]

Others == <<wireVars, linkVars, objVars, pubVars, sockVars, sigVars, overtaken>>

\* _subscribe_remote: the receiver joins the subscribers, or the request that
\* is pending, whatever its kind, or makes a request.
JoinSubscribers(r) ==
  /\ CallOf(r)
  /\ subs # {} /\ r \notin subs
  /\ subs' = subs \cup {r}
  /\ lastSeen' = [lastSeen EXCEPT ![r] = 0]
  /\ UNCHANGED <<pending, requests, thread, Others>>

JoinRequest(r) ==
  /\ CallOf(r)
  /\ subs = {}
  /\ pending # NoRequest
  /\ pending' = [pending EXCEPT !.receivers = @ \cup {r}]
  /\ thread' = [thread EXCEPT ![r] = "wait"]
  /\ UNCHANGED <<subs, requests, lastSeen, Others>>

MakeRequest(r) ==
  /\ CallOf(r)
  /\ subs = {}
  /\ pending = NoRequest
  /\ NewRequest(TRUE, {r})
  /\ thread' = [thread EXCEPT ![r] = "send"]
  /\ UNCHANGED <<subs, lastSeen, Others>>

\* Mutant of Unsubscribe: the publisher is told by each receiver that leaves.
Unsubscribe_Each(r) ==
  /\ CallOf(r)
  /\ r \in subs
  /\ subs' = subs \ {r}
  /\ IF pending = NoRequest
     THEN NewRequest(FALSE, {}) /\ thread' = [thread EXCEPT ![r] = "send"]
     ELSE UNCHANGED <<pending, requests, thread>>
  /\ UNCHANGED <<lastSeen, Others>>

\* _unsubscribe_remote: the last subscriber tells the publisher, unless a
\* request is pending.
Unsubscribe(r) ==
  /\ CallOf(r)
  /\ r \in subs
  /\ subs' = subs \ {r}
  /\ IF subs = {r} /\ pending = NoRequest
     THEN NewRequest(FALSE, {}) /\ thread' = [thread EXCEPT ![r] = "send"]
     ELSE UNCHANGED <<pending, requests, thread>>
  /\ UNCHANGED <<lastSeen, Others>>

\* The threads that waited for the pending request return.
Served == [r \in Receiver |-> IF r \in pending.receivers THEN "idle" ELSE thread[r]]

\* Mutant of Resolve: who joined an unsubscribe request is forgotten.
Resolve_ForgetsWaiters(ok, queue) ==
  /\ pending' = NoRequest
  /\ subs' = IF pending.subscribe /\ ok THEN subs \cup pending.receivers ELSE subs
  /\ lastSeen' = [r \in Receiver |-> IF r \in subs' \ subs THEN 0 ELSE lastSeen[r]]
  /\ thread' = IF pending.subscribe THEN Served ELSE thread
  /\ toSend' = queue
  /\ UNCHANGED requests

\* _handle_subscription_reply, with the posted requests that remain.  Receivers
\* that joined an unsubscribe request are subscribed by a new request; without
\* a connection that one fails at once.
Resolve(ok, queue) ==
  LET again == ~pending.subscribe /\ pending.receivers # {}
  IN  /\ subs' = IF pending.subscribe /\ ok THEN subs \cup pending.receivers ELSE subs
      /\ lastSeen' = [r \in Receiver |-> IF r \in subs' \ subs THEN 0 ELSE lastSeen[r]]
      /\ IF again
         THEN requests' = requests + 1
         ELSE UNCHANGED requests
      /\ IF again /\ link # NoPeer
         THEN /\ pending' = [pending EXCEPT !.id = requests', !.subscribe = TRUE]
              /\ toSend' = Append(queue, [id |-> requests', subscribe |-> TRUE])
              /\ UNCHANGED thread
         ELSE /\ pending' = NoRequest
              /\ toSend' = queue
              /\ thread' = Served

\* The reply to a request that is not in the table raises KeyError.
Answer(id, ok, queue) ==
  IF pending.id = id THEN Resolve(ok, queue)
  ELSE toSend' = queue /\ UNCHANGED <<subVars, lastSeen>>

\* _send_subscription_request, by the thread that made the request: it is
\* posted to the socket thread, or fails without a connection.
SendRequest(r) ==
  /\ thread[r] = "send"
  /\ link # NoPeer
  /\ toSend' = Append(toSend, [id |-> pending.id, subscribe |-> pending.subscribe])
  /\ thread' = [thread EXCEPT ![r] = IF r \in pending.receivers THEN "wait" ELSE "idle"]
  /\ UNCHANGED <<subs, pending, requests, unanswered, up, down, linkVars, objVars, pubVars,
                 sockVars, sigVars, calls, lastSeen, overtaken>>

CannotSend(r) ==
  /\ thread[r] = "send"
  /\ link = NoPeer
  /\ thread' = [thread EXCEPT ![r] = "fail"]
  /\ UNCHANGED <<subs, pending, requests, calls, lastSeen, Others>>

\* The failure is handled like an error reply, by the same thread; for
\* receivers that joined an unsubscribe request it sends a new request.
GiveUp(r) ==
  /\ thread[r] = "fail"
  /\ IF ~pending.subscribe /\ pending.receivers # {}
     THEN NewRequest(TRUE, pending.receivers) /\ thread' = [thread EXCEPT ![r] = "send"]
     ELSE /\ pending' = NoRequest
          /\ thread' = [Served EXCEPT ![r] = "idle"]
          /\ UNCHANGED requests
  /\ UNCHANGED <<subs, calls, lastSeen, Others>>

-----------------------------------------------------------------------------
(* Subscriber context, socket thread *)

Transmit ==
  /\ ~closing
  /\ toSend # <<>>
  /\ link \in peers
  /\ up' = [up EXCEPT ![link] = Append(@, Head(toSend))]
  /\ unanswered' = unanswered \cup {Head(toSend).id}
  /\ toSend' = Tail(toSend)
  /\ UNCHANGED <<subVars, down, linkVars, objVars, pubVars, sockVars, sigVars, calls,
                 lastSeen, overtaken>>

\* The other side has closed, and this side has not noticed: data is lost.
TransmitLost ==
  /\ ~closing
  /\ toSend # <<>>
  /\ link # NoPeer /\ link \notin peers
  /\ unanswered' = unanswered \cup {Head(toSend).id}
  /\ toSend' = Tail(toSend)
  /\ UNCHANGED <<subVars, up, down, linkVars, objVars, pubVars, sockVars, sigVars, calls,
                 lastSeen, overtaken>>

\* No connection, or sendall() raises: an error reply is generated.
TransmitFails ==
  /\ ~closing
  /\ toSend # <<>>
  /\ link \notin peers
  /\ Answer(Head(toSend).id, FALSE, Tail(toSend))
  /\ UNCHANGED <<unanswered, up, down, linkVars, objVars, pubVars, sockVars, sigVars, calls,
                 overtaken>>

ReceiveSignal ==
  /\ link # NoPeer
  /\ down # <<>>
  /\ Head(down).kind = "signal"
  /\ down' = Tail(down)
  /\ lastSeen' = [r \in Receiver |-> IF r \in subs THEN Head(down).n ELSE lastSeen[r]]
  /\ UNCHANGED <<subVars, toSend, unanswered, up, linkVars, objVars, pubVars, sockVars,
                 sigVars, calls, overtaken>>

ReceiveReply ==
  /\ link # NoPeer
  /\ down # <<>>
  /\ Head(down).kind = "reply"
  /\ down' = Tail(down)
  /\ unanswered' = unanswered \ {Head(down).n}
  /\ Answer(Head(down).n, Head(down).ok, toSend)
  /\ UNCHANGED <<up, linkVars, objVars, pubVars, sockVars, sigVars, calls, overtaken>>

\* _handle_remote_signal_removed
ReceiveRemoved ==
  /\ link # NoPeer
  /\ down # <<>>
  /\ Head(down).kind = "removed"
  /\ down' = Tail(down)
  /\ subs' = {}
  /\ UNCHANGED <<pending, requests, thread, toSend, unanswered, up, linkVars, objVars, pubVars,
                 sockVars, sigVars, calls, lastSeen, overtaken>>

\* remove_peer_connection and handle_peer_context_removed: the connection was
\* closed by the peer, broke, or is to be closed by disconnect_from_peer().
LoseLink ==
  /\ link # NoPeer
  /\ link' = NoPeer
  /\ closing' = TRUE
  /\ down' = <<>>
  /\ subs' = {}
  /\ UNCHANGED <<pending, requests, thread, toSend, unanswered, up, lastPeer, objVars, pubVars,
                 sockVars, sigVars, calls, lastSeen, overtaken>>

\* Mutant of CloseLink: the table of pending requests is not cleared.
CloseLink_KeepsRequests ==
  /\ closing
  /\ closing' = FALSE
  /\ IF unanswered = {} THEN UNCHANGED <<subVars, toSend, lastSeen>>
     ELSE \E id \in unanswered : Answer(id, FALSE, toSend)
  /\ UNCHANGED <<unanswered, up, down, link, lastPeer, objVars, pubVars, sockVars, sigVars,
                 calls, overtaken>>

\* _PeerTcpConnection.close: error replies for the unanswered requests, of
\* which there is one at most (AnswersAreExpected).
CloseLink ==
  /\ closing
  /\ closing' = FALSE
  /\ IF unanswered = {} THEN UNCHANGED <<subVars, toSend, lastSeen>>
     ELSE \E id \in unanswered : Answer(id, FALSE, toSend)
  /\ unanswered' = {}
  /\ UNCHANGED <<up, down, link, lastPeer, objVars, pubVars, sockVars, sigVars, calls, overtaken>>

\* connect_to_peer, and the other side accepts the connection.
Connect ==
  /\ link = NoPeer
  /\ ~closing
  /\ lastPeer < MaxPeers
  /\ lastPeer' = lastPeer + 1
  /\ link' = lastPeer'
  /\ peers' = peers \cup {lastPeer'}
  /\ UNCHANGED <<subVars, wireVars, closing, objVars, pubVars, posted, handling, sigVars, calls,
                 lastSeen, overtaken>>

-----------------------------------------------------------------------------
(* Publisher's context, socket thread *)

Free == handling.step = "none"

Untouched == <<subVars, toSend, unanswered, down, linkVars, sigVars, calls, lastSeen>>

\* Mutant of Post: what is posted last is sent first.
Post_Reversed(e, m) == posted' = <<[to |-> e, msg |-> m]>> \o posted

\* MessageRouter.send_message to a peer that is connected: the message is
\* posted to the event loop.
Post(e, m) == posted' = Append(posted, [to |-> e, msg |-> m])

\* _SocketManager.send_message: to a connection that is gone nothing is sent,
\* and what is sent on a connection the subscriber has left is lost.
DeliverPosted ==
  /\ Free
  /\ posted # <<>>
  /\ posted' = Tail(posted)
  /\ down' = IF Head(posted).to = link /\ link \in peers THEN Append(down, Head(posted).msg)
             ELSE down
  /\ UNCHANGED <<subVars, toSend, unanswered, up, linkVars, objVars, pubVars, peers, handling,
                 sigVars, calls, lastSeen, overtaken>>

\* _handle_subscription_request, in steps that let the publisher's removal in
\* between.  An unsubscribe request always succeeds.
ReceiveUnsubscribe(e) ==
  /\ Free
  /\ e \in peers
  /\ up[e] # <<>> /\ ~Head(up[e]).subscribe
  /\ up' = [up EXCEPT ![e] = Tail(@)]
  /\ remoteSubs' = remoteSubs \ {e}
  /\ handling' = [step |-> "reply", peer |-> e, id |-> Head(up[e]).id, ok |-> TRUE]
  /\ UNCHANGED <<Untouched, objVars, localSubs, local, peers, posted, overtaken>>

ReceiveSubscribe(e) ==
  /\ Free
  /\ e \in peers
  /\ up[e] # <<>> /\ Head(up[e]).subscribe
  /\ up' = [up EXCEPT ![e] = Tail(@)]
  /\ handling' = [step |-> IF exists THEN "add" ELSE "reply",
                  peer |-> e, id |-> Head(up[e]).id, ok |-> FALSE]
  /\ UNCHANGED <<Untouched, objVars, pubVars, peers, posted, overtaken>>

Add ==
  /\ handling.step = "add"
  /\ remoteSubs' = remoteSubs \cup {handling.peer}
  /\ handling' = [handling EXCEPT !.step = "recheck"]
  /\ UNCHANGED <<Untouched, up, objVars, localSubs, local, peers, posted, overtaken>>

\* Mutant of Recheck: a publisher that was there is taken to be there still.
Recheck_Trusts ==
  /\ handling.step = "recheck"
  /\ handling' = [handling EXCEPT !.step = "reply", !.ok = TRUE]
  /\ UNCHANGED <<Untouched, up, objVars, pubVars, peers, posted, overtaken>>

Recheck ==
  /\ handling.step = "recheck"
  /\ handling' = IF exists THEN [handling EXCEPT !.step = "reply", !.ok = TRUE]
                 ELSE [handling EXCEPT !.step = "undo"]
  /\ UNCHANGED <<Untouched, up, objVars, pubVars, peers, posted, overtaken>>

Undo ==
  /\ handling.step = "undo"
  /\ remoteSubs' = remoteSubs \ {handling.peer}
  /\ handling' = [handling EXCEPT !.step = "reply"]
  /\ UNCHANGED <<Untouched, up, objVars, localSubs, local, peers, posted, overtaken>>

SendReply ==
  /\ handling.step = "reply"
  /\ Post(handling.peer, Reply(handling.id, handling.ok))
  /\ handling' = NotHandling
  /\ UNCHANGED <<Untouched, up, objVars, pubVars, peers, overtaken>>

\* remove_peer_connection in the publisher's context.
LosePeer(e) ==
  /\ Free
  /\ e \in peers
  /\ peers' = peers \ {e}
  /\ remoteSubs' = remoteSubs \ {e}
  /\ up' = [up EXCEPT ![e] = <<>>]
  /\ UNCHANGED <<Untouched, objVars, localSubs, local, posted, handling, overtaken>>

-----------------------------------------------------------------------------
(* Publisher's context, other threads *)

Elsewhere == <<Untouched, up, peers, handling>>

MakeObject ==
  /\ ~exists /\ remover = "idle"
  /\ made < MaxMakes
  /\ made' = made + 1
  /\ exists' = TRUE
  /\ UNCHANGED <<Elsewhere, posted, remover, notify, pubVars, overtaken>>

\* remove_rpc_object up to handle_object_removed.
RemoveObject ==
  /\ exists
  /\ exists' = FALSE
  /\ remover' = "drop"
  /\ UNCHANGED <<Elsewhere, posted, notify, made, pubVars, overtaken>>

\* handle_object_removed, under the lock.  A request whose positive reply is
\* not yet posted is overtaken by the notice of the removal.
DropSubscribers ==
  /\ remover = "drop"
  /\ notify' = remoteSubs
  /\ remoteSubs' = {}
  /\ localSubs' = {}
  /\ remover' = "notify"
  /\ overtaken' = IF handling.peer \in remoteSubs THEN overtaken \cup {handling.id}
                  ELSE overtaken
  /\ UNCHANGED <<Elsewhere, posted, exists, made, local>>

NotifyRemoved(e) ==
  /\ e \in notify
  /\ notify' = notify \ {e}
  /\ IF e \in peers THEN Post(e, Removed) ELSE UNCHANGED posted
  /\ UNCHANGED <<Elsewhere, exists, remover, made, pubVars, overtaken>>

\* The name is released, and an object of that name may be made again.
ReleaseName ==
  /\ remover = "notify"
  /\ notify = {}
  /\ remover' = "idle"
  /\ UNCHANGED <<Elsewhere, posted, exists, notify, made, pubVars, overtaken>>

\* publish_signal: the remote subscribers are copied under the lock, and the
\* signal is posted to each without it.  The thread of the publisher goes on
\* until its removal is complete.
Publish ==
  /\ exists \/ remover # "idle"
  /\ publishing.to = {}
  /\ published < MaxSignals
  /\ published' = published + 1
  /\ publishing' = [signal |-> published + 1, to |-> remoteSubs]
  /\ UNCHANGED <<subVars, wireVars, linkVars, objVars, pubVars, sockVars, calls, lastSeen,
                 overtaken>>

PublishTo(e) ==
  /\ e \in publishing.to
  /\ publishing' = [publishing EXCEPT !.to = @ \ {e}]
  /\ IF e \in peers THEN Post(e, Signal(publishing.signal)) ELSE UNCHANGED posted
  /\ UNCHANGED <<subVars, wireVars, linkVars, objVars, pubVars, peers, handling, published,
                 calls, lastSeen, overtaken>>

\* _subscribe_local checks the publisher, adds the receiver, checks again.
LocalStep(l, from, to) ==
  /\ local[l] = from
  /\ local' = [local EXCEPT ![l] = to]
  /\ UNCHANGED <<subVars, wireVars, linkVars, objVars, remoteSubs, sockVars, sigVars, lastSeen,
                 overtaken>>

LocalCheck(l) ==
  /\ calls < MaxCalls
  /\ exists
  /\ LocalStep(l, "idle", "add")
  /\ calls' = calls + 1
  /\ UNCHANGED localSubs

LocalAdd(l) ==
  /\ LocalStep(l, "add", "recheck")
  /\ localSubs' = localSubs \cup {l}
  /\ UNCHANGED calls

LocalRecheck(l) ==
  /\ LocalStep(l, "recheck", IF exists THEN "idle" ELSE "undo")
  /\ UNCHANGED <<calls, localSubs>>

LocalUndo(l) ==
  /\ LocalStep(l, "undo", "idle")
  /\ localSubs' = localSubs \ {l}
  /\ UNCHANGED calls

LocalUnsubscribe(l) ==
  /\ calls < MaxCalls
  /\ l \in localSubs
  /\ LocalStep(l, "idle", "idle")
  /\ calls' = calls + 1
  /\ localSubs' = localSubs \ {l}

-----------------------------------------------------------------------------
Caller(r) == SendRequest(r) \/ CannotSend(r) \/ GiveUp(r)
TransmitAny == Transmit \/ TransmitLost \/ TransmitFails
ReceiveAny == ReceiveSignal \/ ReceiveReply \/ ReceiveRemoved
Handle == Add \/ Recheck \/ Undo \/ SendReply

Next ==
  \/ \E r \in Receiver : \/ JoinSubscribers(r) \/ JoinRequest(r) \/ MakeRequest(r)
                         \/ Unsubscribe(r) \/ Caller(r)
  \/ TransmitAny \/ ReceiveAny \/ LoseLink \/ CloseLink \/ Connect
  \/ DeliverPosted \/ Handle
  \/ \E e \in Peer : \/ ReceiveSubscribe(e) \/ ReceiveUnsubscribe(e) \/ LosePeer(e)
                     \/ NotifyRemoved(e) \/ PublishTo(e)
  \/ MakeObject \/ RemoveObject \/ DropSubscribers \/ ReleaseName \/ Publish
  \/ \E l \in LocalReceiver : \/ LocalCheck(l) \/ LocalAdd(l) \/ LocalRecheck(l)
                              \/ LocalUndo(l) \/ LocalUnsubscribe(l)

Spec == Init /\ [][Next]_vars

\* The threads that have something to do go on, a socket that was closed by the
\* other side is found out, and nothing else has to happen: neither calls, nor
\* a connection, nor the end of a connection.
Fairness ==
  /\ \A r \in Receiver : WF_vars(Caller(r))
  /\ WF_vars(TransmitAny) /\ WF_vars(ReceiveAny) /\ WF_vars(CloseLink)
  /\ WF_vars(link \notin peers /\ down = <<>> /\ LoseLink)
  /\ WF_vars(DeliverPosted) /\ WF_vars(Handle)
  /\ \A e \in Peer : WF_vars(ReceiveSubscribe(e) \/ ReceiveUnsubscribe(e))

FairSpec == Spec /\ Fairness

-----------------------------------------------------------------------------
Request == [id : Nat, subscribe : BOOLEAN]
Message == [kind : {"signal", "reply"}, n : Nat, ok : BOOLEAN] \cup {Removed}

\* The state of both signal managers and of what is between them has its type.
TypeOK ==
  /\ subs \in SUBSET Receiver
  /\ pending \in [id : Nat, subscribe : BOOLEAN, receivers : SUBSET Receiver]
  /\ requests \in Nat
  /\ thread \in [Receiver -> {"idle", "send", "fail", "wait"}]
  /\ link \in {NoPeer} \cup Peer
  /\ closing \in BOOLEAN
  /\ toSend \in Seq(Request)
  /\ unanswered \in SUBSET Nat
  /\ up \in [Peer -> Seq(Request)]
  /\ down \in Seq(Message)
  /\ exists \in BOOLEAN
  /\ remover \in {"idle", "drop", "notify"}
  /\ notify \in SUBSET Peer
  /\ remoteSubs \in SUBSET Peer
  /\ localSubs \in SUBSET LocalReceiver
  /\ local \in [LocalReceiver -> {"idle", "add", "recheck", "undo"}]
  /\ peers \in SUBSET Peer
  /\ posted \in Seq([to : Peer, msg : Message])
  /\ handling \in [step : {"none", "add", "recheck", "undo", "reply"}, peer : {NoPeer} \cup Peer,
                   id : Nat, ok : BOOLEAN]
  /\ publishing \in [signal : Nat, to : SUBSET Peer]
  /\ calls \in 0 .. MaxCalls
  /\ made \in 0 .. MaxMakes
  /\ published \in 0 .. MaxSignals
  /\ lastPeer \in 0 .. MaxPeers
  /\ lastSeen \in [Receiver -> Nat]
  /\ overtaken \in SUBSET Nat

ToLink(m) == \E i \in DOMAIN posted : posted[i] = [to |-> link, msg |-> m]
OnLink(m) == \E i \in DOMAIN down : down[i] = m
RemovedIsComing == link \in notify \/ ToLink(Removed) \/ OnLink(Removed)

\* Every request that is posted, unanswered on the connection or answered is the
\* one that is pending, and there is one of them: each answer, real or made up
\* for a lost connection, finds its entry in the table (pop() in
\* _handle_subscription_reply raises no KeyError), and none comes twice.
AnswersAreExpected ==
  /\ \A i \in DOMAIN toSend : toSend[i].id = pending.id /\ unanswered = {}
  /\ Len(toSend) <= 1
  /\ unanswered \subseteq {pending.id}
  /\ link # NoPeer => \A i \in DOMAIN down : down[i].kind = "reply" => down[i].n \in unanswered

\* What subscribe_signal promises with "blocks until the subscription is
\* established": while there are subscribers and the connection is up at both
\* ends, the publisher's context sends them its signals or tells them that the
\* publisher is gone.
SubscribersAreKnown ==
  subs # {} /\ link \in peers => link \in remoteSubs \/ RemovedIsComing

\* That holds for all subscriptions but those whose positive reply was posted
\* after the notice that their publisher was removed.
SubscriptionsAgree == requests \notin overtaken => SubscribersAreKnown

\* Nothing is left in a table for ever: the publisher's context has no
\* subscribers on connections that are gone, none at all for a publisher that is
\* gone and was dropped, and does not send signals to a context in which nobody
\* is subscribed or about to be.
NoStaleSubscription ==
  /\ remoteSubs \subseteq peers
  /\ remoteSubs # {} => \/ exists \/ remover = "drop" \/ handling.step \in {"recheck", "undo"}
  /\ localSubs # {} => \/ exists \/ remover = "drop"
                       \/ \E l \in LocalReceiver : local[l] \in {"recheck", "undo"}
  /\ link \in remoteSubs => subs # {} \/ pending # NoRequest

\* As long as a receiver stays subscribed it misses no signal and gets none
\* twice or out of order, whoever else comes and goes.
NoGap ==
  [][ReceiveSignal =>
       \A r \in subs : lastSeen[r] # 0 => lastSeen'[r] = lastSeen[r] + 1]_vars

\* A call of subscribe_signal or unsubscribe_signal returns: a receiver whose
\* thread waits for an answer gets one, through lost connections, a removed
\* publisher, and requests it joined.
SubscribeReturns ==
  \A r \in Receiver : thread[r] # "idle" ~> thread[r] = "idle"

=============================================================================
