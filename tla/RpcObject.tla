------------------------------ MODULE RpcObject ------------------------------
(***************************************************************************)
(* One RPC object of a QMI context (qmi/core/rpc.py): the proxies that     *)
(* call it, the futures of their calls, the RpcObjectManager that queues   *)
(* the requests, the _RpcThread that serves them and holds the lock, and   *)
(* the context thread that makes and removes the object.                   *)
(*                                                                         *)
(* Every proxy is used by a single client thread.  A proxy in Remote       *)
(* reaches the object through a peer connection that may be lost.          *)
(***************************************************************************)
EXTENDS Integers, Sequences, Functions

CONSTANTS Proxy,        \* QMI_RpcProxy instances for the object
          Remote,       \* proxies that live in a peer context
          MaxCalls,     \* bound: number of calls made in a behaviour
          MaxFree,      \* bound: the calls after these only retry a denied lock
          Use,          \* bound: operations the clients use
          Removable,    \* bound: whether the context may remove the object
          CustomToken,  \* tokens chosen by the user (lock_token = "...")
          NoToken,      \* Python's None where a token is expected
          Denied,       \* token __ACCESS_DENIED__ in a lock reply
          Locked        \* token __OBJECT_LOCKED__ in a query reply

Call == 1 .. MaxCalls
NoCall == 0

\* make_unique_token(): a lock() without custom token gets a token of its own,
\* here the number of the first call that carries it.
Token == Call \cup CustomToken

ASSUME RemoteAssumption == Remote \subseteq Proxy
ASSUME MaxCallsAssumption == MaxCalls \in Nat
ASSUME TokenAssumption ==
  /\ CustomToken \cap Call = {}
  /\ NoToken \notin Token \cup {Denied, Locked}
  /\ {Denied, Locked} \cap Token = {}
  /\ Denied # Locked

Op == {"METHOD", "ACQUIRE", "RELEASE", "FORCE_RELEASE", "QUERY"}

ASSUME UseAssumption == Use \subseteq Op
ASSUME RemovableAssumption == Removable \in BOOLEAN

\* QMI_RpcFutureState, and "UNUSED" for a call that was not made yet.
FutureState == {"UNUSED", "NO_RESULT_YET", "RESULT_IS_VALUE",
                "RESULT_IS_EXCEPTION", "OBJECT_IS_LOCKED"}

Reply == [state : FutureState \ {"UNUSED"}, token : Token \cup {NoToken, Denied, Locked}]

NoReply == [state |-> "NO_RESULT_YET", token |-> NoToken]
ErrorReply == [state |-> "RESULT_IS_EXCEPTION", token |-> NoToken]
ValueReply(t) == [state |-> "RESULT_IS_VALUE", token |-> t]

NoRequest == [proxy |-> NoCall, op |-> "METHOD", token |-> NoToken]

VARIABLES
  (* calls *)
  request,      \* request[r]: proxy, operation and lock token of call r
  future,       \* future[r]: state and result of the QMI_RpcFuture of r
  registered,   \* calls whose future is registered as a message handler
  (* proxies *)
  outbox,       \* outbox[p]: calls sent by p, not yet handed to the manager
  located,      \* proxies for whose first message the handler was looked up
  waiting,      \* waiting[p]: call whose future.wait() blocks the client of p
  ownToken,     \* ownToken[p]: QMI_RpcProxy._lock_token
  trying,       \* trying[p]: token of the lock() call in progress
  (* context and RpcObjectManager *)
  mgr,          \* progress of the context thread with the object
  (* _RpcThread *)
  pc,           \* where the thread is in run()
  fifo,         \* RpcThread._fifo
  current,      \* request taken from the fifo
  reply,        \* reply to be sent for it
  lockingToken, \* _RpcThread._locking_token
  (* history *)
  verdict,      \* verdict[r]: reply computed for r by the thread
  forced        \* tokens whose lock was broken by FORCE_RELEASE

callVars   == <<request, future, registered>>
clientVars == <<waiting, ownToken, trying>>
wireVars   == <<outbox, located>>
threadVars == <<pc, fifo, current, reply, lockingToken>>
history    == <<verdict, forced>>
vars == <<callVars, clientVars, wireVars, mgr, threadVars, history>>

-----------------------------------------------------------------------------
(* The proxy side: futures and blocking or non-blocking calls. *)

Init ==
  /\ request = [r \in Call |-> NoRequest]
  /\ future = [r \in Call |-> [state |-> "UNUSED", token |-> NoToken]]
  /\ registered = {}
  /\ outbox = [p \in Proxy |-> <<>>]
  /\ located = {}
  /\ waiting = [p \in Proxy |-> NoCall]
  /\ ownToken = [p \in Proxy |-> NoToken]
  /\ trying = [p \in Proxy |-> NoToken]
  /\ mgr = "making"
  /\ pc = "init"
  /\ fifo = <<>>
  /\ current = NoCall
  /\ reply = NoReply
  /\ lockingToken = NoToken
  /\ verdict = [r \in Call |-> NoReply]
  /\ forced = {}

\* Requests of a proxy in the same context are delivered by the calling thread.
Idle(p) ==
  /\ waiting[p] = NoCall
  /\ p \in Remote \/ outbox[p] = <<>>

\* Bound: calls are numbered in the order in which they are made.
Fresh(r) ==
  /\ future[r].state = "UNUSED"
  /\ \A s \in Call : s < r => future[s].state # "UNUSED"

\* Create the future of call r, register it and send the request.
Send(p, r, o, t) ==
  /\ o \in Use
  /\ Idle(p)
  /\ Fresh(r)
  /\ r <= MaxFree \/ trying[p] # NoToken
  /\ mgr # "making"       \* proxies are made for objects in the map
  /\ request' = [request EXCEPT ![r] = [proxy |-> p, op |-> o, token |-> t]]
  /\ future' = [future EXCEPT ![r] = NoReply]
  /\ registered' = registered \cup {r}
  /\ outbox' = [outbox EXCEPT ![p] = Append(@, r)]
  /\ UNCHANGED <<located, ownToken, mgr, threadVars, history>>

\* blocking_rpc_method_call
CallMethod(p, r) ==
  /\ trying[p] = NoToken
  /\ Send(p, r, "METHOD", ownToken[p])
  /\ waiting' = [waiting EXCEPT ![p] = r]
  /\ UNCHANGED trying

\* non_blocking_rpc_method_call
CallNonBlocking(p, r) ==
  /\ trying[p] = NoToken
  /\ Send(p, r, "METHOD", ownToken[p])
  /\ UNCHANGED <<waiting, trying>>

\* First attempt of lock(), with a unique or with a custom token.
Lock(p, r) ==
  \E t \in {r} \cup CustomToken :
    /\ trying[p] = NoToken
    /\ Send(p, r, "ACQUIRE", t)
    /\ waiting' = [waiting EXCEPT ![p] = r]
    /\ trying' = [trying EXCEPT ![p] = t]

\* lock(timeout): another attempt with the same token after a denied one.
RetryLock(p, r) ==
  /\ trying[p] # NoToken
  /\ Send(p, r, "ACQUIRE", trying[p])
  /\ waiting' = [waiting EXCEPT ![p] = r]
  /\ UNCHANGED trying

\* lock() returns False.
GiveUpLock(p) ==
  /\ waiting[p] = NoCall
  /\ trying[p] # NoToken
  /\ trying' = [trying EXCEPT ![p] = NoToken]
  /\ UNCHANGED <<callVars, wireVars, waiting, ownToken, mgr, threadVars, history>>

\* unlock() with the token of the proxy or with a custom token.
Unlock(p, r) ==
  \E t \in {ownToken[p]} \cup CustomToken :
    /\ trying[p] = NoToken
    /\ Send(p, r, "RELEASE", t)
    /\ waiting' = [waiting EXCEPT ![p] = r]
    /\ UNCHANGED trying

\* force_unlock() and is_locked()
ForceUnlock(p, r) ==
  /\ trying[p] = NoToken
  /\ Send(p, r, "FORCE_RELEASE", ownToken[p])
  /\ waiting' = [waiting EXCEPT ![p] = r]
  /\ UNCHANGED trying

IsLocked(p, r) ==
  /\ trying[p] = NoToken
  /\ Send(p, r, "QUERY", ownToken[p])
  /\ waiting' = [waiting EXCEPT ![p] = r]
  /\ UNCHANGED trying

\* The client calls wait() on the future of an earlier non-blocking call.
WaitFuture(p, r) ==
  /\ Idle(p)
  /\ trying[p] = NoToken
  /\ r \in registered
  /\ request[r].proxy = p
  /\ waiting' = [waiting EXCEPT ![p] = r]
  /\ UNCHANGED <<callVars, wireVars, ownToken, trying, mgr, threadVars, history>>

\* Mutant of Answer: a later reply replaces the result.
Answer_LastWins(f, r, v) == IF r \in registered THEN [f EXCEPT ![r] = v] ELSE f

\* _set_result: the future takes the first result and ignores later ones.  A
\* reply for a future that is no longer registered cannot be delivered.
Answer(f, r, v) ==
  IF r \in registered /\ f[r].state = "NO_RESULT_YET" THEN [f EXCEPT ![r] = v] ELSE f

\* wait() finds a result, unregisters the future, and lock(), unlock() or
\* force_unlock() adjusts the token of the proxy.
Return(p) ==
  LET r == waiting[p]
      granted == future[r].state = "RESULT_IS_VALUE"
                 /\ request[r].op = "ACQUIRE" /\ future[r].token = request[r].token
      released == future[r].state = "RESULT_IS_VALUE"
                  /\ request[r].op \in {"RELEASE", "FORCE_RELEASE"}
                  /\ future[r].token = NoToken
      raised == future[r].state = "RESULT_IS_EXCEPTION"
  IN  /\ r # NoCall
      /\ p \in Remote \/ outbox[p] = <<>>
      /\ future[r].state # "NO_RESULT_YET"
      /\ waiting' = [waiting EXCEPT ![p] = NoCall]
      /\ registered' = registered \ {r}
      /\ ownToken' = [ownToken EXCEPT ![p] = IF granted THEN request[r].token
                                             ELSE IF released THEN NoToken
                                             ELSE @]
      /\ trying' = [trying EXCEPT ![p] = IF granted \/ raised THEN NoToken ELSE @]
      /\ UNCHANGED <<request, future, wireVars, mgr, threadVars, history>>

\* Mutant of TimeOut: the timeout of lock() limits the wait for its reply.
TimeOut_AnyCall(p) ==
  LET r == waiting[p]
  IN  /\ r # NoCall
      /\ p \in Remote \/ outbox[p] = <<>>
      /\ future[r].state = "NO_RESULT_YET"
      /\ waiting' = [waiting EXCEPT ![p] = NoCall]
      /\ registered' = registered \ {r}
      /\ trying' = [trying EXCEPT ![p] = NoToken]
      /\ UNCHANGED <<request, future, wireVars, ownToken, mgr, threadVars, history>>

\* wait(timeout) expires: only method calls are given a timeout.
TimeOut(p) ==
  LET r == waiting[p]
  IN  /\ r # NoCall
      /\ p \in Remote \/ outbox[p] = <<>>
      /\ request[r].op = "METHOD"
      /\ future[r].state = "NO_RESULT_YET"
      /\ waiting' = [waiting EXCEPT ![p] = NoCall]
      /\ registered' = registered \ {r}
      /\ UNCHANGED <<request, future, wireVars, ownToken, trying, mgr, threadVars, history>>

-----------------------------------------------------------------------------
(* Delivery of requests: MessageRouter.deliver_message looks the handler up
   under its lock and calls handle_message after releasing it. *)

HandlerRegistered == mgr = "up"

\* RpcObjectManager._running
Running == mgr \in {"making", "mapped", "up", "removing"}

FindHandler(p) ==
  /\ outbox[p] # <<>>
  /\ p \notin located
  /\ HandlerRegistered
  /\ located' = located \cup {p}
  /\ UNCHANGED <<callVars, outbox, clientVars, mgr, threadVars, history>>

\* The request never reaches the object: the caller gets the delivery error.
Undeliverable(p) ==
  /\ future' = Answer(future, Head(outbox[p]), ErrorReply)
  /\ outbox' = [outbox EXCEPT ![p] = Tail(@)]
  /\ located' = located \ {p}
  /\ UNCHANGED <<request, registered, clientVars, mgr, threadVars, history>>

UnknownDestination(p) ==
  /\ outbox[p] # <<>>
  /\ p \notin located
  /\ ~HandlerRegistered
  /\ Undeliverable(p)

\* RpcObjectManager.handle_message, under _stop_lock
PushRequest(p) ==
  /\ p \in located
  /\ Running
  /\ fifo' = Append(fifo, Head(outbox[p]))
  /\ outbox' = [outbox EXCEPT ![p] = Tail(@)]
  /\ located' = located \ {p}
  /\ UNCHANGED <<callVars, clientVars, mgr, pc, current, reply, lockingToken, history>>

AlreadyStopped(p) ==
  /\ p \in located
  /\ ~Running
  /\ Undeliverable(p)

\* The peer connection of p closes: its pending requests get an error reply.
\* Of the requests that were sent, the object's context has received the first
\* k; the others are lost.  p may connect again and make new calls.
ConnectionLost(p) ==
  /\ p \in Remote
  /\ \E k \in 0 .. Len(outbox[p]) :
        /\ p \in located => k > 0
        /\ outbox' = [outbox EXCEPT ![p] = SubSeq(@, 1, k)]
  /\ LET pending == {r \in registered : request[r].proxy = p
                                        /\ future[r].state = "NO_RESULT_YET"}
     IN  /\ pending # {}
         /\ future' = [r \in Call |-> IF r \in pending THEN ErrorReply ELSE future[r]]
  /\ UNCHANGED <<request, registered, located, clientVars, mgr, threadVars, history>>

-----------------------------------------------------------------------------
(* The context thread: make_rpc_object, remove_rpc_object, RpcObjectManager.stop *)

\* make_proxy() returns and the manager is entered in _rpc_object_map, so that
\* proxies for the object can be made ...
EnterInMap ==
  /\ mgr = "making"
  /\ pc \notin {"init", "ended"}
  /\ mgr' = "mapped"
  /\ UNCHANGED <<callVars, clientVars, wireVars, threadVars, history>>

\* ... before it is registered as message handler.
Register ==
  /\ mgr = "mapped"
  /\ mgr' = "up"
  /\ UNCHANGED <<callVars, clientVars, wireVars, threadVars, history>>

\* make_proxy() raises the exception of the object's constructor.
MakeFails ==
  /\ mgr = "making"
  /\ pc = "ended"
  /\ mgr' = "removing"
  /\ UNCHANGED <<callVars, clientVars, wireVars, threadVars, history>>

\* remove_rpc_object (or QMI_Context.stop) unregisters the handler ...
Unregister ==
  /\ Removable
  /\ mgr = "up"
  /\ mgr' = "removing"
  /\ UNCHANGED <<callVars, clientVars, wireVars, threadVars, history>>

\* Mutant of Join: wait for an orderly end of the thread.
Join_OrderlyEnd ==
  /\ mgr = "joining"
  /\ pc = "ended"
  /\ mgr' = "stopped"
  /\ UNCHANGED <<callVars, clientVars, wireVars, threadVars, history>>

\* ... and RpcObjectManager.stop() clears _running, sets _shutdown_requested
\* and joins the thread.
StopRunning ==
  /\ mgr = "removing"
  /\ mgr' = "stopping"
  /\ UNCHANGED <<callVars, clientVars, wireVars, threadVars, history>>

RequestShutdown ==
  /\ mgr = "stopping"
  /\ mgr' = "joining"
  /\ UNCHANGED <<callVars, clientVars, wireVars, threadVars, history>>

Join ==
  /\ mgr = "joining"
  /\ pc \in {"ended", "crashed"}
  /\ mgr' = "stopped"
  /\ UNCHANGED <<callVars, clientVars, wireVars, threadVars, history>>

ShutdownRequested == mgr \in {"joining", "stopped"}

-----------------------------------------------------------------------------
(* _RpcThread.run *)

\* The constructor of the object returns or raises.
MakeObject ==
  /\ pc = "init"
  /\ pc' \in {"loop", "ended"}
  /\ UNCHANGED <<callVars, clientVars, wireVars, mgr, fifo, current, reply, lockingToken, history>>

\* Mutant of TakeRequest: pop() instead of popleft().
TakeRequest_Newest ==
  /\ pc = "loop"
  /\ ~ShutdownRequested
  /\ fifo # <<>>
  /\ current' = fifo[Len(fifo)]
  /\ fifo' = SubSeq(fifo, 1, Len(fifo) - 1)
  /\ pc' = "handling"
  /\ UNCHANGED <<callVars, clientVars, wireVars, mgr, reply, lockingToken, history>>

TakeRequest ==
  /\ pc = "loop"
  /\ ~ShutdownRequested
  /\ fifo # <<>>
  /\ current' = Head(fifo)
  /\ fifo' = Tail(fifo)
  /\ pc' = "handling"
  /\ UNCHANGED <<callVars, clientVars, wireVars, mgr, reply, lockingToken, history>>

SeeShutdown ==
  /\ pc = "loop"
  /\ ShutdownRequested
  /\ pc' = "rejecting"
  /\ UNCHANGED <<callVars, clientVars, wireVars, mgr, fifo, current, reply, lockingToken, history>>

Handling(o) == pc = "handling" /\ request[current].op = o

\* The thread has computed reply v for the current request.
Conclude(v) ==
  /\ pc' = "replying"
  /\ reply' = v
  /\ verdict' = [verdict EXCEPT ![current] = v]
  /\ UNCHANGED <<callVars, clientVars, wireVars, mgr, fifo, current>>

\* Mutant of MayInvoke: only a caller that has a token is checked.
MayInvoke_NoTokenPasses(t) == t = NoToken \/ lockingToken \in {NoToken, t}

\* _handle_method_rpc_request.  The value or exception with which the method
\* ends is data: both are the result of a method that ran.
MayInvoke(t) == lockingToken \in {NoToken, t}

InvokeMethod ==
  /\ Handling("METHOD")
  /\ MayInvoke(request[current].token)
  /\ Conclude(ValueReply(NoToken))
  /\ UNCHANGED <<lockingToken, forced>>

RefuseMethod ==
  /\ Handling("METHOD")
  /\ ~MayInvoke(request[current].token)
  /\ Conclude([state |-> "OBJECT_IS_LOCKED", token |-> NoToken])
  /\ UNCHANGED <<lockingToken, forced>>

\* Mutant of Acquire: a lock request always gets the lock.
Acquire_Steals ==
  LET t == request[current].token
  IN  /\ Handling("ACQUIRE")
      /\ Conclude(ValueReply(t))
      /\ lockingToken' = t
      /\ forced' = forced \ {t}

\* Mutant of Release: the token of the caller is not compared.
Release_AnyToken ==
  /\ Handling("RELEASE")
  /\ Conclude(ValueReply(NoToken))
  /\ lockingToken' = NoToken
  /\ UNCHANGED forced

\* _handle_lock_rpc_request
Acquire ==
  LET t == request[current].token
      free == lockingToken = NoToken
  IN  /\ Handling("ACQUIRE")
      /\ Conclude(ValueReply(IF free \/ lockingToken = t THEN t ELSE Denied))
      /\ lockingToken' = IF free THEN t ELSE lockingToken
      /\ forced' = IF free THEN forced \ {t} ELSE forced

Release ==
  LET mine == lockingToken = request[current].token
  IN  /\ Handling("RELEASE")
      /\ Conclude(ValueReply(IF mine \/ lockingToken = NoToken THEN NoToken ELSE Denied))
      /\ lockingToken' = IF mine THEN NoToken ELSE lockingToken
      /\ UNCHANGED forced

ForceRelease ==
  /\ Handling("FORCE_RELEASE")
  /\ lockingToken # NoToken
  /\ Conclude(ValueReply(NoToken))
  /\ lockingToken' = NoToken
  /\ forced' = forced \cup {lockingToken}

\* FORCE_RELEASE of an object that is not locked leaves return_token unbound:
\* the UnboundLocalError is caught nowhere and ends the thread.
ForceReleaseUnlocked ==
  /\ Handling("FORCE_RELEASE")
  /\ lockingToken = NoToken
  /\ pc' = "crashed"
  /\ current' = NoCall
  /\ UNCHANGED <<callVars, clientVars, wireVars, mgr, fifo, reply, lockingToken, history>>

Query ==
  /\ Handling("QUERY")
  /\ Conclude(ValueReply(IF lockingToken = NoToken THEN NoToken ELSE Locked))
  /\ UNCHANGED <<lockingToken, forced>>

\* The reply is sent to the future; failure to deliver it is only logged.
SendReply ==
  /\ pc = "replying"
  /\ future' = Answer(future, current, reply)
  /\ pc' = "loop"
  /\ current' = NoCall
  /\ reply' = NoReply
  /\ UNCHANGED <<request, registered, clientVars, wireVars, mgr, fifo, lockingToken, history>>

\* Mutant of RejectRequest: the remaining requests are dropped without a reply.
RejectRequest_Silent ==
  /\ pc = "rejecting"
  /\ fifo # <<>>
  /\ fifo' = Tail(fifo)
  /\ UNCHANGED <<callVars, clientVars, wireVars, mgr, pc, current, reply, lockingToken, history>>

\* _reject_remaining_requests
RejectRequest ==
  /\ pc = "rejecting"
  /\ fifo # <<>>
  /\ future' = Answer(future, Head(fifo), ErrorReply)
  /\ fifo' = Tail(fifo)
  /\ UNCHANGED <<request, registered, clientVars, wireVars, mgr, pc, current, reply,
                 lockingToken, history>>

\* Mutant of ReleaseObject: the thread ends without rejecting what is queued.
ReleaseObject_NoReject ==
  /\ pc = "rejecting"
  /\ pc' = "ended"
  /\ UNCHANGED <<callVars, clientVars, wireVars, mgr, fifo, current, reply, lockingToken, history>>

\* release_rpc_object, after which the thread ends
ReleaseObject ==
  /\ pc = "rejecting"
  /\ fifo = <<>>
  /\ pc' = "ended"
  /\ UNCHANGED <<callVars, clientVars, wireVars, mgr, fifo, current, reply, lockingToken, history>>

-----------------------------------------------------------------------------

ClientCall(p, r) ==
  \/ CallMethod(p, r) \/ CallNonBlocking(p, r) \/ WaitFuture(p, r)
  \/ Lock(p, r) \/ RetryLock(p, r) \/ Unlock(p, r) \/ ForceUnlock(p, r) \/ IsLocked(p, r)

Deliver(p) == FindHandler(p) \/ UnknownDestination(p) \/ PushRequest(p) \/ AlreadyStopped(p)

Context == EnterInMap \/ Register \/ MakeFails \/ Unregister \/ StopRunning \/ RequestShutdown \/ Join

Handle ==
  \/ InvokeMethod \/ RefuseMethod
  \/ Acquire \/ Release \/ ForceRelease \/ ForceReleaseUnlocked \/ Query

Thread ==
  \/ MakeObject \/ TakeRequest \/ SeeShutdown
  \/ Handle
  \/ SendReply \/ RejectRequest \/ ReleaseObject

Next ==
  \/ \E p \in Proxy, r \in Call : ClientCall(p, r)
  \/ \E p \in Proxy : Return(p) \/ TimeOut(p) \/ GiveUpLock(p)
  \/ \E p \in Proxy : Deliver(p) \/ ConnectionLost(p)
  \/ Context
  \/ Thread

Spec == Init /\ [][Next]_vars

\* Threads that can run do run, methods end, and a stop once begun goes on.
\* Nothing obliges a client to call, a timer to expire, a connection to break
\* or the context to remove the object.
Fairness ==
  /\ \A p \in Proxy : WF_vars(Deliver(p)) /\ WF_vars(Return(p))
  /\ WF_vars(Thread)
  /\ WF_vars(EnterInMap \/ Register \/ MakeFails \/ StopRunning \/ RequestShutdown \/ Join)

FairSpec == Spec /\ Fairness

-----------------------------------------------------------------------------
(* Properties *)

Request == [proxy : Proxy, op : Op, token : Token \cup {NoToken}]

\* Type invariant.
TypeOK ==
  /\ request \in [Call -> Request \cup {NoRequest}]
  /\ future \in [Call -> [state : FutureState, token : Token \cup {NoToken, Denied, Locked}]]
  /\ registered \in SUBSET Call
  /\ outbox \in [Proxy -> Seq(Call)]
  /\ located \in SUBSET Proxy
  /\ waiting \in [Proxy -> Call \cup {NoCall}]
  /\ ownToken \in [Proxy -> Token \cup {NoToken}]
  /\ trying \in [Proxy -> Token \cup {NoToken}]
  /\ mgr \in {"making", "mapped", "up", "removing", "stopping", "joining", "stopped"}
  /\ pc \in {"init", "loop", "handling", "replying", "rejecting", "ended", "crashed"}
  /\ fifo \in Seq(Call)
  /\ current \in Call \cup {NoCall}
  /\ reply \in Reply
  /\ lockingToken \in Token \cup {NoToken}
  /\ verdict \in [Call -> Reply]
  /\ forced \in SUBSET Token

Issued(r) == future[r].state # "UNUSED"
Open(r) == r \in registered /\ future[r].state = "NO_RESULT_YET"

\* An unanswered call is always somewhere: a future that still expects a reply
\* has its request on the way to the manager, in the queue or in the hands of a
\* thread that is alive.  A race between handle_message and stop(), a request
\* dropped by the rejecting loop or a lost reply would break this.
InQueue(r) == \/ \E p \in Proxy : r \in Range(outbox[p])
              \/ r \in Range(fifo)
              \/ r = current
NoRequestLost == pc # "crashed" => \A r \in Call : Open(r) => InQueue(r)

\* Once the thread of the object has returned, its queue is empty and stays
\* empty: nothing can be pushed behind the back of _reject_remaining_requests,
\* although messages are delivered by threads that looked the manager up
\* before it was unregistered.
NothingQueuedAfterEnd == pc = "ended" => fifo = <<>>

\* Proxy p owns the lock as its client sees it: lock() returned True with a
\* token unique to p, p never sent an unlock() with it, and nobody used
\* force_unlock() against it.
Owns(p) ==
  /\ ownToken[p] \in Call
  /\ ownToken[p] \notin forced
  /\ \A r \in Call : request[r].op = "RELEASE" => request[r].token # ownToken[p]

\* The client's belief is right: the object is locked with the owner's token.
\* The belief changes when a reply arrives, the object's lock when the thread
\* handles the request, and other proxies act in between.
OwnerHoldsLock == \A p \in Proxy : Owns(p) => lockingToken = ownToken[p]

\* "If successful, this proxy is the only proxy that can invoke RPC methods"
\* (rpc.py, lock): no method of another proxy runs while p owns the lock, not
\* even one queued before p locked the object.
ExclusiveAccess ==
  [][InvokeMethod => \A p \in Proxy : Owns(p) => request[current].proxy = p]_vars

\* A lock is never left without an owner, except by an error: if the object is
\* locked with a unique token, then some proxy stores that token, or the lock()
\* call that got it has not returned yet, or that call ended with a delivery
\* error.  (In the last case only force_unlock() helps.)
LockHasOwner ==
  lockingToken \in Call =>
    \/ \E p \in Proxy : ownToken[p] = lockingToken
    \/ \E r \in Call :
          /\ request[r].op = "ACQUIRE" /\ request[r].token = lockingToken
          /\ \/ \E p \in Proxy : waiting[p] = r /\ future[r].state \in {"NO_RESULT_YET", "RESULT_IS_VALUE"}
             \/ future[r].state = "RESULT_IS_EXCEPTION"

\* A future never changes its result once it has one, whatever arrives later:
\* an error reply of a lost connection and the reply of the object may both come.
FirstResultIsFinal ==
  [][\A r \in Call : future[r].state \notin {"UNUSED", "NO_RESULT_YET"}
                        => future'[r] = future[r]]_vars

\* The requests of one proxy are handled in the order in which it made them,
\* blocking or not: when a request is taken from the queue, no earlier one of
\* the same proxy is still waiting to be handled.
ProgramOrder ==
  [][TakeRequest => \A r \in Call :
        r < current' /\ request[r].proxy = request[current'].proxy /\ Issued(r)
          => ~InQueue(r)]_vars

\* Every call made ends: its future gets a result, or its client stopped
\* waiting, unless the thread was killed by ForceReleaseUnlocked.
EveryCallAnswered == \A r \in Call : Open(r) ~> (~Open(r) \/ pc = "crashed")

\* The docstring of force_unlock (rpc.py): "This unlocks the object, regardless
\* of who owns the lock": the call returns whatever the state of the lock.
ForceUnlockReturns ==
  \A p \in Proxy, r \in Call :
    (waiting[p] = r /\ request[r].op = "FORCE_RELEASE") ~> (waiting[p] = NoCall)

\* Once begun, the removal of the object completes: stop() does not wait for
\* ever in join(), also when the thread died.
RemovalCompletes == (mgr = "removing") ~> (mgr = "stopped")

-----------------------------------------------------------------------------
(* RpcObject implements LockService. *)

Phase(r) ==
  CASE ~Issued(r)                                      -> "idle"
    [] Issued(r) /\ verdict[r] # NoReply               -> "applied"
    [] Issued(r) /\ verdict[r] = NoReply /\ InQueue(r)  -> "pending"
    [] Issued(r) /\ verdict[r] = NoReply /\ ~InQueue(r) -> "dropped"

Service == INSTANCE LockService WITH
  phase <- [r \in Call |-> Phase(r)],
  asked <- [r \in Call |-> IF Issued(r)
                           THEN [op |-> request[r].op, token |-> request[r].token]
                           ELSE [op |-> "none", token |-> NoToken]],
  answered <- [r \in Call |-> IF Issued(r) THEN future[r] ELSE NoReply],
  owner <- lockingToken

\* Every behaviour of the queue, thread and futures is one of the abstract lock
\* service: calls take effect once and atomically, and are told what happened.
\* A force_unlock() that kills the thread (ForceReleaseUnlocked) is, like the
\* calls queued behind it, one that never takes effect.
ImplementsLockService == Service!Spec
=============================================================================
