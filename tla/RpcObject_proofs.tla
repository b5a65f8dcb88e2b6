--------------------------- MODULE RpcObject_proofs ---------------------------
(***************************************************************************)
(* Theorems about RpcObject, for any number of proxies, calls and tokens:  *)
(* its invariants, what a step never does, the order in which requests are *)
(* served, the owner of the lock, and the refinement of LockService.       *)
(***************************************************************************)
EXTENDS RpcObject, TLAPS

Assumptions ==
  /\ Remote \subseteq Proxy
  /\ MaxCalls \in Nat
  /\ NoToken \notin Token
  /\ NoCall \notin Call

LEMMA ConstantFacts == Assumptions
  BY RemoteAssumption, MaxCallsAssumption, TokenAssumption DEF Assumptions, Call, NoCall

-----------------------------------------------------------------------------
(* Type correctness *)

\* A handler is looked up only for a message that is being sent.
LocatedInv == \A p \in located : outbox[p] # <<>>

\* The type of a reply fits a future.
LEMMA AnswerType ==
  ASSUME NEW f \in [Call -> [state : FutureState, token : Token \cup {NoToken, Denied, Locked}]],
         NEW r, NEW v \in Reply
  PROVE  Answer(f, r, v) \in [Call -> [state : FutureState, token : Token \cup {NoToken, Denied, Locked}]]
  BY DEF Answer, Reply, FutureState

LEMMA ReplyTypes ==
  /\ NoReply \in Reply /\ ErrorReply \in Reply
  /\ \A t \in Token \cup {NoToken, Denied, Locked} : ValueReply(t) \in Reply
  /\ [state |-> "OBJECT_IS_LOCKED", token |-> NoToken] \in Reply
  BY DEF NoReply, ErrorReply, ValueReply, Reply, FutureState

\* What every new call does to the state, and why that is well typed.
LEMMA SendType ==
  ASSUME TypeOK, NEW p \in Proxy, NEW r \in Call, NEW o \in Op,
         NEW t \in Token \cup {NoToken}, Send(p, r, o, t),
         waiting' \in [Proxy -> Call \cup {NoCall}],
         trying' \in [Proxy -> Token \cup {NoToken}]
  PROVE  TypeOK'
<1>1. request' \in [Call -> Request \cup {NoRequest}]
  BY DEF TypeOK, Send, Request
<1>2. future' \in [Call -> [state : FutureState, token : Token \cup {NoToken, Denied, Locked}]]
  BY ReplyTypes DEF TypeOK, Send, Reply
<1>3. outbox' \in [Proxy -> Seq(Call)]
  BY DEF TypeOK, Send
<1>4. registered' \in SUBSET Call
  BY DEF TypeOK, Send
<1> QED
  BY <1>1, <1>2, <1>3, <1>4 DEF TypeOK, Send, threadVars, history

LEMMA ClientCallType ==
  ASSUME TypeOK, NEW p \in Proxy, NEW r \in Call, ClientCall(p, r)
  PROVE  TypeOK'
<1> USE ConstantFacts DEF Assumptions
<1>1. CASE CallMethod(p, r)
  <2>1. ownToken[p] \in Token \cup {NoToken} BY DEF TypeOK
  <2> QED BY <1>1, <2>1, SendType DEF CallMethod, TypeOK, Op
<1>2. CASE CallNonBlocking(p, r)
  <2>1. ownToken[p] \in Token \cup {NoToken} BY DEF TypeOK
  <2> QED BY <1>2, <2>1, SendType DEF CallNonBlocking, TypeOK, Op
<1>3. CASE WaitFuture(p, r)
  BY <1>3 DEF WaitFuture, TypeOK, callVars, wireVars, threadVars, history
<1>4. CASE Lock(p, r)
  <2>1. PICK t \in {r} \cup CustomToken :
           /\ Send(p, r, "ACQUIRE", t)
           /\ waiting' = [waiting EXCEPT ![p] = r]
           /\ trying' = [trying EXCEPT ![p] = t]
    BY <1>4 DEF Lock
  <2>2. t \in Token BY DEF Token
  <2> QED BY <2>1, <2>2, SendType DEF TypeOK, Op
<1>5. CASE RetryLock(p, r)
  <2>1. trying[p] \in Token \cup {NoToken} BY DEF TypeOK
  <2> QED BY <1>5, <2>1, SendType DEF RetryLock, TypeOK, Op
<1>6. CASE Unlock(p, r)
  <2>1. PICK t \in {ownToken[p]} \cup CustomToken :
           /\ Send(p, r, "RELEASE", t)
           /\ waiting' = [waiting EXCEPT ![p] = r]
           /\ UNCHANGED trying
    BY <1>6 DEF Unlock
  <2>2. t \in Token \cup {NoToken} BY DEF Token, TypeOK
  <2> QED BY <2>1, <2>2, SendType DEF TypeOK, Op
<1>7. CASE ForceUnlock(p, r)
  <2>1. ownToken[p] \in Token \cup {NoToken} BY DEF TypeOK
  <2> QED BY <1>7, <2>1, SendType DEF ForceUnlock, TypeOK, Op
<1>8. CASE IsLocked(p, r)
  <2>1. ownToken[p] \in Token \cup {NoToken} BY DEF TypeOK
  <2> QED BY <1>8, <2>1, SendType DEF IsLocked, TypeOK, Op
<1> QED
  BY <1>1, <1>2, <1>3, <1>4, <1>5, <1>6, <1>7, <1>8 DEF ClientCall

LEMMA ClientReturnType ==
  ASSUME TypeOK, NEW p \in Proxy, Return(p) \/ TimeOut(p) \/ GiveUpLock(p)
  PROVE  TypeOK'
<1>1. CASE Return(p)
  <2>1. waiting[p] \in Call
    BY <1>1 DEF Return, TypeOK, NoCall
  <2>2. request[waiting[p]].token \in Token \cup {NoToken}
    BY <2>1 DEF TypeOK, Request, NoRequest
  <2>3. request[waiting[p]].op = "ACQUIRE" => request[waiting[p]].token \in Token \cup {NoToken}
    BY <2>2
  <2>4. ownToken' \in [Proxy -> Token \cup {NoToken}]
    BY <1>1, <2>2 DEF Return, TypeOK
  <2>5. trying' \in [Proxy -> Token \cup {NoToken}]
    BY <1>1 DEF Return, TypeOK
  <2> QED
    BY <1>1, <2>4, <2>5 DEF Return, TypeOK, wireVars, threadVars, history
<1>2. CASE TimeOut(p)
  BY <1>2 DEF TimeOut, TypeOK, wireVars, threadVars, history
<1>3. CASE GiveUpLock(p)
  BY <1>3 DEF GiveUpLock, TypeOK, callVars, wireVars, threadVars, history
<1> QED BY <1>1, <1>2, <1>3

LEMMA TailType ==
  ASSUME NEW s \in Seq(Call), s # <<>>
  PROVE  Head(s) \in Call /\ Tail(s) \in Seq(Call)
  OBVIOUS

LEMMA AppendNonEmpty ==
  ASSUME NEW s \in Seq(Call), NEW r \in Call
  PROVE  Append(s, r) # <<>>
<1>1. Len(Append(s, r)) = Len(s) + 1 /\ Len(s) \in Nat
  OBVIOUS
<1> QED BY <1>1

LEMMA DeliverType ==
  ASSUME TypeOK, NEW p \in Proxy, Deliver(p) \/ ConnectionLost(p),
         LocatedInv
  PROVE  TypeOK'
<1>1. CASE FindHandler(p)
  BY <1>1 DEF FindHandler, TypeOK, callVars, clientVars, threadVars, history
<1>2. ASSUME outbox[p] # <<>>, Undeliverable(p)
      PROVE  TypeOK'
  <2>1. future' \in [Call -> [state : FutureState, token : Token \cup {NoToken, Denied, Locked}]]
    BY <1>2, AnswerType, ReplyTypes DEF Undeliverable, TypeOK
  <2>2. outbox' \in [Proxy -> Seq(Call)]
    BY <1>2, TailType DEF Undeliverable, TypeOK
  <2> QED
    BY <1>2, <2>1, <2>2 DEF Undeliverable, TypeOK, clientVars, threadVars, history
<1>3. CASE UnknownDestination(p)
  BY <1>2, <1>3 DEF UnknownDestination
<1>4. CASE PushRequest(p)
  <2>1. Head(outbox[p]) \in Call /\ Tail(outbox[p]) \in Seq(Call)
    BY <1>4, TailType DEF PushRequest, TypeOK, LocatedInv
  <2> QED
    BY <1>4, <2>1 DEF PushRequest, TypeOK, callVars, clientVars, history
<1>5. CASE AlreadyStopped(p)
  BY <1>2, <1>5 DEF AlreadyStopped, LocatedInv
<1>6. CASE ConnectionLost(p)
  <2>1. PICK k \in 0 .. Len(outbox[p]) : outbox' = [outbox EXCEPT ![p] = SubSeq(@, 1, k)]
    BY <1>6 DEF ConnectionLost
  <2>2. SubSeq(outbox[p], 1, k) \in Seq(Call)
    BY <2>1 DEF TypeOK
  <2>3. outbox' \in [Proxy -> Seq(Call)]
    BY <2>1, <2>2 DEF TypeOK
  <2>4. future' \in [Call -> [state : FutureState, token : Token \cup {NoToken, Denied, Locked}]]
    BY <1>6, ReplyTypes DEF ConnectionLost, TypeOK, Reply
  <2> QED
    BY <1>6, <2>3, <2>4 DEF ConnectionLost, TypeOK, clientVars, threadVars, history
<1> QED
  BY <1>1, <1>3, <1>4, <1>5, <1>6 DEF Deliver

LEMMA ContextType ==
  ASSUME TypeOK, Context
  PROVE  TypeOK'
  BY DEF Context, EnterInMap, Register, MakeFails, Unregister, StopRunning, RequestShutdown,
         Join, TypeOK, callVars, clientVars, wireVars, threadVars, history

\* The thread has a request in hands exactly while it handles and answers it.
CurrentInv ==
  /\ pc \in {"handling", "replying"} => current \in Call
  /\ pc \notin {"handling", "replying"} => current = NoCall
  /\ pc = "replying" => reply = verdict[current] /\ reply.state # "NO_RESULT_YET"

LEMMA ThreadType ==
  ASSUME TypeOK, CurrentInv, Thread
  PROVE  TypeOK'
<1>1. CASE MakeObject
  BY <1>1 DEF MakeObject, TypeOK, callVars, clientVars, wireVars, history
<1>2. CASE TakeRequest
  <2>1. Head(fifo) \in Call /\ Tail(fifo) \in Seq(Call)
    BY <1>2, TailType DEF TakeRequest, TypeOK
  <2> QED BY <1>2, <2>1 DEF TakeRequest, TypeOK, callVars, clientVars, wireVars, history
<1>3. CASE SeeShutdown
  BY <1>3 DEF SeeShutdown, TypeOK, callVars, clientVars, wireVars, history
<1>4. ASSUME NEW v \in Reply, Conclude(v),
             lockingToken' \in Token \cup {NoToken}, forced' \in SUBSET Token
      PROVE  TypeOK'
  BY <1>4 DEF Conclude, TypeOK, callVars, clientVars, wireVars
<1>5. current \in Call => request[current].token \in Token \cup {NoToken}
  BY DEF TypeOK, Request, NoRequest
<1>6. CASE Handle
  <2>1. lockingToken \in Token \cup {NoToken} /\ forced \in SUBSET Token
    BY DEF TypeOK
  <2>2. CASE InvokeMethod
    BY <1>4, <2>1, <2>2, ReplyTypes DEF InvokeMethod
  <2>3. CASE RefuseMethod
    BY <1>4, <2>1, <2>3, ReplyTypes DEF RefuseMethod
  <2>4. CASE Acquire
    <3>1. request[current].token \in Token \cup {NoToken}
      BY <1>5, <2>4 DEF Acquire, Handling, CurrentInv
    <3> QED BY <1>4, <2>1, <2>4, <3>1, ReplyTypes DEF Acquire
  <2>5. CASE Release
    BY <1>4, <2>1, <2>5, ReplyTypes DEF Release
  <2>6. CASE ForceRelease
    BY <1>4, <2>1, <2>6, ReplyTypes DEF ForceRelease
  <2>7. CASE ForceReleaseUnlocked
    BY <2>7 DEF ForceReleaseUnlocked, TypeOK, callVars, clientVars, wireVars, history
  <2>8. CASE Query
    BY <1>4, <2>1, <2>8, ReplyTypes DEF Query
  <2> QED
    BY <1>6, <2>2, <2>3, <2>4, <2>5, <2>6, <2>7, <2>8 DEF Handle
<1>7. CASE SendReply
  <2>1. future' \in [Call -> [state : FutureState, token : Token \cup {NoToken, Denied, Locked}]]
    BY <1>7, AnswerType DEF SendReply, TypeOK
  <2> QED BY <1>7, <2>1, ReplyTypes DEF SendReply, TypeOK, clientVars, wireVars, history
<1>8. CASE RejectRequest
  <2>1. future' \in [Call -> [state : FutureState, token : Token \cup {NoToken, Denied, Locked}]]
    BY <1>8, AnswerType, ReplyTypes DEF RejectRequest, TypeOK
  <2>2. fifo' \in Seq(Call)
    BY <1>8, TailType DEF RejectRequest, TypeOK
  <2> QED BY <1>8, <2>1, <2>2 DEF RejectRequest, TypeOK, clientVars, wireVars, history
<1>9. CASE ReleaseObject
  BY <1>9 DEF ReleaseObject, TypeOK, callVars, clientVars, wireVars, history
<1> QED
  BY <1>1, <1>2, <1>3, <1>6, <1>7, <1>8, <1>9 DEF Thread

LEMMA CurrentStep ==
  ASSUME TypeOK, CurrentInv, Next
  PROVE  CurrentInv'
<1> USE DEF CurrentInv
<1>1. ASSUME UNCHANGED <<pc, current, reply, verdict>>
      PROVE  CurrentInv'
  BY <1>1
<1>2. ASSUME NEW p \in Proxy, NEW r \in Call, ClientCall(p, r)
      PROVE  CurrentInv'
  BY <1>1, <1>2 DEF ClientCall, CallMethod, CallNonBlocking, WaitFuture, Lock, RetryLock, Unlock,
     ForceUnlock, IsLocked, Send, threadVars, history
<1>3. ASSUME NEW p \in Proxy, Return(p) \/ TimeOut(p) \/ GiveUpLock(p) \/ Deliver(p) \/ ConnectionLost(p)
      PROVE  CurrentInv'
  BY <1>1, <1>3 DEF Return, TimeOut, GiveUpLock, Deliver, FindHandler, UnknownDestination, PushRequest,
     AlreadyStopped, Undeliverable, ConnectionLost, threadVars, history
<1>4. CASE Context
  BY <1>1, <1>4 DEF Context, EnterInMap, Register, MakeFails, Unregister, StopRunning,
     RequestShutdown, Join, threadVars, history
<1>5. CASE Thread
  <2>1. ASSUME NEW v, Conclude(v), pc = "handling", v.state # "NO_RESULT_YET"
        PROVE  CurrentInv'
    BY <2>1 DEF Conclude, TypeOK
  <2>2. CASE Handle
    BY <2>1, <2>2 DEF Handle, InvokeMethod, RefuseMethod, Acquire, Release, ForceRelease, Query,
       Handling, ForceReleaseUnlocked, ValueReply
  <2>3. CASE TakeRequest
    BY <2>3, TailType DEF TakeRequest, TypeOK
  <2>4. CASE MakeObject \/ SeeShutdown \/ SendReply \/ RejectRequest \/ ReleaseObject
    BY <2>4 DEF MakeObject, SeeShutdown, SendReply, RejectRequest, ReleaseObject
  <2> QED BY <1>5, <2>2, <2>3, <2>4 DEF Thread
<1> QED
  BY <1>2, <1>3, <1>4, <1>5 DEF Next

LEMMA LocatedStep ==
  ASSUME TypeOK, LocatedInv, Next
  PROVE  LocatedInv'
<1> USE DEF LocatedInv
<1>1. ASSUME UNCHANGED wireVars
      PROVE  LocatedInv'
  BY <1>1 DEF wireVars
<1>2. ASSUME NEW p \in Proxy, NEW r \in Call, ClientCall(p, r)
      PROVE  LocatedInv'
  <2>1. ASSUME NEW o, NEW t, Send(p, r, o, t)
        PROVE  LocatedInv'
    <3>1. outbox' = [outbox EXCEPT ![p] = Append(@, r)] /\ located' = located
      BY <2>1 DEF Send
    <3>2. Append(outbox[p], r) # <<>>
      BY AppendNonEmpty DEF TypeOK
    <3> QED BY <3>1, <3>2 DEF TypeOK
  <2>2. CASE WaitFuture(p, r)
    BY <1>1, <2>2 DEF WaitFuture
  <2> QED
    BY <1>2, <2>1, <2>2 DEF ClientCall, CallMethod, CallNonBlocking, Lock, RetryLock, Unlock,
       ForceUnlock, IsLocked
<1>3. ASSUME NEW p \in Proxy, Return(p) \/ TimeOut(p) \/ GiveUpLock(p)
      PROVE  LocatedInv'
  BY <1>1, <1>3 DEF Return, TimeOut, GiveUpLock
<1>4. ASSUME NEW p \in Proxy, Deliver(p)
      PROVE  LocatedInv'
  <2>1. CASE FindHandler(p)
    BY <2>1 DEF FindHandler
  <2>2. CASE UnknownDestination(p) \/ PushRequest(p) \/ AlreadyStopped(p)
    <3>1. outbox' = [outbox EXCEPT ![p] = Tail(@)] /\ located' = located \ {p}
      BY <2>2 DEF UnknownDestination, PushRequest, AlreadyStopped, Undeliverable
    <3> QED BY <3>1 DEF TypeOK
  <2> QED BY <1>4, <2>1, <2>2 DEF Deliver
<1>5. ASSUME NEW p \in Proxy, ConnectionLost(p)
      PROVE  LocatedInv'
  <2>1. PICK k \in 0 .. Len(outbox[p]) :
           /\ p \in located => k > 0
           /\ outbox' = [outbox EXCEPT ![p] = SubSeq(@, 1, k)]
    BY <1>5 DEF ConnectionLost
  <2>2. located' = located
    BY <1>5 DEF ConnectionLost
  <2>3. k > 0 => SubSeq(outbox[p], 1, k) # <<>>
    <3>1. outbox[p] \in Seq(Call) BY DEF TypeOK
    <3>2. Len(outbox[p]) \in Nat BY <3>1
    <3>3. Len(SubSeq(outbox[p], 1, k)) = IF 1 <= k THEN k - 1 + 1 ELSE 0
      BY <3>1, <3>2, <2>1
    <3> QED BY <3>2, <3>3, <2>1
  <2> QED BY <2>1, <2>2, <2>3 DEF TypeOK
<1>6. CASE Context
  BY <1>1, <1>6 DEF Context, EnterInMap, Register, MakeFails, Unregister, StopRunning,
     RequestShutdown, Join
<1>7. CASE Thread
  BY <1>1, <1>7 DEF Thread, MakeObject, TakeRequest, SeeShutdown, Handle, InvokeMethod, RefuseMethod,
     Acquire, Release, ForceRelease, ForceReleaseUnlocked, Query, Conclude, SendReply, RejectRequest,
     ReleaseObject
<1> QED
  BY <1>2, <1>3, <1>4, <1>5, <1>6, <1>7 DEF Next

\* The base invariant: types, and what the program counters mean.
BaseInv == TypeOK /\ LocatedInv /\ CurrentInv

LEMMA BaseInit == Init => BaseInv
<1> SUFFICES ASSUME Init PROVE BaseInv
  OBVIOUS
<1>1. TypeOK
  BY ReplyTypes DEF Init, TypeOK, FutureState
<1> QED BY <1>1 DEF Init, BaseInv, LocatedInv, CurrentInv

LEMMA BaseStep == BaseInv /\ [Next]_vars => BaseInv'
<1> SUFFICES ASSUME BaseInv, [Next]_vars PROVE BaseInv'
  OBVIOUS
<1> USE DEF BaseInv
<1>1. CASE Next
  <2>1. TypeOK'
    <3>1. ASSUME NEW p \in Proxy, NEW r \in Call, ClientCall(p, r) PROVE TypeOK'
      BY <3>1, ClientCallType
    <3>2. ASSUME NEW p \in Proxy, Return(p) \/ TimeOut(p) \/ GiveUpLock(p) PROVE TypeOK'
      BY <3>2, ClientReturnType
    <3>3. ASSUME NEW p \in Proxy, Deliver(p) \/ ConnectionLost(p) PROVE TypeOK'
      BY <3>3, DeliverType
    <3>4. CASE Context BY <3>4, ContextType
    <3>5. CASE Thread BY <3>5, ThreadType
    <3> QED BY <1>1, <3>1, <3>2, <3>3, <3>4, <3>5 DEF Next
  <2> QED BY <1>1, <2>1, LocatedStep, CurrentStep
<1>2. CASE UNCHANGED vars
  BY <1>2 DEF vars, callVars, clientVars, wireVars, threadVars, history, TypeOK, LocatedInv, CurrentInv
<1> QED BY <1>1, <1>2

\* Every variable of the model always has its type: no lock reply placeholder is
\* ever stored as a token, the thread only ever handles requests, and the queues
\* hold nothing but calls.
THEOREM TypeCorrect == Spec => []TypeOK
<1>1. Init => BaseInv BY BaseInit
<1>2. BaseInv /\ [Next]_vars => BaseInv' BY BaseStep
<1>3. BaseInv => TypeOK BY DEF BaseInv
<1> QED BY <1>1, <1>2, <1>3, PTL DEF Spec

-----------------------------------------------------------------------------
(* Who made a call, and whose a unique token is *)

\* Calls that were not made have no request.  A unique token is the number of
\* the call that introduced it: it is only ever carried, tried or owned by the
\* proxy that made this call.
IdentityInv ==
  /\ \A r \in Call : ~Issued(r) => request[r] = NoRequest
  /\ \A r \in registered : Issued(r)
  /\ \A r \in Call : request[r].token \in Call =>
        /\ Issued(request[r].token)
        /\ request[request[r].token].proxy = request[r].proxy
  /\ \A p \in Proxy : waiting[p] \in Call =>
        Issued(waiting[p]) /\ request[waiting[p]].proxy = p
  /\ \A p \in Proxy : ownToken[p] \in Call =>
        Issued(ownToken[p]) /\ request[ownToken[p]].proxy = p
  /\ \A p \in Proxy : trying[p] \in Call =>
        Issued(trying[p]) /\ request[trying[p]].proxy = p

LEMMA IdentitySend ==
  ASSUME TypeOK, IdentityInv, NEW p \in Proxy, NEW r \in Call, NEW o, NEW t, Send(p, r, o, t),
         t \in Call => t = r \/ (Issued(t) /\ request[t].proxy = p),
         waiting' \in {waiting, [waiting EXCEPT ![p] = r]},
         trying' \in {trying, [trying EXCEPT ![p] = t]}
  PROVE  IdentityInv'
<1> USE DEF Issued
<1>1. /\ request' = [request EXCEPT ![r] = [proxy |-> p, op |-> o, token |-> t]]
      /\ future' = [future EXCEPT ![r] = NoReply]
      /\ registered' = registered \cup {r}
      /\ ownToken' = ownToken
      /\ ~Issued(r)
  BY DEF Send, Fresh, Issued
<1>2. future'[r].state # "UNUSED" /\ \A s \in Call : Issued(s) => s # r /\ future'[s].state # "UNUSED" /\ request'[s] = request[s]
  BY <1>1 DEF Issued, TypeOK, NoReply
<1>3. request'[r].proxy = p /\ request'[r].token = t
  BY <1>1 DEF TypeOK
<1>4. \A s \in Call : future'[s].state = "UNUSED" => request'[s] = NoRequest
  BY <1>1, <1>2 DEF IdentityInv, Issued, TypeOK, NoReply
<1>5. \A s \in registered' : future'[s].state # "UNUSED"
  BY <1>1, <1>2 DEF IdentityInv, TypeOK
<1>6. ASSUME NEW s \in Call, request'[s].token \in Call
      PROVE  future'[request'[s].token].state # "UNUSED" /\ request'[request'[s].token].proxy = request'[s].proxy
  <2>1. CASE s = r
    BY <1>2, <1>3, <1>6, <2>1
  <2>2. CASE s # r
    <3>1. request'[s] = request[s]
      BY <1>1, <2>2 DEF TypeOK
    <3>2. Issued(request[s].token) /\ request[request[s].token].proxy = request[s].proxy
      BY <1>6, <3>1 DEF IdentityInv
    <3> QED BY <1>2, <1>6, <3>1, <3>2
  <2> QED BY <2>1, <2>2
<1>7. ASSUME NEW q \in Proxy
      PROVE  /\ waiting'[q] \in Call => future'[waiting'[q]].state # "UNUSED" /\ request'[waiting'[q]].proxy = q
             /\ trying'[q] \in Call => future'[trying'[q]].state # "UNUSED" /\ request'[trying'[q]].proxy = q
             /\ ownToken'[q] \in Call => future'[ownToken'[q]].state # "UNUSED" /\ request'[ownToken'[q]].proxy = q
  <2>1. waiting'[q] = waiting[q] \/ (q = p /\ waiting'[q] = r)
    BY DEF TypeOK
  <2>2. trying'[q] = trying[q] \/ (q = p /\ trying'[q] = t)
    BY DEF TypeOK
  <2> QED BY <1>1, <1>2, <1>3, <2>1, <2>2 DEF IdentityInv
<1> QED BY <1>4, <1>5, <1>6, <1>7 DEF IdentityInv

LEMMA IdentityClientCall ==
  ASSUME TypeOK, IdentityInv, NEW p \in Proxy, NEW r \in Call, ClientCall(p, r)
  PROVE  IdentityInv'
<1>1. CASE CallMethod(p, r) \/ CallNonBlocking(p, r) \/ ForceUnlock(p, r) \/ IsLocked(p, r)
  <2>1. ownToken[p] \in Call => Issued(ownToken[p]) /\ request[ownToken[p]].proxy = p
    BY DEF IdentityInv
  <2> QED
    BY <1>1, <2>1, IdentitySend DEF CallMethod, CallNonBlocking, ForceUnlock, IsLocked
<1>2. CASE WaitFuture(p, r)
  <2>1. /\ waiting' = [waiting EXCEPT ![p] = r]
        /\ request' = request /\ future' = future /\ registered' = registered
        /\ ownToken' = ownToken /\ trying' = trying
        /\ Issued(r) /\ request[r].proxy = p
    BY <1>2 DEF WaitFuture, callVars, IdentityInv
  <2> QED BY <2>1 DEF IdentityInv, Issued, TypeOK
<1>3. CASE Lock(p, r)
  <2>1. PICK t \in {r} \cup CustomToken :
           /\ Send(p, r, "ACQUIRE", t)
           /\ waiting' = [waiting EXCEPT ![p] = r]
           /\ trying' = [trying EXCEPT ![p] = t]
    BY <1>3 DEF Lock
  <2>2. t \in Call => t = r
    BY TokenAssumption
  <2> QED BY <2>1, <2>2, IdentitySend
<1>4. CASE RetryLock(p, r)
  <2>1. trying[p] \in Call => Issued(trying[p]) /\ request[trying[p]].proxy = p
    BY DEF IdentityInv
  <2> QED BY <1>4, <2>1, IdentitySend DEF RetryLock
<1>5. CASE Unlock(p, r)
  <2>1. PICK t \in {ownToken[p]} \cup CustomToken :
           /\ Send(p, r, "RELEASE", t)
           /\ waiting' = [waiting EXCEPT ![p] = r]
           /\ UNCHANGED trying
    BY <1>5 DEF Unlock
  <2>2. t \in Call => Issued(t) /\ request[t].proxy = p
    BY TokenAssumption DEF IdentityInv
  <2> QED BY <2>1, <2>2, IdentitySend
<1> QED BY <1>1, <1>2, <1>3, <1>4, <1>5 DEF ClientCall

\* A step that is not a call: the client of p stops waiting or trying, or takes
\* over the token of the request it waited for.
KeepsTokens(p) ==
  /\ waiting'[p] \in {waiting[p], NoCall}
  /\ trying'[p] \in {trying[p], NoToken}
  /\ \/ ownToken'[p] \in {ownToken[p], NoToken}
     \/ waiting[p] \in Call /\ ownToken'[p] = request[waiting[p]].token

\* Whatever else happens to the futures, calls stay made.
LEMMA IdentityRest ==
  ASSUME TypeOK, IdentityInv, request' = request, registered' \subseteq registered,
         \A r \in Call : (future[r].state = "UNUSED") = (future'[r].state = "UNUSED"),
         \A p \in Proxy : KeepsTokens(p)
  PROVE  IdentityInv'
<1> USE DEF Issued, KeepsTokens
<1>1. NoToken \notin Call /\ NoCall \notin Call
  BY ConstantFacts DEF Assumptions, Token
<1>2. registered \subseteq Call
  BY DEF TypeOK
<1>3. ASSUME NEW q \in Proxy, ownToken'[q] \in Call
      PROVE  future'[ownToken'[q]].state # "UNUSED" /\ request[ownToken'[q]].proxy = q
  <2>1. CASE ownToken'[q] = ownToken[q]
    BY <1>3, <2>1 DEF IdentityInv
  <2>2. CASE waiting[q] \in Call /\ ownToken'[q] = request[waiting[q]].token
    BY <1>3, <2>2 DEF IdentityInv
  <2> QED BY <1>1, <1>3, <2>1, <2>2
<1>4. ASSUME NEW q \in Proxy
      PROVE  /\ waiting'[q] \in Call => future'[waiting'[q]].state # "UNUSED" /\ request[waiting'[q]].proxy = q
             /\ trying'[q] \in Call => future'[trying'[q]].state # "UNUSED" /\ request[trying'[q]].proxy = q
  BY <1>1, <1>4 DEF IdentityInv
<1> QED BY <1>2, <1>3, <1>4 DEF IdentityInv

\* An answer never makes or unmakes a call, and reaches its own future only.
LEMMA AnswerEffect ==
  ASSUME TypeOK, NEW r \in Call, NEW v \in Reply, NEW s \in Call
  PROVE  /\ Answer(future, r, v)[s] \in {future[s], v}
         /\ s # r => Answer(future, r, v)[s] = future[s]
         /\ future[s].state # "NO_RESULT_YET" => Answer(future, r, v)[s] = future[s]
         /\ (future[s].state = "UNUSED") = (Answer(future, r, v)[s].state = "UNUSED")
  BY DEF Answer, TypeOK, Reply, FutureState

\* What the steps that are not a client's call do to the calls.
LEMMA FutureEffect ==
  ASSUME BaseInv, [Next]_vars,
         ~(\E p \in Proxy, r \in Call : ClientCall(p, r) /\ ~WaitFuture(p, r))
  PROVE  /\ request' = request
         /\ registered' \subseteq registered
         /\ \A s \in Call :
               /\ future'[s] # future[s] =>
                     /\ future[s].state = "NO_RESULT_YET"
                     /\ \/ future'[s] = ErrorReply
                        \/ pc = "replying" /\ s = current /\ future'[s] = reply
               /\ (future[s].state = "UNUSED") = (future'[s].state = "UNUSED")
<1> USE DEF BaseInv
<1>1. ASSUME UNCHANGED callVars
      PROVE  request' = request /\ registered' = registered /\ future' = future
  BY <1>1 DEF callVars
<1>2. ASSUME NEW p \in Proxy, NEW r \in Call, WaitFuture(p, r)
      PROVE  UNCHANGED callVars
  BY <1>2 DEF WaitFuture
<1>3. ASSUME NEW p \in Proxy, Return(p) \/ TimeOut(p) \/ GiveUpLock(p)
      PROVE  request' = request /\ registered' \subseteq registered /\ future' = future
  BY <1>3 DEF Return, TimeOut, GiveUpLock, callVars
<1>4. ASSUME NEW p \in Proxy, Deliver(p)
      PROVE  /\ request' = request /\ registered' = registered
             /\ \/ future' = future
                \/ \E r \in Call : future' = Answer(future, r, ErrorReply)
  <2>1. CASE FindHandler(p) \/ PushRequest(p)
    BY <2>1 DEF FindHandler, PushRequest, callVars
  <2>2. CASE UnknownDestination(p) \/ AlreadyStopped(p)
    <3>1. outbox[p] # <<>> /\ Undeliverable(p)
      BY <2>2 DEF UnknownDestination, AlreadyStopped, LocatedInv
    <3>2. Head(outbox[p]) \in Call
      BY <3>1, TailType DEF TypeOK
    <3> QED BY <3>1, <3>2 DEF Undeliverable
  <2> QED BY <1>4, <2>1, <2>2 DEF Deliver
<1>5. ASSUME NEW p \in Proxy, ConnectionLost(p)
      PROVE  /\ request' = request /\ registered' = registered
             /\ \A s \in Call : future'[s] # future[s] =>
                   future[s].state = "NO_RESULT_YET" /\ future'[s] = ErrorReply
  BY <1>5 DEF ConnectionLost
<1>6. CASE Context
  BY <1>1, <1>6 DEF Context, EnterInMap, Register, MakeFails, Unregister, StopRunning,
     RequestShutdown, Join
<1>7. ASSUME Thread
      PROVE  /\ request' = request /\ registered' = registered
             /\ \/ future' = future
                \/ pc = "replying" /\ current \in Call /\ future' = Answer(future, current, reply)
                \/ \E r \in Call : future' = Answer(future, r, ErrorReply)
  <2>1. CASE MakeObject \/ TakeRequest \/ SeeShutdown \/ Handle \/ ReleaseObject
    BY <1>1, <2>1 DEF MakeObject, TakeRequest, SeeShutdown, Handle, InvokeMethod, RefuseMethod, Acquire,
       Release, ForceRelease, ForceReleaseUnlocked, Query, Conclude, ReleaseObject
  <2>2. CASE SendReply
    BY <2>2 DEF SendReply, CurrentInv
  <2>3. CASE RejectRequest
    BY <2>3, TailType DEF RejectRequest, TypeOK
  <2> QED BY <1>7, <2>1, <2>2, <2>3 DEF Thread
<1>8. reply \in Reply /\ ErrorReply \in Reply /\ ErrorReply.state # "UNUSED"
  BY ReplyTypes DEF TypeOK, ErrorReply
<1>9. ASSUME request' = request, registered' \subseteq registered,
             \/ future' = future
             \/ pc = "replying" /\ current \in Call /\ future' = Answer(future, current, reply)
             \/ \E r \in Call : future' = Answer(future, r, ErrorReply)
      PROVE  \A s \in Call :
               /\ future'[s] # future[s] =>
                     /\ future[s].state = "NO_RESULT_YET"
                     /\ \/ future'[s] = ErrorReply
                        \/ pc = "replying" /\ s = current /\ future'[s] = reply
               /\ (future[s].state = "UNUSED") = (future'[s].state = "UNUSED")
  BY <1>8, <1>9, AnswerEffect
<1>10. CASE UNCHANGED vars
  BY <1>1, <1>10 DEF vars
<1>11. CASE Next
  <2>1. CASE \E p \in Proxy, r \in Call : ClientCall(p, r)
    BY <1>1, <1>2, <2>1
  <2>2. CASE \E p \in Proxy : Return(p) \/ TimeOut(p) \/ GiveUpLock(p)
    BY <1>3, <2>2
  <2>3. CASE \E p \in Proxy : Deliver(p)
    BY <1>4, <1>9, <2>3
  <2>4. CASE \E p \in Proxy : ConnectionLost(p)
    BY <1>5, <1>8, <2>4
  <2>5. CASE Thread
    BY <1>7, <1>9, <2>5
  <2> QED BY <1>1, <1>6, <1>11, <2>1, <2>2, <2>3, <2>4, <2>5 DEF Next
<1> QED BY <1>10, <1>11

LEMMA IdentityStep ==
  ASSUME BaseInv, IdentityInv, [Next]_vars
  PROVE  IdentityInv'
<1> USE DEF BaseInv
<1>1. CASE \E p \in Proxy, r \in Call : ClientCall(p, r)
  BY <1>1, IdentityClientCall
<1>2. CASE ~(\E p \in Proxy, r \in Call : ClientCall(p, r))
  <2>1. /\ request' = request
        /\ registered' \subseteq registered
        /\ \A r \in Call : (future[r].state = "UNUSED") = (future'[r].state = "UNUSED")
    BY <1>2, FutureEffect
  <2>2. ASSUME NEW p \in Proxy
        PROVE  KeepsTokens(p)
    <3>1. ASSUME UNCHANGED clientVars
          PROVE  waiting' = waiting /\ trying' = trying /\ ownToken' = ownToken
      BY <3>1 DEF clientVars
    <3>2. ASSUME NEW q \in Proxy, Return(q)
          PROVE  /\ waiting[q] \in Call
                 /\ waiting' = [waiting EXCEPT ![q] = NoCall]
                 /\ trying'[p] \in {trying[p], NoToken}
                 /\ \/ ownToken'[p] \in {ownToken[p], NoToken}
                    \/ waiting[p] \in Call /\ ownToken'[p] = request[waiting[p]].token
      <4>1. waiting[q] \in Call
        BY <3>2 DEF Return, TypeOK
      <4>2. waiting' = [waiting EXCEPT ![q] = NoCall]
        BY <3>2 DEF Return
      <4>3. trying'[p] \in {trying[p], NoToken}
        BY <3>2 DEF Return, TypeOK
      <4>4. ownToken'[p] = ownToken[p] \/ (p = q /\ ownToken'[p] \in {NoToken, request[waiting[q]].token})
        BY <3>2 DEF Return, TypeOK
      <4> QED BY <4>1, <4>2, <4>3, <4>4
    <3>3. ASSUME NEW q \in Proxy, TimeOut(q) \/ GiveUpLock(q)
          PROVE  /\ waiting' \in {waiting, [waiting EXCEPT ![q] = NoCall]}
                 /\ trying' \in {trying, [trying EXCEPT ![q] = NoToken]}
                 /\ ownToken' = ownToken
      BY <3>3 DEF TimeOut, GiveUpLock
    <3>4. ASSUME NEW q \in Proxy, Deliver(q) \/ ConnectionLost(q)
          PROVE  UNCHANGED clientVars
      BY <3>4 DEF Deliver, FindHandler, UnknownDestination, PushRequest, AlreadyStopped, Undeliverable,
         ConnectionLost
    <3>5. Context => UNCHANGED clientVars
      BY DEF Context, EnterInMap, Register, MakeFails, Unregister, StopRunning, RequestShutdown, Join
    <3>6. Thread => UNCHANGED clientVars
      BY DEF Thread, MakeObject, TakeRequest, SeeShutdown, Handle, InvokeMethod, RefuseMethod, Acquire,
         Release, ForceRelease, ForceReleaseUnlocked, Query, Conclude, SendReply, RejectRequest, ReleaseObject
    <3>7. UNCHANGED vars => UNCHANGED clientVars
      BY DEF vars
    <3> QED
      BY <1>2, <3>1, <3>2, <3>3, <3>4, <3>5, <3>6, <3>7 DEF Next, TypeOK, KeepsTokens
  <2> QED BY <2>1, <2>2, IdentityRest
<1> QED BY <1>1, <1>2

LEMMA IdentityInit == Init => IdentityInv
<1> SUFFICES ASSUME Init PROVE IdentityInv
  OBVIOUS
<1> QED BY ConstantFacts DEF Assumptions, Token, Init, IdentityInv, Issued, NoRequest

\* Once a call is made its request is fixed.
LEMMA IssuedStable ==
  ASSUME BaseInv, [Next]_vars, NEW r \in Call, Issued(r)
  PROVE  future'[r].state # "UNUSED" /\ request'[r] = request[r]
<1> USE DEF BaseInv, Issued
<1>1. ASSUME NEW p, NEW s, NEW o, NEW t, Send(p, s, o, t)
      PROVE  future'[r].state # "UNUSED" /\ request'[r] = request[r]
  BY <1>1 DEF Send, Fresh, NoReply, TypeOK
<1>2. CASE \E p \in Proxy, s \in Call : ClientCall(p, s) /\ ~WaitFuture(p, s)
  BY <1>1, <1>2 DEF ClientCall, CallMethod, CallNonBlocking, Lock, RetryLock, Unlock, ForceUnlock, IsLocked
<1>3. CASE ~(\E p \in Proxy, s \in Call : ClientCall(p, s) /\ ~WaitFuture(p, s))
  BY <1>3, FutureEffect
<1> QED BY <1>2, <1>3

-----------------------------------------------------------------------------
(* Where requests are *)

LEMMA RangeAppend ==
  ASSUME NEW s \in Seq(Call), NEW e \in Call
  PROVE  Range(Append(s, e)) = Range(s) \cup {e}
<1>1. DOMAIN Append(s, e) = 1 .. Len(s) + 1 /\ DOMAIN s = 1 .. Len(s) /\ Len(s) \in Nat
  OBVIOUS
<1>2. \A i \in 1 .. Len(s) : Append(s, e)[i] = s[i]
  OBVIOUS
<1>3. Append(s, e)[Len(s) + 1] = e
  OBVIOUS
<1> QED BY <1>1, <1>2, <1>3 DEF Range

LEMMA RangeTail ==
  ASSUME NEW s \in Seq(Call), s # <<>>
  PROVE  Range(s) = Range(Tail(s)) \cup {Head(s)}
<1>1. DOMAIN s = 1 .. Len(s) /\ Len(s) \in Nat /\ Len(s) > 0 /\ Head(s) = s[1]
  OBVIOUS
<1>2. DOMAIN Tail(s) = 1 .. Len(s) - 1
  OBVIOUS
<1>3. \A i \in 1 .. Len(s) - 1 : Tail(s)[i] = s[i + 1]
  OBVIOUS
<1>4. Range(s) \subseteq Range(Tail(s)) \cup {Head(s)}
  <2>1. ASSUME NEW i \in 1 .. Len(s), i # 1
        PROVE  i - 1 \in 1 .. Len(s) - 1 /\ Tail(s)[i - 1] = s[i]
    BY <1>1, <1>3, <2>1
  <2> QED BY <1>1, <1>2, <2>1 DEF Range
<1>5. Range(Tail(s)) \cup {Head(s)} \subseteq Range(s)
  <2>1. \A i \in 1 .. Len(s) - 1 : i + 1 \in 1 .. Len(s)
    BY <1>1
  <2> QED BY <1>1, <1>2, <1>3, <2>1 DEF Range
<1> QED BY <1>4, <1>5

LEMMA RangePrefix ==
  ASSUME NEW s \in Seq(Call), NEW k \in 0 .. Len(s)
  PROVE  Range(SubSeq(s, 1, k)) \subseteq Range(s)
<1>1. DOMAIN s = 1 .. Len(s) /\ Len(s) \in Nat
  OBVIOUS
<1>2. DOMAIN SubSeq(s, 1, k) = 1 .. k /\ \A i \in 1 .. k : SubSeq(s, 1, k)[i] = s[i]
  BY <1>1
<1> QED BY <1>1, <1>2 DEF Range

\* Only calls that were made travel, the ones in an outbox belong to its proxy,
\* and the thread judges no others.
PlacedInv ==
  /\ \A p \in Proxy : \A r \in Range(outbox[p]) : Issued(r) /\ request[r].proxy = p
  /\ \A r \in Range(fifo) : Issued(r)
  /\ current \in Call => Issued(current)
  /\ \A r \in Call : verdict[r] # NoReply => Issued(r)

LEMMA RangeCall ==
  ASSUME TypeOK
  PROVE  /\ \A p \in Proxy : outbox[p] \in Seq(Call) /\ Range(outbox[p]) \subseteq Call
         /\ fifo \in Seq(Call) /\ Range(fifo) \subseteq Call
  BY DEF TypeOK, Range

\* How requests move in a step: calls enter an outbox when they are made, go
\* from an outbox to the queue and from the queue to the hands of the thread.
LEMMA MoveEffect ==
  ASSUME BaseInv, [Next]_vars
  PROVE  /\ \A p \in Proxy : \A r \in Range(outbox'[p]) :
               \/ r \in Range(outbox[p])
               \/ r \in Call /\ future'[r].state # "UNUSED" /\ request'[r].proxy = p
         /\ \A r \in Range(fifo') : r \in Range(fifo) \/ \E p \in Proxy : r \in Range(outbox[p])
         /\ current' \in {NoCall, current} \cup Range(fifo)
         /\ \A r \in Call : verdict'[r] = verdict[r] \/ r = current
<1> USE DEF BaseInv
<1> USE RangeCall
<1>1. ASSUME UNCHANGED <<outbox, fifo, current, verdict>>
      PROVE  /\ \A p \in Proxy : outbox'[p] = outbox[p]
             /\ fifo' = fifo /\ current' = current /\ verdict' = verdict
  BY <1>1
<1>2. ASSUME NEW p \in Proxy, NEW r \in Call, NEW o, NEW t, Send(p, r, o, t)
      PROVE  /\ \A q \in Proxy : \A s \in Range(outbox'[q]) :
                   \/ s \in Range(outbox[q])
                   \/ s \in Call /\ future'[s].state # "UNUSED" /\ request'[s].proxy = q
             /\ fifo' = fifo /\ current' = current /\ verdict' = verdict
  <2>1. outbox' = [outbox EXCEPT ![p] = Append(@, r)]
    BY <1>2 DEF Send
  <2>2. future'[r].state # "UNUSED" /\ request'[r].proxy = p
    BY <1>2 DEF Send, NoReply, TypeOK
  <2>3. fifo' = fifo /\ current' = current /\ verdict' = verdict
    BY <1>2 DEF Send, threadVars, history
  <2>4. outbox'[p] = Append(outbox[p], r) /\ \A q \in Proxy \ {p} : outbox'[q] = outbox[q]
    BY <2>1 DEF TypeOK
  <2>5. Range(outbox'[p]) = Range(outbox[p]) \cup {r}
    BY <2>4, RangeAppend
  <2> QED BY <2>2, <2>3, <2>4, <2>5
<1>3. ASSUME NEW p \in Proxy, NEW r \in Call, ClientCall(p, r), ~WaitFuture(p, r)
      PROVE  \E o, t : Send(p, r, o, t)
  BY <1>3 DEF ClientCall, CallMethod, CallNonBlocking, Lock, RetryLock, Unlock, ForceUnlock, IsLocked
<1>4. ASSUME NEW p \in Proxy, NEW r \in Call, WaitFuture(p, r)
      PROVE  UNCHANGED <<outbox, fifo, current, verdict>>
  BY <1>4 DEF WaitFuture, wireVars, threadVars, history
<1>5. ASSUME NEW p \in Proxy, Return(p) \/ TimeOut(p) \/ GiveUpLock(p) \/ FindHandler(p)
      PROVE  UNCHANGED <<outbox, fifo, current, verdict>>
  BY <1>5 DEF Return, TimeOut, GiveUpLock, FindHandler, wireVars, threadVars, history
<1>6. ASSUME NEW p \in Proxy, UnknownDestination(p) \/ PushRequest(p) \/ AlreadyStopped(p)
      PROVE  /\ outbox[p] # <<>>
             /\ outbox' = [outbox EXCEPT ![p] = Tail(@)]
             /\ \/ fifo' = fifo
                \/ fifo' = Append(fifo, Head(outbox[p]))
             /\ current' = current /\ verdict' = verdict
  BY <1>6 DEF UnknownDestination, PushRequest, AlreadyStopped, Undeliverable, LocatedInv, threadVars, history
<1>7. ASSUME NEW p \in Proxy, outbox[p] # <<>>, outbox' = [outbox EXCEPT ![p] = Tail(@)],
             fifo' = fifo \/ fifo' = Append(fifo, Head(outbox[p]))
      PROVE  /\ \A q \in Proxy : Range(outbox'[q]) \subseteq Range(outbox[q])
             /\ \A r \in Range(fifo') : r \in Range(fifo) \/ r \in Range(outbox[p])
  <2>1. outbox[p] \in Seq(Call) /\ Head(outbox[p]) \in Call /\ Head(outbox[p]) \in Range(outbox[p])
    BY <1>7, TailType, RangeTail
  <2>2. Range(outbox'[p]) \subseteq Range(outbox[p]) /\ \A q \in Proxy \ {p} : outbox'[q] = outbox[q]
    BY <1>7, <2>1, RangeTail DEF TypeOK
  <2>3. CASE fifo' = fifo
    BY <2>2, <2>3
  <2>4. CASE fifo' = Append(fifo, Head(outbox[p]))
    <3>1. Range(fifo') = Range(fifo) \cup {Head(outbox[p])}
      BY <2>1, <2>4, RangeAppend
    <3> QED BY <2>1, <2>2, <3>1
  <2> QED BY <1>7, <2>3, <2>4
<1>8. ASSUME NEW p \in Proxy, ConnectionLost(p)
      PROVE  /\ \A q \in Proxy : Range(outbox'[q]) \subseteq Range(outbox[q])
             /\ fifo' = fifo /\ current' = current /\ verdict' = verdict
  <2>1. PICK k \in 0 .. Len(outbox[p]) : outbox' = [outbox EXCEPT ![p] = SubSeq(@, 1, k)]
    BY <1>8 DEF ConnectionLost
  <2>2. outbox'[p] = SubSeq(outbox[p], 1, k) /\ \A q \in Proxy \ {p} : outbox'[q] = outbox[q]
    BY <2>1 DEF TypeOK
  <2> QED BY <1>8, <2>2, RangePrefix DEF ConnectionLost, threadVars, history
<1>9. CASE Context \/ UNCHANGED vars
  BY <1>1, <1>9 DEF Context, EnterInMap, Register, MakeFails, Unregister, StopRunning,
     RequestShutdown, Join, wireVars, threadVars, history, vars
<1>10. CASE Thread
  <2>1. outbox' = outbox
    BY <1>10 DEF Thread, MakeObject, TakeRequest, SeeShutdown, Handle, InvokeMethod, RefuseMethod, Acquire,
       Release, ForceRelease, ForceReleaseUnlocked, Query, Conclude, SendReply, RejectRequest,
       ReleaseObject, wireVars
  <2>2. \/ fifo' = fifo /\ current' \in {NoCall, current}
        \/ fifo # <<>> /\ fifo' = Tail(fifo) /\ current' \in {current, Head(fifo)}
    BY <1>10 DEF Thread, MakeObject, TakeRequest, SeeShutdown, Handle, InvokeMethod, RefuseMethod, Acquire,
       Release, ForceRelease, ForceReleaseUnlocked, Query, Conclude, SendReply, RejectRequest,
       ReleaseObject
  <2>3. \A r \in Call : verdict'[r] = verdict[r] \/ r = current
    BY <1>10 DEF Thread, MakeObject, TakeRequest, SeeShutdown, Handle, InvokeMethod, RefuseMethod, Acquire,
       Release, ForceRelease, ForceReleaseUnlocked, Query, Conclude, SendReply, RejectRequest,
       ReleaseObject, history, TypeOK
  <2>4. Range(fifo') \subseteq Range(fifo) /\ current' \in {NoCall, current} \cup Range(fifo)
    BY <2>2, RangeTail
  <2> QED BY <2>1, <2>3, <2>4
<1> QED
  <2>1. CASE \E p \in Proxy, r \in Call : ClientCall(p, r)
    BY <1>1, <1>2, <1>3, <1>4, <2>1
  <2>2. CASE \E p \in Proxy : Return(p) \/ TimeOut(p) \/ GiveUpLock(p) \/ Deliver(p)
    BY <1>1, <1>5, <1>6, <1>7, <2>2 DEF Deliver
  <2>3. CASE \E p \in Proxy : ConnectionLost(p)
    BY <1>8, <2>3
  <2>4. CASE UNCHANGED <<outbox, fifo, current, verdict>>
    BY <1>1, <2>4
  <2> QED BY <1>9, <1>10, <2>1, <2>2, <2>3 DEF Next

LEMMA PlacedStep ==
  ASSUME BaseInv, PlacedInv, [Next]_vars
  PROVE  PlacedInv'
<1> USE RangeCall DEF BaseInv
<1>1. \A r \in Call : Issued(r) => future'[r].state # "UNUSED" /\ request'[r] = request[r]
  BY IssuedStable
<1>2. ASSUME NEW p \in Proxy, NEW r \in Range(outbox'[p])
      PROVE  future'[r].state # "UNUSED" /\ request'[r].proxy = p
  BY <1>1, <1>2, MoveEffect DEF PlacedInv
<1>3. ASSUME NEW r \in Range(fifo')
      PROVE  future'[r].state # "UNUSED"
  BY <1>1, <1>3, MoveEffect DEF PlacedInv
<1>4. current' \in Call => future'[current'].state # "UNUSED"
  BY <1>1, ConstantFacts, MoveEffect DEF PlacedInv, Assumptions
<1>5. ASSUME NEW r \in Call, verdict'[r] # NoReply
      PROVE  future'[r].state # "UNUSED"
  BY <1>1, <1>5, MoveEffect DEF PlacedInv
<1> QED BY <1>2, <1>3, <1>4, <1>5 DEF PlacedInv, Issued

-----------------------------------------------------------------------------
(* The lock *)

\* Some lock() call was, or is about to be, told that it got token t.
Told(t) ==
  \E r \in Call :
    /\ request[r].op = "ACQUIRE" /\ request[r].token = t
    /\ verdict[r] = ValueReply(t) \/ future[r] = ValueReply(t)

\* A call of lock() has the answer that token t was granted.
Granted(t) ==
  \E r \in Call :
    request[r].op = "ACQUIRE" /\ request[r].token = t /\ future[r] = ValueReply(t)

\* Some call asks to give token t back.
GivenBack(t) == \E r \in Call : request[r].op = "RELEASE" /\ request[r].token = t

\* A granted unique token locks the object until it is given back or broken.
\* Without the clause on verdicts this would not be inductive: the grant is
\* decided before the client hears of it.
LockInv ==
  /\ \A t \in Call : Told(t) /\ t \notin forced /\ ~GivenBack(t) => lockingToken = t
  /\ \A p \in Proxy : ownToken[p] \in Call => Granted(ownToken[p])

SafetyInv == BaseInv /\ IdentityInv /\ PlacedInv /\ LockInv

\* A new call changes neither the past grants nor adds one.
LEMMA LockSend ==
  ASSUME SafetyInv, NEW p \in Proxy, NEW r \in Call, NEW o, NEW t, Send(p, r, o, t)
  PROVE  /\ \A u \in Call : Told(u)' => Told(u)
         /\ \A u \in Call : GivenBack(u) => GivenBack(u)'
         /\ \A u \in Call : Granted(u) => Granted(u)'
         /\ lockingToken' = lockingToken /\ forced' = forced /\ ownToken' = ownToken
<1> USE DEF SafetyInv, BaseInv
<1>1. /\ request' = [request EXCEPT ![r] = [proxy |-> p, op |-> o, token |-> t]]
      /\ future' = [future EXCEPT ![r] = NoReply]
      /\ verdict' = verdict /\ lockingToken' = lockingToken /\ forced' = forced /\ ownToken' = ownToken
      /\ ~Issued(r)
  BY DEF Send, Fresh, Issued, threadVars, history
<1>2. \A s \in Call : s # r => request'[s] = request[s] /\ future'[s] = future[s]
  BY <1>1 DEF TypeOK
<1>3. verdict[r] = NoReply /\ future'[r] = NoReply /\ request[r] = NoRequest /\ future[r].state = "UNUSED"
  BY <1>1 DEF PlacedInv, IdentityInv, TypeOK, Issued
<1>4. \A u : NoReply # ValueReply(u)
  BY DEF NoReply, ValueReply
<1>5. ASSUME NEW u \in Call, Told(u)'
      PROVE  Told(u)
  <2>1. PICK s \in Call : /\ request'[s].op = "ACQUIRE" /\ request'[s].token = u
                          /\ verdict'[s] = ValueReply(u) \/ future'[s] = ValueReply(u)
    BY <1>5 DEF Told, ValueReply
  <2>2. s # r
    BY <2>1, <1>1, <1>3, <1>4
  <2> QED BY <1>1, <1>2, <2>1, <2>2 DEF Told
<1>6. ASSUME NEW u \in Call, GivenBack(u)
      PROVE  GivenBack(u)'
  BY <1>2, <1>3, <1>6 DEF GivenBack, NoRequest
<1>7. ASSUME NEW u \in Call, Granted(u)
      PROVE  Granted(u)'
  <2>1. PICK s \in Call : request[s].op = "ACQUIRE" /\ request[s].token = u /\ future[s] = ValueReply(u)
    BY <1>7 DEF Granted
  <2>2. s # r
    BY <2>1, <1>3 DEF NoRequest
  <2>3. request'[s].op = "ACQUIRE" /\ request'[s].token = u /\ future'[s] = ValueReply(u)
    BY <1>2, <2>1, <2>2
  <2> QED BY <2>3 DEF Granted, ValueReply
<1> QED BY <1>1, <1>5, <1>6, <1>7

\* Where nobody calls and the thread decides nothing, grants only become known.
LEMMA LockQuiet ==
  ASSUME SafetyInv, [Next]_vars, ~(\E p \in Proxy, r \in Call : ClientCall(p, r) /\ ~WaitFuture(p, r)),
         UNCHANGED <<verdict, lockingToken, forced>>
  PROVE  /\ \A u \in Call : Told(u)' => Told(u)
         /\ \A u \in Call : GivenBack(u)' = GivenBack(u)
         /\ \A u \in Call : Granted(u) => Granted(u)'
<1> USE DEF SafetyInv
<1>1. request' = request
  BY FutureEffect
<1>2. \A s \in Call : future'[s] # future[s] =>
         /\ future[s].state = "NO_RESULT_YET"
         /\ \/ future'[s] = ErrorReply
            \/ pc = "replying" /\ s = current /\ future'[s] = reply
  BY FutureEffect
<1>3. pc = "replying" => reply = verdict[current]
  BY DEF BaseInv, CurrentInv
<1>4. \A u : ErrorReply # ValueReply(u) /\ ValueReply(u).state = "RESULT_IS_VALUE"
  BY DEF ErrorReply, ValueReply
<1>5. ASSUME NEW u \in Call, Told(u)'
      PROVE  Told(u)
  <2>1. PICK s \in Call : /\ request[s].op = "ACQUIRE" /\ request[s].token = u
                          /\ verdict[s] = ValueReply(u) \/ future'[s] = ValueReply(u)
    BY <1>1, <1>5 DEF Told, ValueReply
  <2>2. verdict[s] = ValueReply(u) \/ future[s] = ValueReply(u)
    BY <1>2, <1>3, <1>4, <2>1
  <2> QED BY <2>1, <2>2 DEF Told
<1>6. ASSUME NEW u \in Call
      PROVE  GivenBack(u)' = GivenBack(u)
  BY <1>1 DEF GivenBack
<1>7. ASSUME NEW u \in Call, Granted(u)
      PROVE  Granted(u)'
  <2>1. PICK s \in Call : request[s].op = "ACQUIRE" /\ request[s].token = u /\ future[s] = ValueReply(u)
    BY <1>7 DEF Granted
  <2>2. future'[s] = future[s]
    BY <1>2, <1>4, <2>1
  <2> QED BY <1>1, <2>1, <2>2 DEF Granted, ValueReply
<1> QED BY <1>5, <1>6, <1>7

\* The thread decides about the current request: the only grant it can add is
\* the one in the reply to an ACQUIRE.
LEMMA LockDecide ==
  ASSUME SafetyInv, pc = "handling", NEW v, Conclude(v)
  PROVE  /\ current \in Call
         /\ \A u \in Call : Told(u)' => Told(u) \/ (request[current].op = "ACQUIRE" /\ v = ValueReply(u))
         /\ \A u \in Call : GivenBack(u)' = GivenBack(u)
         /\ \A u \in Call : Granted(u)' = Granted(u)
         /\ ownToken' = ownToken
<1> USE DEF SafetyInv, BaseInv
<1>1. current \in Call
  BY DEF CurrentInv
<1>2. /\ request' = request /\ future' = future /\ ownToken' = ownToken
      /\ verdict' = [verdict EXCEPT ![current] = v]
  BY DEF Conclude, callVars, clientVars
<1>3. \A s \in Call : verdict'[s] = IF s = current THEN v ELSE verdict[s]
  BY <1>2 DEF TypeOK
<1>4. ASSUME NEW u \in Call, Told(u)'
      PROVE  Told(u) \/ (request[current].op = "ACQUIRE" /\ v = ValueReply(u))
  BY <1>2, <1>3, <1>4 DEF Told, ValueReply
<1> QED BY <1>1, <1>2, <1>4 DEF GivenBack, Granted, ValueReply

LEMMA LockHandle ==
  ASSUME SafetyInv, Handle
  PROVE  LockInv'
<1> USE DEF SafetyInv
<1>1. pc = "handling"
  BY DEF Handle, InvokeMethod, RefuseMethod, Acquire, Release, ForceRelease, ForceReleaseUnlocked, Query,
     Handling
<1>2. NoToken \notin Call /\ Denied \notin Call
  BY TokenAssumption DEF Token
<1>3. ASSUME NEW a, NEW b, ValueReply(a) = ValueReply(b)
      PROVE  a = b
  BY <1>3 DEF ValueReply
<1>4. CASE InvokeMethod \/ RefuseMethod \/ Query
  <2>1. PICK v : Conclude(v)
    BY <1>4 DEF InvokeMethod, RefuseMethod, Query
  <2>2. request[current].op # "ACQUIRE" /\ lockingToken' = lockingToken /\ forced' = forced
    BY <1>4 DEF InvokeMethod, RefuseMethod, Query, Handling
  <2> QED BY <1>1, <2>1, <2>2, LockDecide DEF LockInv
<1>5. CASE Acquire
  <2> DEFINE t == request[current].token
             free == lockingToken = NoToken
             v == ValueReply(IF free \/ lockingToken = t THEN t ELSE Denied)
  <2>1. /\ Conclude(v)
        /\ lockingToken' = IF free THEN t ELSE lockingToken
        /\ forced' = IF free THEN forced \ {t} ELSE forced
    BY <1>5 DEF Acquire
  <2>2. ASSUME NEW u \in Call, Told(u)', u \notin forced', ~GivenBack(u)'
        PROVE  lockingToken' = u
    <3>1. Told(u) \/ v = ValueReply(u)
      BY <1>1, <2>1, <2>2, LockDecide
    <3>2. ~GivenBack(u)
      BY <1>1, <2>1, <2>2, LockDecide
    <3>3. CASE v = ValueReply(u)
      <4>1. u = t /\ (free \/ lockingToken = t)
        BY <1>2, <1>3, <3>3
      <4> QED BY <2>1, <4>1
    <3>4. CASE Told(u) /\ u # t
      <4>1. u \notin forced
        BY <2>1, <2>2, <3>4
      <4>2. lockingToken = u
        BY <3>2, <3>4, <4>1 DEF LockInv
      <4> QED BY <1>2, <2>1, <4>2
    <3>5. CASE Told(u) /\ u = t
      <4>1. CASE free
        BY <2>1, <3>5, <4>1
      <4>2. CASE ~free
        <5>1. u \notin forced BY <2>1, <2>2, <4>2
        <5>2. lockingToken = u BY <3>2, <3>5, <5>1 DEF LockInv
        <5> QED BY <2>1, <4>2, <5>2
      <4> QED BY <4>1, <4>2
    <3> QED BY <3>1, <3>3, <3>4, <3>5
  <2>3. \A p \in Proxy : ownToken'[p] \in Call => Granted(ownToken[p])' /\ ownToken'[p] = ownToken[p]
    BY <1>1, <2>1, LockDecide DEF LockInv
  <2> QED BY <1>1, <2>1, <2>2, <2>3, LockDecide DEF LockInv
<1>6. CASE Release
  <2>1. PICK v : Conclude(v)
    BY <1>6 DEF Release
  <2>2. request[current].op = "RELEASE" /\ forced' = forced
        /\ lockingToken' = IF lockingToken = request[current].token THEN NoToken ELSE lockingToken
    BY <1>6 DEF Release, Handling
  <2>3. ASSUME NEW u \in Call, Told(u)', u \notin forced', ~GivenBack(u)'
        PROVE  lockingToken' = u
    <3>1. Told(u) /\ ~GivenBack(u) /\ current \in Call
      BY <1>1, <2>1, <2>2, <2>3, LockDecide
    <3>2. lockingToken = u
      BY <2>2, <2>3, <3>1 DEF LockInv
    <3>3. request[current].token # u
      BY <2>2, <3>1 DEF GivenBack
    <3> QED BY <2>2, <3>2, <3>3
  <2> QED BY <1>1, <2>1, <2>3, LockDecide DEF LockInv
<1>7. CASE ForceRelease
  <2>1. PICK v : Conclude(v)
    BY <1>7 DEF ForceRelease
  <2>2. request[current].op # "ACQUIRE" /\ lockingToken' = NoToken /\ forced' = forced \cup {lockingToken}
    BY <1>7 DEF ForceRelease, Handling
  <2>3. ASSUME NEW u \in Call, Told(u)', u \notin forced', ~GivenBack(u)'
        PROVE  FALSE
    <3>1. Told(u) /\ ~GivenBack(u)
      BY <1>1, <2>1, <2>2, <2>3, LockDecide
    <3> QED BY <2>2, <2>3, <3>1 DEF LockInv
  <2> QED BY <1>1, <2>1, <2>3, LockDecide DEF LockInv
<1>8. CASE ForceReleaseUnlocked
  BY <1>8 DEF ForceReleaseUnlocked, callVars, clientVars, history, LockInv, Told, Granted, GivenBack,
     ValueReply
<1> QED BY <1>4, <1>5, <1>6, <1>7, <1>8 DEF Handle

LEMMA LockStep ==
  ASSUME SafetyInv, [Next]_vars
  PROVE  LockInv'
<1> USE DEF SafetyInv
<1>1. ASSUME UNCHANGED <<verdict, lockingToken, forced>>,
             ~(\E p \in Proxy, r \in Call : ClientCall(p, r) /\ ~WaitFuture(p, r)),
             \A p \in Proxy : ownToken'[p] \in Call => ownToken'[p] = ownToken[p] \/ Granted(ownToken'[p])
      PROVE  LockInv'
  <2>1. /\ \A u \in Call : Told(u)' => Told(u)
        /\ \A u \in Call : GivenBack(u)' = GivenBack(u)
        /\ \A u \in Call : Granted(u) => Granted(u)'
    BY <1>1, LockQuiet
  <2>2. ASSUME NEW p \in Proxy, ownToken'[p] \in Call
        PROVE  Granted(ownToken[p])' \/ ownToken'[p] # ownToken[p]
    BY <2>1, <2>2 DEF LockInv
  <2>3. ASSUME NEW p \in Proxy, ownToken'[p] \in Call
        PROVE  \E u \in Call : u = ownToken'[p] /\ Granted(u)'
    <3>1. Granted(ownToken'[p])
      BY <1>1, <2>3 DEF LockInv
    <3>2. PICK u \in Call : u = ownToken'[p]
      BY <2>3
    <3> QED BY <2>1, <3>1, <3>2
  <2>4. ASSUME NEW u \in Call, Told(u)', u \notin forced', ~GivenBack(u)'
        PROVE  lockingToken' = u
    BY <1>1, <2>1, <2>4 DEF LockInv
  <2>5. ASSUME NEW p \in Proxy, ownToken'[p] \in Call
        PROVE  Granted(ownToken[p])'
    BY <2>3, <2>5 DEF Granted, ValueReply
  <2> QED BY <2>4, <2>5 DEF LockInv
<1>2. ASSUME NEW p \in Proxy, NEW r \in Call, ClientCall(p, r), ~WaitFuture(p, r)
      PROVE  LockInv'
  <2>1. \E o, t : Send(p, r, o, t)
    BY <1>2 DEF ClientCall, CallMethod, CallNonBlocking, Lock, RetryLock, Unlock, ForceUnlock, IsLocked
  <2>2. /\ \A u \in Call : Told(u)' => Told(u)
        /\ \A u \in Call : GivenBack(u) => GivenBack(u)'
        /\ \A u \in Call : Granted(u) => Granted(u)'
        /\ lockingToken' = lockingToken /\ forced' = forced /\ ownToken' = ownToken
    BY <2>1, LockSend
  <2>3. ASSUME NEW u \in Call, Told(u)', u \notin forced', ~GivenBack(u)'
        PROVE  lockingToken' = u
    BY <2>2, <2>3 DEF LockInv
  <2>4. ASSUME NEW q \in Proxy, ownToken[q] \in Call
        PROVE  Granted(ownToken[q])'
    <3>1. PICK u \in Call : u = ownToken[q]
      BY <2>4
    <3>2. Granted(u)'
      BY <2>2, <3>1 DEF LockInv
    <3> QED BY <2>2, <3>1, <3>2 DEF Granted, ValueReply
  <2> QED BY <2>2, <2>3, <2>4 DEF LockInv, Granted, ValueReply
<1>3. CASE \E p \in Proxy, r \in Call : ClientCall(p, r) /\ ~WaitFuture(p, r)
  BY <1>2, <1>3
<1>4. CASE Handle
  BY <1>4, LockHandle
<1>5. CASE /\ ~(\E p \in Proxy, r \in Call : ClientCall(p, r) /\ ~WaitFuture(p, r))
           /\ ~Handle
  <2>1. UNCHANGED <<verdict, lockingToken, forced>>
    BY <1>5 DEF Next, vars, threadVars, history, WaitFuture, Return, TimeOut, GiveUpLock, Deliver,
       FindHandler, UnknownDestination, PushRequest, AlreadyStopped, Undeliverable, ConnectionLost,
       Context, EnterInMap, Register, MakeFails, Unregister, StopRunning, RequestShutdown, Join,
       Thread, MakeObject, TakeRequest, SeeShutdown, SendReply, RejectRequest, ReleaseObject
  <2>2. ASSUME NEW p \in Proxy, Return(p)
        PROVE  \A q \in Proxy : ownToken'[q] \in Call => ownToken'[q] = ownToken[q] \/ Granted(ownToken'[q])
    <3>1. waiting[p] \in Call /\ NoToken \notin Call
      BY <2>2, ConstantFacts DEF Return, BaseInv, TypeOK, Assumptions, Token
    <3>2. \A q \in Proxy : q # p => ownToken'[q] = ownToken[q]
      BY <2>2 DEF Return, BaseInv, TypeOK
    <3> DEFINE r == waiting[p]
    <3>3. \/ ownToken'[p] \in {ownToken[p], NoToken}
          \/ /\ ownToken'[p] = request[r].token
             /\ future[r].state = "RESULT_IS_VALUE" /\ request[r].op = "ACQUIRE"
             /\ future[r].token = request[r].token
      BY <2>2 DEF Return, BaseInv, TypeOK
    <3>4. future[r] \in [state : FutureState, token : Token \cup {NoToken, Denied, Locked}]
      BY <3>1 DEF BaseInv, TypeOK
    <3>5. future[r].state = "RESULT_IS_VALUE" => future[r] = ValueReply(future[r].token)
      BY <3>4 DEF ValueReply
    <3> QED BY <3>1, <3>2, <3>3, <3>5 DEF Granted
  <2>3. CASE \E p \in Proxy : Return(p)
    BY <1>1, <1>5, <2>1, <2>2, <2>3
  <2>4. CASE ~(\E p \in Proxy : Return(p))
    <3>1. ownToken' = ownToken
      BY <1>5, <2>4 DEF Next, vars, clientVars, WaitFuture, TimeOut, GiveUpLock, Deliver,
         FindHandler, UnknownDestination, PushRequest, AlreadyStopped, Undeliverable, ConnectionLost,
         Context, EnterInMap, Register, MakeFails, Unregister, StopRunning, RequestShutdown, Join,
         Thread, MakeObject, TakeRequest, SeeShutdown, SendReply, RejectRequest, ReleaseObject
    <3> QED BY <1>1, <1>5, <2>1, <3>1
  <2> QED BY <2>3, <2>4
<1> QED BY <1>3, <1>4, <1>5

LEMMA SafetyInit == Init => SafetyInv
<1> SUFFICES ASSUME Init PROVE SafetyInv
  OBVIOUS
<1>1. BaseInv /\ IdentityInv
  BY BaseInit, IdentityInit
<1>2. PlacedInv
  BY ConstantFacts DEF Init, PlacedInv, Range, Assumptions
<1>3. LockInv
  BY ConstantFacts DEF Init, LockInv, Told, NoRequest, Assumptions, Token
<1> QED BY <1>1, <1>2, <1>3 DEF SafetyInv

LEMMA SafetyStep == SafetyInv /\ [Next]_vars => SafetyInv'
  BY BaseStep, IdentityStep, PlacedStep, LockStep DEF SafetyInv

LEMMA SafetyAlways == Spec => []SafetyInv
  BY SafetyInit, SafetyStep, PTL DEF Spec

LEMMA OwnsImpliesHolds ==
  ASSUME SafetyInv, NEW p \in Proxy, Owns(p)
  PROVE  lockingToken = ownToken[p] /\ request[ownToken[p]].proxy = p
<1>1. ownToken[p] \in Call /\ Granted(ownToken[p])
  BY DEF SafetyInv, LockInv, Owns
<1>2. Told(ownToken[p]) /\ ~GivenBack(ownToken[p])
  BY <1>1 DEF Granted, Told, GivenBack, Owns
<1> QED BY <1>1, <1>2 DEF SafetyInv, LockInv, IdentityInv, Owns

\* A client that got the lock, and has neither tried to give it back nor been
\* robbed by force_unlock(), is right to believe that it owns it.
THEOREM LockIsHeld == Spec => []OwnerHoldsLock
<1>1. SafetyInv => OwnerHoldsLock
  BY OwnsImpliesHolds DEF OwnerHoldsLock
<1> QED BY <1>1, SafetyAlways, PTL

\* While a client owns the lock, the thread invokes no other client's methods.
THEOREM LockExcludes == Spec => ExclusiveAccess
<1>1. ASSUME SafetyInv, InvokeMethod
      PROVE  \A p \in Proxy : Owns(p) => request[current].proxy = p
  <2>1. SUFFICES ASSUME NEW p \in Proxy, Owns(p) PROVE request[current].proxy = p
    OBVIOUS
  <2>2. lockingToken = ownToken[p] /\ ownToken[p] \in Call /\ request[ownToken[p]].proxy = p
    BY <1>1, <2>1, OwnsImpliesHolds DEF Owns
  <2>3. current \in Call /\ lockingToken \in {NoToken, request[current].token}
    BY <1>1 DEF InvokeMethod, Handling, MayInvoke, SafetyInv, BaseInv, CurrentInv
  <2>4. request[current].token = ownToken[p]
    BY <2>2, <2>3, ConstantFacts DEF Assumptions, Token
  <2> QED BY <1>1, <2>2, <2>3, <2>4 DEF SafetyInv, IdentityInv
<1>2. SafetyInv /\ [Next]_vars
        => [InvokeMethod => \A p \in Proxy : Owns(p) => request[current].proxy = p]_vars
  BY <1>1
<1> QED BY <1>2, SafetyAlways, PTL DEF Spec, ExclusiveAccess

-----------------------------------------------------------------------------
(* Replies and the queue *)

\* A future takes the first reply it is given and ignores whatever comes later.
THEOREM FirstReplyWins == Spec => FirstResultIsFinal
<1>1. ASSUME BaseInv, [Next]_vars, NEW r \in Call, future[r].state \notin {"UNUSED", "NO_RESULT_YET"}
      PROVE  future'[r] = future[r]
  <2>1. CASE \E p \in Proxy, s \in Call : ClientCall(p, s) /\ ~WaitFuture(p, s)
    <3>1. PICK p, s, o, t : Send(p, s, o, t)
      BY <2>1 DEF ClientCall, CallMethod, CallNonBlocking, Lock, RetryLock, Unlock, ForceUnlock, IsLocked
    <3> QED BY <1>1, <3>1 DEF Send, Fresh, BaseInv, TypeOK
  <2>2. CASE ~(\E p \in Proxy, s \in Call : ClientCall(p, s) /\ ~WaitFuture(p, s))
    BY <1>1, <2>2, FutureEffect
  <2> QED BY <2>1, <2>2
<1>2. BaseInv /\ [Next]_vars
        => [\A r \in Call : future[r].state \notin {"UNUSED", "NO_RESULT_YET"} => future'[r] = future[r]]_vars
  BY <1>1
<1> QED BY <1>2, BaseInit, BaseStep, PTL DEF Spec, FirstResultIsFinal

\* What the context thread and the RPC thread know of each other.
StopInv ==
  /\ mgr \in {"making", "mapped"} => located = {} /\ fifo = <<>>
  /\ pc = "init" => mgr = "making"
  /\ pc = "rejecting" => ShutdownRequested
  /\ pc = "ended" => fifo = <<>> /\ mgr \notin {"mapped", "up"} /\ (mgr = "removing" => located = {})

LEMMA StopStep ==
  ASSUME TypeOK, StopInv, [Next]_vars
  PROVE  StopInv'
<1> USE DEF StopInv, ShutdownRequested
<1>1. ASSUME UNCHANGED <<mgr, located, fifo, pc>>
      PROVE  StopInv'
  BY <1>1
<1>2. CASE \E p \in Proxy, r \in Call : ClientCall(p, r)
  BY <1>1, <1>2 DEF ClientCall, CallMethod, CallNonBlocking, WaitFuture, Lock, RetryLock, Unlock,
     ForceUnlock, IsLocked, Send, threadVars, wireVars
<1>3. CASE \E p \in Proxy : Return(p) \/ TimeOut(p) \/ GiveUpLock(p) \/ ConnectionLost(p)
  BY <1>1, <1>3 DEF Return, TimeOut, GiveUpLock, ConnectionLost, threadVars, wireVars
<1>4. CASE \E p \in Proxy : FindHandler(p)
  BY <1>4 DEF FindHandler, HandlerRegistered, threadVars
<1>5. CASE \E p \in Proxy : UnknownDestination(p) \/ AlreadyStopped(p)
  BY <1>5 DEF UnknownDestination, AlreadyStopped, Undeliverable, threadVars
<1>6. CASE \E p \in Proxy : PushRequest(p)
  BY <1>6 DEF PushRequest, Running, threadVars
<1>7. CASE Context
  BY <1>7 DEF Context, EnterInMap, Register, MakeFails, Unregister, StopRunning, RequestShutdown, Join,
     threadVars, wireVars
<1>8. CASE Thread
  <2>1. CASE MakeObject \/ SeeShutdown \/ ReleaseObject
    BY <2>1 DEF MakeObject, SeeShutdown, ReleaseObject, wireVars
  <2>2. CASE TakeRequest \/ RejectRequest
    BY <2>2 DEF TakeRequest, RejectRequest, wireVars
  <2>3. CASE Handle \/ SendReply
    BY <2>3 DEF Handle, InvokeMethod, RefuseMethod, Acquire, Release, ForceRelease, ForceReleaseUnlocked,
       Query, Conclude, SendReply, wireVars
  <2> QED BY <1>8, <2>1, <2>2, <2>3 DEF Thread
<1>9. CASE UNCHANGED vars
  BY <1>1, <1>9 DEF vars, wireVars, threadVars
<1> QED BY <1>2, <1>3, <1>4, <1>5, <1>6, <1>7, <1>8, <1>9 DEF Next, Deliver

\* No request is left in the queue of a thread that has returned.
THEOREM NothingLeftBehind == Spec => []NothingQueuedAfterEnd
<1>1. Init => StopInv
  BY DEF Init, StopInv
<1>2. TypeOK /\ StopInv /\ [Next]_vars => StopInv'
  BY StopStep
<1>3. StopInv => NothingQueuedAfterEnd
  BY DEF StopInv, NothingQueuedAfterEnd
<1> QED BY <1>1, <1>2, <1>3, TypeCorrect, PTL DEF Spec

-----------------------------------------------------------------------------
(* No request is lost *)

\* A step that loses nothing: every call that is still open afterwards was open
\* before, and stays where it was or moves on.
LEMMA KeepsRequests ==
  ASSUME NoRequestLost, pc # "crashed",
         \A r \in Call : Open(r)' => Open(r),
         \A r \in Call : Open(r)' /\ InQueue(r) => InQueue(r)'
  PROVE  NoRequestLost'
  BY DEF NoRequestLost

LEMMA AnswerCloses ==
  ASSUME TypeOK, NEW r \in Call, NEW v \in Reply, v.state # "NO_RESULT_YET",
         future' = Answer(future, r, v), registered' = registered
  PROVE  /\ r \in registered' => future'[r].state # "NO_RESULT_YET"
         /\ \A s \in Call : Open(s)' => Open(s)
  BY DEF Answer, Open, TypeOK

LEMMA SendKeeps ==
  ASSUME TypeOK, NoRequestLost, pc # "crashed", NEW p \in Proxy, NEW r \in Call, NEW o, NEW t,
         Send(p, r, o, t)
  PROVE  NoRequestLost'
<1> USE RangeCall
<1>1. /\ outbox' = [outbox EXCEPT ![p] = Append(@, r)] /\ fifo' = fifo /\ current' = current
      /\ future' = [future EXCEPT ![r] = NoReply] /\ registered' = registered \cup {r}
  BY DEF Send, threadVars
<1>2. \A q \in Proxy : Range(outbox'[q]) = IF q = p THEN Range(outbox[q]) \cup {r} ELSE Range(outbox[q])
  <2>1. outbox'[p] = Append(outbox[p], r) /\ \A q \in Proxy \ {p} : outbox'[q] = outbox[q]
    BY <1>1 DEF TypeOK
  <2> QED BY <2>1, RangeAppend
<1>3. InQueue(r)'
  BY <1>2 DEF InQueue
<1>4. ASSUME NEW s \in Call, s # r, Open(s)'
      PROVE  InQueue(s)'
  <2>1. Open(s)
    BY <1>1, <1>4 DEF Open, TypeOK
  <2>2. InQueue(s)
    BY <2>1 DEF NoRequestLost
  <2>3. ASSUME NEW q \in Proxy, s \in Range(outbox[q])
        PROVE  s \in Range(outbox'[q])
    BY <1>2, <2>3
  <2> QED BY <1>1, <2>2, <2>3 DEF InQueue
<1>5. ASSUME NEW s \in Call, Open(s)'
      PROVE  InQueue(s)'
  <2>1. CASE s = r
    BY <1>3, <2>1 DEF InQueue
  <2>2. CASE s # r
    BY <1>4, <1>5, <2>2 DEF InQueue, Open
  <2> QED BY <2>1, <2>2
<1> QED BY <1>5 DEF NoRequestLost, Open, InQueue

LEMMA DeliverKeeps ==
  ASSUME BaseInv, PlacedInv, NoRequestLost, pc # "crashed", NEW p \in Proxy,
         Deliver(p) \/ ConnectionLost(p)
  PROVE  NoRequestLost'
<1> USE RangeCall DEF BaseInv
<1>1. CASE FindHandler(p)
  BY <1>1, KeepsRequests DEF FindHandler, callVars, threadVars, Open, InQueue
<1>2. CASE UnknownDestination(p) \/ PushRequest(p) \/ AlreadyStopped(p)
  <2> DEFINE h == Head(outbox[p])
  <2>1. outbox[p] # <<>> /\ outbox' = [outbox EXCEPT ![p] = Tail(@)] /\ current' = current
    BY <1>2 DEF UnknownDestination, PushRequest, AlreadyStopped, Undeliverable, LocatedInv, threadVars
  <2>2. h \in Call /\ Range(outbox[p]) = Range(outbox'[p]) \cup {h}
        /\ \A q \in Proxy \ {p} : outbox'[q] = outbox[q]
    <3>1. outbox'[p] = Tail(outbox[p]) /\ \A q \in Proxy \ {p} : outbox'[q] = outbox[q]
      BY <2>1 DEF TypeOK
    <3> QED BY <2>1, <3>1, TailType, RangeTail
  <2>3. CASE PushRequest(p)
    <3>1. Range(fifo') = Range(fifo) \cup {h}
      BY <2>2, <2>3, RangeAppend DEF PushRequest
    <3>2. \A r \in Call : InQueue(r) => InQueue(r)'
      BY <2>1, <2>2, <3>1 DEF InQueue
    <3>3. \A r \in Call : Open(r)' => Open(r)
      BY <2>3 DEF PushRequest, callVars, Open
    <3> QED BY <3>2, <3>3, KeepsRequests DEF Open, InQueue
  <2>4. CASE UnknownDestination(p) \/ AlreadyStopped(p)
    <3>1. future' = Answer(future, h, ErrorReply) /\ registered' = registered /\ fifo' = fifo
      BY <2>4 DEF UnknownDestination, AlreadyStopped, Undeliverable, threadVars
    <3>2. /\ h \in registered' => future'[h].state # "NO_RESULT_YET"
          /\ \A s \in Call : Open(s)' => Open(s)
      BY <2>2, <3>1, ReplyTypes, AnswerCloses DEF ErrorReply, Open
    <3>3. \A r \in Call : Open(r)' /\ InQueue(r) => InQueue(r)'
      BY <2>1, <2>2, <3>1, <3>2 DEF InQueue, Open
    <3> QED BY <3>2, <3>3, KeepsRequests DEF Open, InQueue
  <2> QED BY <1>2, <2>3, <2>4
<1>3. CASE ConnectionLost(p)
  <2>1. /\ registered' = registered /\ fifo' = fifo /\ current' = current
        /\ \A q \in Proxy \ {p} : outbox'[q] = outbox[q]
    BY <1>3 DEF ConnectionLost, threadVars, TypeOK
  <2>2. \A r \in Call : future'[r] = IF /\ r \in registered /\ request[r].proxy = p
                                        /\ future[r].state = "NO_RESULT_YET"
                                     THEN ErrorReply ELSE future[r]
    BY <1>3 DEF ConnectionLost
  <2>3. \A r \in Call : Open(r)' => Open(r) /\ request[r].proxy # p
    BY <2>1, <2>2 DEF Open, ErrorReply
  <2>4. \A r \in Call : Open(r)' /\ InQueue(r) => InQueue(r)'
    BY <2>1, <2>3 DEF InQueue, PlacedInv
  <2> QED BY <2>3, <2>4, KeepsRequests DEF Open, InQueue
<1> QED BY <1>1, <1>2, <1>3 DEF Deliver

LEMMA ThreadKeeps ==
  ASSUME BaseInv, NoRequestLost, pc # "crashed", Thread
  PROVE  NoRequestLost'
<1> USE RangeCall DEF BaseInv
<1>1. CASE MakeObject \/ SeeShutdown \/ ReleaseObject
  BY <1>1, KeepsRequests DEF MakeObject, SeeShutdown, ReleaseObject, callVars, wireVars, Open, InQueue
<1>2. CASE TakeRequest
  <2>1. Range(fifo) = Range(fifo') \cup {current'} /\ current = NoCall
    BY <1>2, RangeTail DEF TakeRequest, CurrentInv
  <2>2. \A r \in Call : InQueue(r) => InQueue(r)'
    BY <1>2, <2>1, ConstantFacts DEF TakeRequest, wireVars, InQueue, Assumptions
  <2> QED BY <1>2, <2>2, KeepsRequests DEF TakeRequest, callVars, Open
<1>3. CASE InvokeMethod \/ RefuseMethod \/ Acquire \/ Release \/ ForceRelease \/ Query
  <2>1. \E v : Conclude(v)
    BY <1>3 DEF InvokeMethod, RefuseMethod, Acquire, Release, ForceRelease, Query
  <2> QED BY <2>1, KeepsRequests DEF Conclude, callVars, wireVars, Open, InQueue
<1>4. CASE ForceReleaseUnlocked
  BY <1>4 DEF ForceReleaseUnlocked, NoRequestLost
<1>5. CASE SendReply
  <2>1. current \in Call /\ reply \in Reply
    BY <1>5 DEF SendReply, CurrentInv, TypeOK
  <2>2. reply.state # "NO_RESULT_YET"
    BY <1>5 DEF SendReply, CurrentInv
  <2>3. /\ current \in registered' => future'[current].state # "NO_RESULT_YET"
        /\ \A s \in Call : Open(s)' => Open(s)
    BY <1>5, <2>1, <2>2, AnswerCloses DEF SendReply, Open
  <2>4. \A r \in Call : Open(r)' /\ InQueue(r) => InQueue(r)'
    BY <1>5, <2>3 DEF SendReply, wireVars, InQueue, Open
  <2> QED BY <2>3, <2>4, KeepsRequests DEF Open, InQueue
<1>6. CASE RejectRequest
  <2>1. Head(fifo) \in Call /\ Range(fifo) = Range(fifo') \cup {Head(fifo)}
    BY <1>6, TailType, RangeTail DEF RejectRequest
  <2>2. /\ Head(fifo) \in registered' => future'[Head(fifo)].state # "NO_RESULT_YET"
        /\ \A s \in Call : Open(s)' => Open(s)
    BY <1>6, <2>1, ReplyTypes, AnswerCloses DEF RejectRequest, ErrorReply, Open
  <2>3. \A r \in Call : Open(r)' /\ InQueue(r) => InQueue(r)'
    BY <1>6, <2>1, <2>2 DEF RejectRequest, wireVars, InQueue, Open
  <2> QED BY <2>2, <2>3, KeepsRequests DEF Open, InQueue
<1> QED BY <1>1, <1>2, <1>3, <1>4, <1>5, <1>6 DEF Thread, Handle

LEMMA NoRequestLostStep ==
  ASSUME BaseInv, PlacedInv, NoRequestLost, [Next]_vars
  PROVE  NoRequestLost'
<1> USE DEF BaseInv
<1>1. CASE pc' = "crashed"
  BY <1>1 DEF NoRequestLost
<1>2. CASE pc = "crashed" /\ pc' # "crashed"
  <2>1. ASSUME pc' = pc
        PROVE  FALSE
    BY <1>2, <2>1
  <2>2. ~Thread
    BY <1>2 DEF Thread, MakeObject, TakeRequest, SeeShutdown, Handle, InvokeMethod, RefuseMethod, Acquire,
       Release, ForceRelease, ForceReleaseUnlocked, Query, Handling, SendReply, RejectRequest, ReleaseObject
  <2>3. ASSUME NEW p \in Proxy, NEW r \in Call
        PROVE  ~ClientCall(p, r)
    BY <2>1 DEF ClientCall, CallMethod, CallNonBlocking, WaitFuture, Lock, RetryLock, Unlock, ForceUnlock,
       IsLocked, Send, threadVars
  <2>4. ASSUME NEW p \in Proxy
        PROVE  ~(Return(p) \/ TimeOut(p) \/ GiveUpLock(p) \/ Deliver(p) \/ ConnectionLost(p))
    BY <2>1 DEF Return, TimeOut, GiveUpLock, Deliver, FindHandler, UnknownDestination, PushRequest,
       AlreadyStopped, Undeliverable, ConnectionLost, threadVars
  <2>5. ~Context
    BY <2>1 DEF Context, EnterInMap, Register, MakeFails, Unregister, StopRunning, RequestShutdown, Join,
       threadVars
  <2> QED BY <2>1, <2>2, <2>3, <2>4, <2>5 DEF Next, vars, threadVars
<1>3. CASE pc # "crashed"
  <2>1. ASSUME NEW p \in Proxy, NEW r \in Call, ClientCall(p, r)
        PROVE  NoRequestLost'
    <3>1. CASE WaitFuture(p, r)
      BY <1>3, <3>1, KeepsRequests DEF WaitFuture, callVars, wireVars, threadVars, Open, InQueue
    <3>2. CASE ~WaitFuture(p, r)
      <4>1. \E o, t : Send(p, r, o, t)
        BY <2>1, <3>2 DEF ClientCall, CallMethod, CallNonBlocking, Lock, RetryLock, Unlock, ForceUnlock, IsLocked
      <4> QED BY <1>3, <4>1, SendKeeps
    <3> QED BY <3>1, <3>2
  <2>2. ASSUME NEW p \in Proxy, Return(p) \/ TimeOut(p) \/ GiveUpLock(p)
        PROVE  NoRequestLost'
    BY <1>3, <2>2, KeepsRequests DEF Return, TimeOut, GiveUpLock, callVars, wireVars, threadVars, Open, InQueue
  <2>3. CASE \E p \in Proxy : Deliver(p) \/ ConnectionLost(p)
    BY <1>3, <2>3, DeliverKeeps
  <2>4. CASE Context
    BY <1>3, <2>4, KeepsRequests DEF Context, EnterInMap, Register, MakeFails, Unregister, StopRunning,
       RequestShutdown, Join, callVars, wireVars, threadVars, Open, InQueue
  <2>5. CASE Thread
    BY <1>3, <2>5, ThreadKeeps
  <2>6. CASE UNCHANGED vars
    BY <1>3, <2>6, KeepsRequests DEF vars, callVars, wireVars, threadVars, Open, InQueue
  <2> QED BY <2>1, <2>2, <2>3, <2>4, <2>5, <2>6 DEF Next
<1> QED BY <1>1, <1>2, <1>3

\* A call without a result is on its way, queued or being handled.
THEOREM NoRequestIsLost == Spec => []NoRequestLost
<1>1. Init => NoRequestLost
  BY DEF Init, NoRequestLost, Open
<1>2. SafetyInv => BaseInv /\ PlacedInv
  BY DEF SafetyInv
<1>3. BaseInv /\ PlacedInv /\ NoRequestLost /\ [Next]_vars => NoRequestLost'
  BY NoRequestLostStep
<1> QED BY <1>1, <1>2, <1>3, SafetyAlways, PTL DEF Spec

-----------------------------------------------------------------------------
(* The order of service, the owner of the lock, and the lock service       *)

\* Calls are made in the order of their numbers, and the requests of one proxy
\* never overtake each other: not in its outbox, not in the queue, and not
\* between the two.  In particular a request is in one place only.
OrderInv ==
  /\ \A r, s \in Call : r < s /\ Issued(s) => Issued(r)
  /\ \A p \in Proxy : \A i, j \in DOMAIN outbox[p] : i < j => outbox[p][i] < outbox[p][j]
  /\ \A i, j \in DOMAIN fifo : i < j /\ request[fifo[i]].proxy = request[fifo[j]].proxy
                                 => fifo[i] < fifo[j]
  /\ \A p \in Proxy : \A r \in Range(fifo), s \in Range(outbox[p]) : request[r].proxy = p => r < s
  /\ current \in Call =>
        /\ \A s \in Range(fifo) : request[s].proxy = request[current].proxy => current < s
        /\ \A p \in Proxy : \A s \in Range(outbox[p]) : request[current].proxy = p => current < s

\* What is still to be handled has no verdict.
UndecidedInv ==
  /\ \A p \in Proxy : \A r \in Range(outbox[p]) : verdict[r] = NoReply
  /\ \A r \in Range(fifo) : verdict[r] = NoReply
  /\ pc = "handling" => verdict[current] = NoReply

\* A caller is told nothing but an error or what the thread decided.
ToldInv ==
  \A r \in Call :
    /\ future[r].state = "NO_RESULT_YET" => future[r] = NoReply
    /\ future[r].state \notin {"UNUSED", "NO_RESULT_YET"} =>
          future[r] = ErrorReply \/ (future[r] = verdict[r] /\ verdict[r] # NoReply)

\* All calls but method calls block their client until they have an answer.
BlockedInv ==
  /\ \A r \in Call : Issued(r) /\ request[r].op # "METHOD" /\ future[r].state = "NO_RESULT_YET"
                       => waiting[request[r].proxy] = r
  /\ \A r \in registered : request[r].op # "METHOD" => waiting[request[r].proxy] = r
  /\ \A p \in Proxy : waiting[p] \in Call /\ request[waiting[p]].op = "ACQUIRE"
                        => trying[p] = request[waiting[p]].token

\* The attempts of one lock() follow each other: when the next one is made, or
\* when the client has got the token, the object has decided all earlier ones.
AttemptInv ==
  \A p \in Proxy, r \in Call :
    request[r].op = "ACQUIRE" /\ request[r].token \in Call =>
      /\ request[r].token = trying[p] => r = waiting[p] \/ verdict[r] # NoReply
      /\ request[r].token = ownToken[p] => verdict[r] # NoReply

\* A client that tries to get a token does not have it.
FreshTokenInv == \A p, q \in Proxy : trying[p] \in Call => ownToken[q] # trying[p]

\* As long as the object is locked with the token of a client, no call of this
\* client has been decided that will take the token from it.
KeptTokenInv ==
  \A p \in Proxy :
    ownToken[p] \in Call /\ lockingToken = ownToken[p] /\ waiting[p] \in Call =>
      /\ request[waiting[p]].op = "ACQUIRE" /\ request[waiting[p]].token # ownToken[p] =>
            verdict[waiting[p]] # ValueReply(request[waiting[p]].token)
      /\ request[waiting[p]].op \in {"RELEASE", "FORCE_RELEASE"} =>
            verdict[waiting[p]] # ValueReply(NoToken)

\* Call r was granted token t, and its client waits for this answer or has been
\* told that the call failed.
OnItsWay(r, t) ==
  /\ request[r].op = "ACQUIRE" /\ request[r].token = t /\ verdict[r] = ValueReply(t)
  /\ \/ future[r] = ErrorReply
     \/ waiting[request[r].proxy] = r /\ future[r] \in {NoReply, ValueReply(t)}

HolderInv ==
  lockingToken \in Call =>
    (\E p \in Proxy : ownToken[p] = lockingToken) \/ (\E r \in Call : OnItsWay(r, lockingToken))

-----------------------------------------------------------------------------
(* Sequences *)

LEMMA AppendIndex ==
  ASSUME NEW s \in Seq(Call), NEW e \in Call
  PROVE  /\ DOMAIN s \subseteq Int /\ DOMAIN Append(s, e) \subseteq Int
         /\ \A i \in DOMAIN Append(s, e) : \/ i \in DOMAIN s /\ Append(s, e)[i] = s[i]
                                           \/ i = Len(s) + 1 /\ Append(s, e)[i] = e
         /\ \A i \in DOMAIN s : i < Len(s) + 1
<1>1. Len(s) \in Nat /\ DOMAIN s = 1 .. Len(s) /\ DOMAIN Append(s, e) = 1 .. Len(s) + 1
  OBVIOUS
<1>2. /\ \A i \in 1 .. Len(s) : Append(s, e)[i] = s[i]
      /\ Append(s, e)[Len(s) + 1] = e
  OBVIOUS
<1> QED BY <1>1, <1>2

LEMMA TailIndex ==
  ASSUME NEW s \in Seq(Call), s # <<>>
  PROVE  /\ DOMAIN s \subseteq Int /\ DOMAIN Tail(s) \subseteq Int
         /\ 1 \in DOMAIN s /\ Head(s) = s[1]
         /\ \A i \in DOMAIN Tail(s) : i + 1 \in DOMAIN s /\ Tail(s)[i] = s[i + 1] /\ 1 < i + 1
         /\ \A i, j \in DOMAIN Tail(s) : i < j => i + 1 < j + 1
<1>1. Len(s) \in Nat /\ Len(s) > 0 /\ DOMAIN s = 1 .. Len(s) /\ Head(s) = s[1]
  OBVIOUS
<1>2. DOMAIN Tail(s) = 1 .. Len(s) - 1 /\ \A i \in 1 .. Len(s) - 1 : Tail(s)[i] = s[i + 1]
  OBVIOUS
<1> QED BY <1>1, <1>2

LEMMA PrefixIndex ==
  ASSUME NEW s \in Seq(Call), NEW k \in 0 .. Len(s)
  PROVE  \A i \in DOMAIN SubSeq(s, 1, k) : i \in DOMAIN s /\ SubSeq(s, 1, k)[i] = s[i]
<1>1. DOMAIN s = 1 .. Len(s) /\ Len(s) \in Nat
  OBVIOUS
<1>2. DOMAIN SubSeq(s, 1, k) = 1 .. k /\ \A i \in 1 .. k : SubSeq(s, 1, k)[i] = s[i]
  BY <1>1
<1> QED BY <1>1, <1>2

-----------------------------------------------------------------------------
(* The order of the requests *)

\* Everything a step can do to the outboxes, the queue and the hands of the
\* thread: a new call; a request leaves an outbox, to the queue or for good; a
\* connection loses what it had not delivered yet; the thread drops what it has
\* in hands, takes the next request, or rejects it.
LEMMA QueueEffect ==
  ASSUME BaseInv, [Next]_vars
  PROVE  \/ \E p \in Proxy, r \in Call : \E o, t : Send(p, r, o, t)
         \/ /\ ~(\E p \in Proxy, r \in Call : ClientCall(p, r) /\ ~WaitFuture(p, r))
            /\ \/ \E p \in Proxy : /\ outbox[p] # <<>> /\ outbox' = [outbox EXCEPT ![p] = Tail(@)]
                                   /\ fifo' \in {fifo, Append(fifo, Head(outbox[p]))}
                                   /\ current' = current
               \/ \E p \in Proxy : /\ \E k \in 0 .. Len(outbox[p]) :
                                         outbox' = [outbox EXCEPT ![p] = SubSeq(@, 1, k)]
                                   /\ fifo' = fifo /\ current' = current
               \/ outbox' = outbox /\ fifo' = fifo /\ current' \in {current, NoCall}
               \/ /\ outbox' = outbox /\ fifo # <<>> /\ fifo' = Tail(fifo)
                  /\ current = NoCall /\ current' \in {NoCall, Head(fifo)}
<1> USE DEF BaseInv
<1>1. CASE \E p \in Proxy, r \in Call : ClientCall(p, r) /\ ~WaitFuture(p, r)
  BY <1>1 DEF ClientCall, CallMethod, CallNonBlocking, Lock, RetryLock, Unlock, ForceUnlock, IsLocked
<1>2. ASSUME NEW p \in Proxy, NEW r \in Call, WaitFuture(p, r)
      PROVE  outbox' = outbox /\ fifo' = fifo /\ current' = current
  BY <1>2 DEF WaitFuture, wireVars, threadVars
<1>3. ASSUME NEW p \in Proxy, Return(p) \/ TimeOut(p) \/ GiveUpLock(p) \/ FindHandler(p)
      PROVE  outbox' = outbox /\ fifo' = fifo /\ current' = current
  BY <1>3 DEF Return, TimeOut, GiveUpLock, FindHandler, wireVars, threadVars
<1>4. ASSUME NEW p \in Proxy, UnknownDestination(p) \/ PushRequest(p) \/ AlreadyStopped(p)
      PROVE  /\ outbox[p] # <<>> /\ outbox' = [outbox EXCEPT ![p] = Tail(@)]
             /\ fifo' \in {fifo, Append(fifo, Head(outbox[p]))}
             /\ current' = current
  BY <1>4 DEF UnknownDestination, PushRequest, AlreadyStopped, Undeliverable, LocatedInv, threadVars
<1>5. ASSUME NEW p \in Proxy, ConnectionLost(p)
      PROVE  /\ \E k \in 0 .. Len(outbox[p]) : outbox' = [outbox EXCEPT ![p] = SubSeq(@, 1, k)]
             /\ fifo' = fifo /\ current' = current
  BY <1>5 DEF ConnectionLost, threadVars
<1>6. ASSUME Context \/ UNCHANGED vars
      PROVE  outbox' = outbox /\ fifo' = fifo /\ current' = current
  BY <1>6 DEF Context, EnterInMap, Register, MakeFails, Unregister, StopRunning, RequestShutdown, Join,
     wireVars, threadVars, vars
<1>7. ASSUME Thread
      PROVE  \/ outbox' = outbox /\ fifo' = fifo /\ current' \in {current, NoCall}
             \/ /\ outbox' = outbox /\ fifo # <<>> /\ fifo' = Tail(fifo)
                /\ current = NoCall /\ current' \in {NoCall, Head(fifo)}
  BY <1>7 DEF CurrentInv, Thread, MakeObject, TakeRequest, SeeShutdown, Handle, InvokeMethod, RefuseMethod,
     Acquire, Release, ForceRelease, ForceReleaseUnlocked, Query, Conclude, SendReply, RejectRequest,
     ReleaseObject, wireVars
<1>8. CASE ~(\E p \in Proxy, r \in Call : ClientCall(p, r) /\ ~WaitFuture(p, r))
  <2>1. CASE \E p \in Proxy, r \in Call : ClientCall(p, r)
    BY <1>2, <1>8, <2>1
  <2>2. CASE \E p \in Proxy : Return(p) \/ TimeOut(p) \/ GiveUpLock(p) \/ FindHandler(p)
    BY <1>3, <1>8, <2>2
  <2>3. CASE \E p \in Proxy : UnknownDestination(p) \/ PushRequest(p) \/ AlreadyStopped(p)
    BY <1>4, <1>8, <2>3
  <2>4. CASE \E p \in Proxy : ConnectionLost(p)
    BY <1>5, <1>8, <2>4
  <2>5. CASE Thread
    BY <1>7, <1>8, <2>5
  <2>6. CASE Context \/ UNCHANGED vars
    BY <1>6, <1>8, <2>6
  <2>7. \/ \E p \in Proxy, r \in Call : ClientCall(p, r)
        \/ \E p \in Proxy : Return(p) \/ TimeOut(p) \/ GiveUpLock(p) \/ FindHandler(p)
        \/ \E p \in Proxy : UnknownDestination(p) \/ PushRequest(p) \/ AlreadyStopped(p)
        \/ \E p \in Proxy : ConnectionLost(p)
        \/ Thread \/ Context \/ UNCHANGED vars
    BY DEF Next, Deliver
  <2> QED BY <2>1, <2>2, <2>3, <2>4, <2>5, <2>6, <2>7
<1> QED BY <1>1, <1>8

\* Range(s) and the index form of membership.
LEMMA RangeIndex ==
  ASSUME NEW s, NEW e
  PROVE  e \in Range(s) <=> \E i \in DOMAIN s : s[i] = e
  BY DEF Range

\* A new call comes last, behind all calls made so far.
LEMMA OrderSend ==
  ASSUME BaseInv, PlacedInv, OrderInv, NEW p \in Proxy, NEW r \in Call, NEW o, NEW t, Send(p, r, o, t),
         \A s \in Call : Issued(s) => request'[s] = request[s]
  PROVE  OrderInv'
<1> USE RangeCall DEF BaseInv
<1>1. /\ outbox' = [outbox EXCEPT ![p] = Append(@, r)] /\ fifo' = fifo /\ current' = current
      /\ future' = [future EXCEPT ![r] = NoReply]
      /\ ~Issued(r) /\ \A s \in Call : s < r => Issued(s)
  BY DEF Send, Fresh, Issued, threadVars
<1>2. \A s \in Call : Issued(s)' <=> Issued(s) \/ s = r
  BY <1>1 DEF TypeOK, Issued, NoReply
<1>3. Call \subseteq Int
  BY DEF Call
<1>4. \A s \in Call : Issued(s) => s < r
  BY <1>1, <1>3 DEF OrderInv
<1>5. /\ outbox'[p] = Append(outbox[p], r) /\ \A q \in Proxy \ {p} : outbox'[q] = outbox[q]
      /\ Range(outbox'[p]) = Range(outbox[p]) \cup {r}
  BY <1>1, RangeAppend DEF TypeOK
<1>6. \A i \in DOMAIN outbox[p] : outbox[p][i] \in Call /\ outbox[p][i] < r
  BY <1>4, RangeIndex DEF PlacedInv
<1>7. \A i, j \in DOMAIN outbox'[p] : i < j => outbox'[p][i] < outbox'[p][j]
  BY <1>5, <1>6, AppendIndex DEF OrderInv
<1>8. \A s \in Range(fifo) : Issued(s) /\ request'[s] = request[s]
  BY DEF PlacedInv
<1>9. \A i \in DOMAIN fifo : request'[fifo[i]] = request[fifo[i]]
  BY <1>8, RangeIndex
<1>10. current \in Call => request'[current] = request[current] /\ current < r
  BY <1>4 DEF PlacedInv
<1>11. \A s, u \in Call : s < u /\ (Issued(u))' => (Issued(s))'
  BY <1>1, <1>2, <1>3 DEF OrderInv
<1>12. \A q \in Proxy : \A s \in Range(fifo), u \in Range(outbox'[q]) : request'[s].proxy = q => s < u
  <2>1. ASSUME NEW q \in Proxy, NEW s \in Range(fifo), NEW u \in Range(outbox'[q]),
               request'[s].proxy = q
        PROVE  s < u
    <3>1. s \in Call /\ Issued(s) /\ request[s].proxy = q
      BY <1>8, <2>1
    <3>2. CASE u \in Range(outbox[q])
      BY <3>1, <3>2 DEF OrderInv
    <3>3. CASE u \notin Range(outbox[q])
      <4>1. u = r
        BY <1>5, <2>1, <3>3
      <4> QED BY <1>4, <3>1, <4>1
    <3> QED BY <3>2, <3>3
  <2> QED BY <2>1
<1>13. current \in Call =>
          /\ \A s \in Range(fifo) : request'[s].proxy = request'[current].proxy => current < s
          /\ \A q \in Proxy : \A s \in Range(outbox'[q]) : request'[current].proxy = q => current < s
  BY <1>5, <1>8, <1>10 DEF OrderInv
<1>14. \A i, j \in DOMAIN fifo : i < j /\ request'[fifo[i]].proxy = request'[fifo[j]].proxy => fifo[i] < fifo[j]
  BY <1>9 DEF OrderInv
<1>15. \A q \in Proxy : \A i, j \in DOMAIN outbox'[q] : i < j => outbox'[q][i] < outbox'[q][j]
  BY <1>5, <1>7 DEF OrderInv
<1> QED BY <1>1, <1>11, <1>12, <1>13, <1>14, <1>15 DEF OrderInv, Issued

\* Where nobody calls, the requests keep the order they have.
LEMMA OrderMove ==
  ASSUME BaseInv, PlacedInv, OrderInv,
         request' = request, \A s \in Call : Issued(s)' = Issued(s),
         \/ \E p \in Proxy : /\ outbox[p] # <<>> /\ outbox' = [outbox EXCEPT ![p] = Tail(@)]
                             /\ fifo' \in {fifo, Append(fifo, Head(outbox[p]))}
                             /\ current' = current
         \/ \E p \in Proxy : /\ \E k \in 0 .. Len(outbox[p]) :
                                   outbox' = [outbox EXCEPT ![p] = SubSeq(@, 1, k)]
                             /\ fifo' = fifo /\ current' = current
         \/ outbox' = outbox /\ fifo' = fifo /\ current' \in {current, NoCall}
         \/ /\ outbox' = outbox /\ fifo # <<>> /\ fifo' = Tail(fifo)
            /\ current = NoCall /\ current' \in {NoCall, Head(fifo)}
  PROVE  OrderInv'
<1> USE RangeCall, ConstantFacts DEF BaseInv, Assumptions
<1>1. \A r, s \in Call : r < s /\ (Issued(s))' => (Issued(r))'
  BY DEF OrderInv
<1>2. CASE outbox' = outbox /\ fifo' = fifo /\ current' \in {current, NoCall}
  BY <1>1, <1>2 DEF OrderInv, Issued
<1>3. ASSUME NEW p \in Proxy, outbox[p] # <<>>, outbox' = [outbox EXCEPT ![p] = Tail(@)],
             fifo' \in {fifo, Append(fifo, Head(outbox[p]))}, current' = current
      PROVE  OrderInv'
  <2> DEFINE h == Head(outbox[p])
  <2>1. outbox'[p] = Tail(outbox[p]) /\ \A q \in Proxy \ {p} : outbox'[q] = outbox[q]
    BY <1>3 DEF TypeOK
  <2>2. /\ h \in Call /\ h \in Range(outbox[p]) /\ request[h].proxy = p
        /\ \A q \in Proxy : Range(outbox'[q]) \subseteq Range(outbox[q])
    BY <1>3, <2>1, TailType, RangeTail DEF PlacedInv
  <2>3. \A q \in Proxy : \A i, j \in DOMAIN outbox'[q] : i < j => outbox'[q][i] < outbox'[q][j]
    BY <1>3, <2>1, TailIndex DEF OrderInv
  <2>4. \A s \in Range(outbox'[p]) : h < s
    <3>1. \A i, j \in DOMAIN outbox[p] : i < j => outbox[p][i] < outbox[p][j]
      BY DEF OrderInv
    <3>2. outbox[p] \in Seq(Call)
      OBVIOUS
    <3>3. \A i \in DOMAIN Tail(outbox[p]) : h < Tail(outbox[p])[i]
      BY <1>3, <3>1, <3>2, TailIndex
    <3>4. \A i \in DOMAIN outbox'[p] : h < outbox'[p][i]
      BY <2>1, <3>3
    <3> HIDE DEF h
    <3> QED BY <3>4, RangeIndex
  <2>5. CASE fifo' = fifo
    BY <1>1, <1>3, <2>2, <2>3, <2>5 DEF OrderInv, Issued
  <2>6. CASE fifo' = Append(fifo, h)
    <3>1. Range(fifo') = Range(fifo) \cup {h}
      BY <2>2, <2>6, RangeAppend
    <3>2. \A i \in DOMAIN fifo : request[fifo[i]].proxy = p => fifo[i] < h
      BY <2>2, RangeIndex DEF OrderInv
    <3>3. \A i, j \in DOMAIN fifo' : i < j /\ request[fifo'[i]].proxy = request[fifo'[j]].proxy
                                       => fifo'[i] < fifo'[j]
      BY <2>2, <2>6, <3>2, AppendIndex DEF OrderInv
    <3>4. \A q \in Proxy : \A r \in Range(fifo'), s \in Range(outbox'[q]) : request[r].proxy = q => r < s
      BY <2>2, <2>4, <3>1 DEF OrderInv
    <3>5. current \in Call =>
            /\ \A s \in Range(fifo') : request[s].proxy = request[current].proxy => current < s
            /\ \A q \in Proxy : \A s \in Range(outbox'[q]) : request[current].proxy = q => current < s
      BY <2>2, <3>1 DEF OrderInv
    <3> QED BY <1>1, <1>3, <2>3, <3>3, <3>4, <3>5 DEF OrderInv, Issued
  <2> QED BY <1>3, <2>5, <2>6
<1>4. ASSUME NEW p \in Proxy, NEW k \in 0 .. Len(outbox[p]),
             outbox' = [outbox EXCEPT ![p] = SubSeq(@, 1, k)], fifo' = fifo, current' = current
      PROVE  OrderInv'
  <2>1. outbox'[p] = SubSeq(outbox[p], 1, k) /\ \A q \in Proxy \ {p} : outbox'[q] = outbox[q]
    BY <1>4 DEF TypeOK
  <2>2. \A q \in Proxy : Range(outbox'[q]) \subseteq Range(outbox[q])
    BY <2>1, RangePrefix
  <2>3. \A q \in Proxy : \A i, j \in DOMAIN outbox'[q] : i < j => outbox'[q][i] < outbox'[q][j]
    BY <2>1, PrefixIndex DEF OrderInv
  <2> QED BY <1>1, <1>4, <2>2, <2>3 DEF OrderInv, Issued
<1>5. CASE /\ outbox' = outbox /\ fifo # <<>> /\ fifo' = Tail(fifo)
           /\ current = NoCall /\ current' \in {NoCall, Head(fifo)}
  <2> DEFINE h == Head(fifo)
  <2>1. h \in Call /\ Range(fifo) = Range(fifo') \cup {h}
    BY <1>5, TailType, RangeTail
  <2>2. \A i, j \in DOMAIN fifo' : i < j /\ request[fifo'[i]].proxy = request[fifo'[j]].proxy
                                     => fifo'[i] < fifo'[j]
    BY <1>5, TailIndex DEF OrderInv
  <2>3. \A s \in Range(fifo') : request[s].proxy = request[h].proxy => h < s
    <3>1. \A i \in DOMAIN fifo' : request[fifo'[i]].proxy = request[h].proxy => h < fifo'[i]
      BY <1>5, TailIndex DEF OrderInv
    <3> QED BY <3>1, RangeIndex
  <2>4. \A q \in Proxy : \A s \in Range(outbox[q]) : request[h].proxy = q => h < s
    BY <2>1 DEF OrderInv
  <2>5. \A q \in Proxy : \A r \in Range(fifo'), s \in Range(outbox'[q]) : request[r].proxy = q => r < s
    BY <1>5, <2>1 DEF OrderInv
  <2>6. current' \in Call => current' = h
    BY <1>5
  <2> QED BY <1>1, <1>5, <2>2, <2>3, <2>4, <2>5, <2>6 DEF OrderInv, Issued
<1> QED BY <1>2, <1>3, <1>4, <1>5

LEMMA OrderStep ==
  ASSUME BaseInv, PlacedInv, OrderInv, [Next]_vars
  PROVE  OrderInv'
<1>1. CASE \E p \in Proxy, r \in Call : \E o, t : Send(p, r, o, t)
  BY <1>1, IssuedStable, OrderSend
<1>2. CASE ~(\E p \in Proxy, r \in Call : ClientCall(p, r) /\ ~WaitFuture(p, r))
  <2>1. request' = request /\ \A s \in Call : Issued(s)' = Issued(s)
    BY <1>2, FutureEffect DEF Issued
  <2>2. CASE ~(\E p \in Proxy, r \in Call : \E o, t : Send(p, r, o, t))
    BY <2>1, <2>2, QueueEffect, OrderMove
  <2> QED BY <1>1, <2>2
<1> QED BY <1>1, <1>2, QueueEffect

\* A request in the hands of the thread is nowhere else.
LEMMA InHandsOnly ==
  ASSUME BaseInv, PlacedInv, OrderInv, current \in Call
  PROVE  current \notin Range(fifo) /\ \A p \in Proxy : current \notin Range(outbox[p])
<1> ~(current < current)
  BY DEF Call
<1> QED BY DEF OrderInv, PlacedInv

\* Only the RPC thread moves its program counter, its lock and its verdicts.
LEMMA OthersEffect ==
  ASSUME [Next]_vars, ~Thread
  PROVE  UNCHANGED <<pc, current, reply, lockingToken, verdict, forced>>
<1>1. ASSUME NEW p \in Proxy, NEW r \in Call, ClientCall(p, r)
      PROVE  UNCHANGED <<pc, current, reply, lockingToken, verdict, forced>>
  BY <1>1 DEF ClientCall, CallMethod, CallNonBlocking, WaitFuture, Lock, RetryLock, Unlock, ForceUnlock,
     IsLocked, Send, threadVars, history
<1>2. ASSUME NEW p \in Proxy, Return(p) \/ TimeOut(p) \/ GiveUpLock(p)
      PROVE  UNCHANGED <<pc, current, reply, lockingToken, verdict, forced>>
  BY <1>2 DEF Return, TimeOut, GiveUpLock, threadVars, history
<1>3. ASSUME NEW p \in Proxy, Deliver(p) \/ ConnectionLost(p)
      PROVE  UNCHANGED <<pc, current, reply, lockingToken, verdict, forced>>
  BY <1>3 DEF Deliver, FindHandler, UnknownDestination, PushRequest, AlreadyStopped, Undeliverable,
     ConnectionLost, threadVars, history
<1>4. ASSUME Context \/ UNCHANGED vars
      PROVE  UNCHANGED <<pc, current, reply, lockingToken, verdict, forced>>
  BY <1>4 DEF Context, EnterInMap, Register, MakeFails, Unregister, StopRunning, RequestShutdown, Join,
     vars, threadVars, history
<1> QED BY <1>1, <1>2, <1>3, <1>4 DEF Next

\* Verdicts are given by Conclude only, with a proper reply.
LEMMA VerdictEffect ==
  ASSUME BaseInv, [Next]_vars
  PROVE  \/ verdict' = verdict
         \/ Handle /\ pc = "handling" /\ \E v \in Reply : v.state # "NO_RESULT_YET" /\ Conclude(v)
<1> USE DEF BaseInv
<1>1. CASE InvokeMethod
  BY <1>1, ReplyTypes DEF InvokeMethod, Handling, ValueReply, Handle
<1>2. CASE RefuseMethod
  BY <1>2, ReplyTypes DEF RefuseMethod, Handling, Handle
<1>3. CASE Acquire
  <2> DEFINE v == ValueReply(IF lockingToken = NoToken \/ lockingToken = request[current].token
                             THEN request[current].token ELSE Denied)
  <2>1. pc = "handling" /\ Conclude(v)
    BY <1>3 DEF Acquire, Handling
  <2>2. current \in Call
    BY <2>1 DEF CurrentInv
  <2>3. request[current].token \in Token \cup {NoToken}
    BY <2>2 DEF TypeOK, Request, NoRequest
  <2>4. v \in Reply /\ v.state # "NO_RESULT_YET"
    BY <2>3, ReplyTypes DEF ValueReply
  <2> QED BY <1>3, <2>1, <2>4 DEF Handle
<1>4. CASE Release
  BY <1>4, ReplyTypes DEF Release, Handling, ValueReply, Handle
<1>5. CASE ForceRelease
  BY <1>5, ReplyTypes DEF ForceRelease, Handling, ValueReply, Handle
<1>6. CASE Query
  BY <1>6, ReplyTypes DEF Query, Handling, ValueReply, Handle
<1>7. CASE ForceReleaseUnlocked
  BY <1>7 DEF ForceReleaseUnlocked, history
<1>8. CASE Thread /\ ~Handle
  BY <1>8 DEF Thread, MakeObject, TakeRequest, SeeShutdown, SendReply, RejectRequest, ReleaseObject, history
<1>9. CASE ~Thread
  BY <1>9, OthersEffect
<1> QED BY <1>1, <1>2, <1>3, <1>4, <1>5, <1>6, <1>7, <1>8, <1>9 DEF Handle

\* The thread handles a request that it has just taken from the queue, or the
\* one that it had in hands.
LEMMA HandlingEffect ==
  ASSUME BaseInv, [Next]_vars, pc' = "handling"
  PROVE  \/ pc = "handling" /\ current' = current /\ verdict' = verdict
         \/ TakeRequest /\ current' \in Range(fifo) /\ verdict' = verdict
<1> USE DEF BaseInv
<1>1. CASE TakeRequest
  <2>1. Head(fifo) \in Range(fifo)
    BY <1>1, RangeTail DEF TakeRequest, TypeOK
  <2> QED BY <1>1, <2>1 DEF TakeRequest, history
<1>2. CASE Thread /\ ~TakeRequest
  BY <1>2 DEF Thread, MakeObject, SeeShutdown, Handle, InvokeMethod, RefuseMethod, Acquire, Release,
     ForceRelease, ForceReleaseUnlocked, Query, Conclude, SendReply, RejectRequest, ReleaseObject
<1>3. CASE ~Thread
  BY <1>3, OthersEffect
<1> QED BY <1>1, <1>2, <1>3

LEMMA UndecidedStep ==
  ASSUME BaseInv, PlacedInv, OrderInv, UndecidedInv, [Next]_vars
  PROVE  UndecidedInv'
<1> TypeOK
  BY DEF BaseInv
<1> USE RangeCall
<1>1. \A r \in Call : ~Issued(r) => verdict[r] = NoReply
  BY DEF PlacedInv
<1>2. pc' = "handling" => verdict'[current'] = NoReply
  BY HandlingEffect DEF UndecidedInv
<1>3. \A r \in Call : verdict'[r] # verdict[r] => /\ r = current /\ UNCHANGED <<outbox, fifo>>
                                                  /\ pc = "handling"
  <2>1. \A v : Conclude(v) => UNCHANGED <<outbox, fifo>>
    BY DEF Conclude, wireVars
  <2> QED BY <2>1, VerdictEffect, MoveEffect
<1>4. ASSUME NEW p \in Proxy, NEW r \in Range(outbox'[p])
      PROVE  verdict'[r] = NoReply
  <2>1. CASE r \in Range(outbox[p])
    BY <1>3, <2>1, InHandsOnly DEF UndecidedInv
  <2>2. CASE r \notin Range(outbox[p])
    <3>1. r \in Call /\ UNCHANGED verdict
      BY <1>3, <1>4, <2>2, MoveEffect, VerdictEffect DEF Conclude, wireVars
    <3>2. ~Issued(r)
      <4>1. ASSUME NEW q \in Proxy, NEW s \in Call, NEW o, NEW t, Send(q, s, o, t)
            PROVE  ~Issued(s) /\ Range(outbox'[p]) \subseteq Range(outbox[p]) \cup {s}
        <5>1. outbox' = [outbox EXCEPT ![q] = Append(@, s)] /\ ~Issued(s)
          BY <4>1 DEF Send, Fresh, Issued
        <5>2. outbox'[p] = outbox[p] \/ outbox'[p] = Append(outbox[p], s)
          BY <5>1 DEF BaseInv, TypeOK
        <5> QED BY <5>1, <5>2, RangeAppend
      <4>2. CASE \E q \in Proxy, s \in Call : \E o, t : Send(q, s, o, t)
        BY <1>4, <2>2, <4>1, <4>2
      <4>3. ASSUME NEW q \in Proxy, \/ outbox[q] # <<>> /\ outbox' = [outbox EXCEPT ![q] = Tail(@)]
                                    \/ \E k \in 0 .. Len(outbox[q]) :
                                          outbox' = [outbox EXCEPT ![q] = SubSeq(@, 1, k)]
            PROVE  Range(outbox'[p]) \subseteq Range(outbox[p])
        <5>1. \/ outbox'[p] = outbox[p]
              \/ outbox[p] # <<>> /\ outbox'[p] = Tail(outbox[p])
              \/ \E k \in 0 .. Len(outbox[p]) : outbox'[p] = SubSeq(outbox[p], 1, k)
          BY <4>3 DEF BaseInv, TypeOK
        <5>2. outbox[p] \in Seq(Call)
          OBVIOUS
        <5>3. CASE outbox[p] # <<>> /\ outbox'[p] = Tail(outbox[p])
          BY <5>2, <5>3, RangeTail
        <5>4. CASE \E k \in 0 .. Len(outbox[p]) : outbox'[p] = SubSeq(outbox[p], 1, k)
          BY <5>2, <5>4, RangePrefix
        <5> QED BY <5>1, <5>3, <5>4
      <4> QED BY <1>4, <2>2, <4>2, <4>3, QueueEffect
    <3> QED BY <1>1, <3>1, <3>2
  <2> QED BY <2>1, <2>2
<1>5. ASSUME NEW r \in Range(fifo')
      PROVE  verdict'[r] = NoReply
  BY <1>3, <1>5, InHandsOnly, MoveEffect DEF UndecidedInv
<1> QED BY <1>2, <1>4, <1>5 DEF UndecidedInv

-----------------------------------------------------------------------------
(* What callers are told *)

LEMMA ToldStep ==
  ASSUME BaseInv, PlacedInv, UndecidedInv, ToldInv, [Next]_vars
  PROVE  ToldInv'
<1> USE DEF BaseInv
<1>1. ASSUME NEW p \in Proxy, NEW r \in Call, NEW o, NEW t, Send(p, r, o, t)
      PROVE  ToldInv'
  <2>1. future' = [future EXCEPT ![r] = NoReply] /\ verdict' = verdict
    BY <1>1 DEF Send, history
  <2> QED BY <2>1 DEF ToldInv, TypeOK, NoReply
<1>2. CASE ~(\E p \in Proxy, r \in Call : ClientCall(p, r) /\ ~WaitFuture(p, r))
  <2>1. ASSUME NEW r \in Call, future'[r] # future[r]
        PROVE  future'[r] = ErrorReply \/ (future'[r] = verdict'[r] /\ verdict'[r] # NoReply)
    <3>1. future'[r] = ErrorReply \/ (pc = "replying" /\ r = current /\ future'[r] = reply)
      BY <1>2, <2>1, FutureEffect
    <3>2. pc = "replying" => verdict' = verdict
      BY VerdictEffect
    <3> QED BY <3>1, <3>2 DEF CurrentInv, NoReply
  <2>2. ASSUME NEW r \in Call, future'[r] = future[r]
        PROVE  /\ future'[r].state = "NO_RESULT_YET" => future'[r] = NoReply
               /\ future'[r].state \notin {"UNUSED", "NO_RESULT_YET"} =>
                     future'[r] = ErrorReply \/ (future'[r] = verdict'[r] /\ verdict'[r] # NoReply)
    <3>1. verdict'[r] = verdict[r] \/ verdict[r] = NoReply
      BY VerdictEffect, MoveEffect DEF UndecidedInv
    <3> QED BY <2>2, <3>1 DEF ToldInv
  <2>3. ErrorReply.state = "RESULT_IS_EXCEPTION"
    BY DEF ErrorReply
  <2>4. ASSUME NEW r \in Call
        PROVE  /\ future'[r].state = "NO_RESULT_YET" => future'[r] = NoReply
               /\ future'[r].state \notin {"UNUSED", "NO_RESULT_YET"} =>
                     future'[r] = ErrorReply \/ (future'[r] = verdict'[r] /\ verdict'[r] # NoReply)
    <3>1. CASE future'[r] = future[r]
      BY <2>2, <3>1
    <3>2. CASE future'[r] # future[r]
      <4>1. future'[r] = ErrorReply \/ (pc = "replying" /\ r = current /\ future'[r] = reply)
        BY <1>2, <3>2, FutureEffect
      <4>2. future'[r].state # "NO_RESULT_YET"
        BY <2>3, <4>1 DEF CurrentInv
      <4> QED BY <2>1, <3>2, <4>2
    <3> QED BY <3>1, <3>2
  <2> QED BY <2>4 DEF ToldInv, ErrorReply, NoReply
<1> QED BY <1>1, <1>2, QueueEffect

\* The invariant of the requests and what their callers are told.
ServedInv == SafetyInv /\ OrderInv /\ UndecidedInv /\ ToldInv

LEMMA ServedInit == Init => ServedInv
<1> SUFFICES ASSUME Init PROVE ServedInv
  OBVIOUS
<1>1. OrderInv
  BY ConstantFacts DEF Init, OrderInv, Issued, Range, Assumptions
<1>2. UndecidedInv /\ ToldInv
  BY DEF Init, UndecidedInv, ToldInv, Range
<1> QED BY <1>1, <1>2, SafetyInit DEF ServedInv

LEMMA ServedStep == ServedInv /\ [Next]_vars => ServedInv'
  BY SafetyStep, OrderStep, UndecidedStep, ToldStep DEF ServedInv, SafetyInv

LEMMA ServedAlways == Spec => []ServedInv
  BY ServedInit, ServedStep, PTL DEF Spec

\* The requests of one client are handled in the order in which it made them,
\* also when it did not wait for the answers.
THEOREM ServedInOrder == Spec => ProgramOrder
<1>1. ASSUME BaseInv, PlacedInv, OrderInv, TakeRequest, NEW r \in Call,
             r < current', request[r].proxy = request[current'].proxy, Issued(r), InQueue(r)
      PROVE  FALSE
  <2>1. /\ fifo # <<>> /\ current' = Head(fifo) /\ current = NoCall
        /\ Head(fifo) \in Range(fifo) /\ Head(fifo) \in Call
    BY <1>1, TailType, RangeTail DEF TakeRequest, BaseInv, CurrentInv, TypeOK
  <2>2. \A s \in Call : s < r => ~(r < s)
    BY DEF Call
  <2>3. ~(r < r)
    BY DEF Call
  <2>4. CASE \E p \in Proxy : r \in Range(outbox[p])
    BY <1>1, <2>1, <2>2, <2>4 DEF OrderInv, PlacedInv
  <2>5. CASE r \in Range(fifo)
    <3>1. PICK i \in DOMAIN fifo : fifo[i] = r
      BY <2>5, RangeIndex
    <3>2. i = 1 \/ 1 < i
      <4>1. fifo \in Seq(Call) BY <1>1 DEF BaseInv, TypeOK
      <4>2. DOMAIN fifo = 1 .. Len(fifo) /\ Len(fifo) \in Nat BY <4>1
      <4> QED BY <4>2
    <3>3. 1 \in DOMAIN fifo /\ Head(fifo) = fifo[1]
      BY <1>1, <2>1, TailIndex DEF BaseInv, TypeOK
    <3> QED BY <1>1, <2>1, <2>2, <2>3, <3>1, <3>2, <3>3 DEF OrderInv
  <2> QED BY <1>1, <2>1, <2>4, <2>5, ConstantFacts DEF InQueue, Assumptions
<1>2. ServedInv /\ [Next]_vars
        => [TakeRequest => \A r \in Call :
              r < current' /\ request[r].proxy = request[current'].proxy /\ Issued(r) => ~InQueue(r)]_vars
  BY <1>1 DEF ServedInv, SafetyInv
<1> QED BY <1>2, ServedAlways, PTL DEF Spec, ProgramOrder

-----------------------------------------------------------------------------
(* Whose lock it is *)

\* What a client does when it makes call r.
Called(p, r, o, t) ==
  /\ request'[r] = [proxy |-> p, op |-> o, token |-> t]
  /\ future'[r] = NoReply
  /\ registered' = registered \cup {r}
  /\ \A s \in Call \ {r} : request'[s] = request[s] /\ future'[s] = future[s]
  /\ ownToken' = ownToken /\ lockingToken' = lockingToken /\ verdict' = verdict
  /\ ~Issued(r) /\ verdict[r] = NoReply /\ waiting[p] = NoCall
  /\ \/ waiting'[p] = r
     \/ o = "METHOD" /\ waiting'[p] = NoCall
  /\ \/ o = "ACQUIRE" /\ trying'[p] = t /\ t \in {r, trying[p]} \cup CustomToken
     \/ o # "ACQUIRE" /\ trying'[p] = NoToken
  /\ \A q \in Proxy \ {p} : waiting'[q] = waiting[q] /\ trying'[q] = trying[q]

LEMMA CallEffect ==
  ASSUME ServedInv, NEW p \in Proxy, NEW r \in Call, ClientCall(p, r), ~WaitFuture(p, r)
  PROVE  \E o \in Op : \E t : Called(p, r, o, t)
<1> USE DEF ServedInv, SafetyInv, BaseInv
<1>1. ASSUME NEW o \in Op, NEW t, Send(p, r, o, t)
      PROVE  /\ request'[r] = [proxy |-> p, op |-> o, token |-> t]
             /\ future'[r] = NoReply
             /\ registered' = registered \cup {r}
             /\ \A s \in Call \ {r} : request'[s] = request[s] /\ future'[s] = future[s]
             /\ ownToken' = ownToken /\ lockingToken' = lockingToken /\ verdict' = verdict
             /\ ~Issued(r) /\ waiting[p] = NoCall
  BY <1>1 DEF Send, Fresh, Idle, Issued, TypeOK, threadVars, history
<1>2. ~Issued(r) => verdict[r] = NoReply
  BY DEF PlacedInv
<1>3. CASE CallMethod(p, r) \/ CallNonBlocking(p, r)
  <2>1. Send(p, r, "METHOD", ownToken[p])
    BY <1>3 DEF CallMethod, CallNonBlocking
  <2>2. /\ waiting'[p] = r \/ waiting'[p] = waiting[p]
        /\ trying'[p] = NoToken
        /\ \A q \in Proxy \ {p} : waiting'[q] = waiting[q] /\ trying'[q] = trying[q]
    BY <1>3 DEF CallMethod, CallNonBlocking, TypeOK
  <2>3. Called(p, r, "METHOD", ownToken[p])
    BY <1>1, <1>2, <2>1, <2>2 DEF Op, Called
  <2> QED BY <2>3 DEF Op
<1>4. CASE Lock(p, r)
  <2>1. PICK t \in {r} \cup CustomToken :
           /\ Send(p, r, "ACQUIRE", t)
           /\ waiting' = [waiting EXCEPT ![p] = r]
           /\ trying' = [trying EXCEPT ![p] = t]
    BY <1>4 DEF Lock
  <2>2. /\ waiting'[p] = r /\ trying'[p] = t
        /\ \A q \in Proxy \ {p} : waiting'[q] = waiting[q] /\ trying'[q] = trying[q]
    BY <2>1 DEF TypeOK
  <2>3. Called(p, r, "ACQUIRE", t)
    BY <1>1, <1>2, <2>1, <2>2 DEF Op, Called
  <2> QED BY <2>3 DEF Op
<1>5. CASE RetryLock(p, r)
  <2>1. Send(p, r, "ACQUIRE", trying[p])
    BY <1>5 DEF RetryLock
  <2>2. /\ waiting'[p] = r /\ trying' = trying
        /\ \A q \in Proxy \ {p} : waiting'[q] = waiting[q]
    BY <1>5 DEF RetryLock, TypeOK
  <2>3. Called(p, r, "ACQUIRE", trying[p])
    BY <1>1, <1>2, <2>1, <2>2 DEF Op, Called
  <2> QED BY <2>3 DEF Op
<1>6. ASSUME Unlock(p, r) \/ ForceUnlock(p, r) \/ IsLocked(p, r)
      PROVE  /\ waiting'[p] = r /\ trying' = trying /\ trying[p] = NoToken
             /\ \A q \in Proxy \ {p} : waiting'[q] = waiting[q]
  BY <1>6 DEF Unlock, ForceUnlock, IsLocked, TypeOK
<1>7. CASE Unlock(p, r)
  <2>1. PICK t : Send(p, r, "RELEASE", t)
    BY <1>7 DEF Unlock
  <2>2. Called(p, r, "RELEASE", t)
    BY <1>1, <1>2, <1>6, <1>7, <2>1 DEF Op, Called
  <2> QED BY <2>2 DEF Op
<1>8. CASE ForceUnlock(p, r)
  <2>1. Send(p, r, "FORCE_RELEASE", ownToken[p])
    BY <1>8 DEF ForceUnlock
  <2>2. Called(p, r, "FORCE_RELEASE", ownToken[p])
    BY <1>1, <1>2, <1>6, <1>8, <2>1 DEF Op, Called
  <2> QED BY <2>2 DEF Op
<1>9. CASE IsLocked(p, r)
  <2>1. Send(p, r, "QUERY", ownToken[p])
    BY <1>9 DEF IsLocked
  <2>2. Called(p, r, "QUERY", ownToken[p])
    BY <1>1, <1>2, <1>6, <1>9, <2>1 DEF Op, Called
  <2> QED BY <2>2 DEF Op
<1> QED BY <1>3, <1>4, <1>5, <1>7, <1>8, <1>9 DEF ClientCall

\* A client starts to wait for a call that it has made without waiting.
LEMMA WaitEffect ==
  ASSUME ServedInv, BlockedInv, NEW p \in Proxy, NEW r \in Call, WaitFuture(p, r)
  PROVE  /\ UNCHANGED <<request, future, registered, ownToken, trying, lockingToken, verdict>>
         /\ request[r].op = "METHOD" /\ waiting[p] = NoCall /\ trying[p] = NoToken
         /\ waiting'[p] = r /\ \A q \in Proxy \ {p} : waiting'[q] = waiting[q]
<1>1. /\ UNCHANGED <<request, future, registered, ownToken, trying, lockingToken, verdict>>
      /\ waiting[p] = NoCall /\ trying[p] = NoToken /\ r \in registered /\ request[r].proxy = p
      /\ waiting' = [waiting EXCEPT ![p] = r]
  BY DEF WaitFuture, Idle, callVars, threadVars, history
<1>2. waiting[p] # r
  BY <1>1, ConstantFacts DEF Assumptions
<1> QED BY <1>1, <1>2 DEF BlockedInv, ServedInv, SafetyInv, BaseInv, TypeOK

\* A client gets an answer, or stops waiting.
LEMMA ReturnEffect ==
  ASSUME ServedInv, BlockedInv, NEW p \in Proxy, Return(p)
  PROVE  /\ UNCHANGED <<request, future, lockingToken, verdict>>
         /\ waiting[p] \in Call /\ Issued(waiting[p]) /\ request[waiting[p]].proxy = p
         /\ future[waiting[p]].state # "NO_RESULT_YET"
         /\ registered' = registered \ {waiting[p]}
         /\ waiting'[p] = NoCall
         /\ \A q \in Proxy \ {p} : /\ waiting'[q] = waiting[q] /\ trying'[q] = trying[q]
                                   /\ ownToken'[q] = ownToken[q]
         /\ \/ /\ future[waiting[p]] = ErrorReply
               /\ trying'[p] = NoToken /\ ownToken'[p] = ownToken[p]
            \/ /\ future[waiting[p]] = verdict[waiting[p]] /\ verdict[waiting[p]] # NoReply
               /\ \/ /\ request[waiting[p]].op = "ACQUIRE"
                     /\ future[waiting[p]] = ValueReply(request[waiting[p]].token)
                     /\ trying[p] = request[waiting[p]].token
                     /\ trying'[p] = NoToken /\ ownToken'[p] = request[waiting[p]].token
                  \/ /\ request[waiting[p]].op \in {"RELEASE", "FORCE_RELEASE"}
                     /\ future[waiting[p]] = ValueReply(NoToken)
                     /\ trying'[p] \in {trying[p], NoToken} /\ ownToken'[p] = NoToken
                  \/ /\ ~(/\ request[waiting[p]].op = "ACQUIRE"
                          /\ future[waiting[p]] = ValueReply(request[waiting[p]].token))
                     /\ trying'[p] \in {trying[p], NoToken} /\ ownToken'[p] = ownToken[p]
<1> USE DEF ServedInv, SafetyInv, BaseInv
<1> DEFINE r == waiting[p]
<1>1. /\ r \in Call /\ Issued(r) /\ request[r].proxy = p
      /\ future[r] \in [state : FutureState, token : Token \cup {NoToken, Denied, Locked}]
  BY DEF Return, TypeOK, IdentityInv, NoCall
<1>2. /\ UNCHANGED <<request, future, lockingToken, verdict>>
      /\ future[r].state # "NO_RESULT_YET"
      /\ registered' = registered \ {r}
      /\ waiting'[p] = NoCall
      /\ \A q \in Proxy \ {p} : /\ waiting'[q] = waiting[q] /\ trying'[q] = trying[q]
                                /\ ownToken'[q] = ownToken[q]
  BY DEF Return, TypeOK, threadVars, history
<1>3. \A t : future[r] = ValueReply(t) <=> future[r].state = "RESULT_IS_VALUE" /\ future[r].token = t
  BY <1>1 DEF ValueReply
<1> DEFINE granted == request[r].op = "ACQUIRE" /\ future[r] = ValueReply(request[r].token)
           released == request[r].op \in {"RELEASE", "FORCE_RELEASE"} /\ future[r] = ValueReply(NoToken)
<1>4. /\ ownToken'[p] = IF granted THEN request[r].token ELSE IF released THEN NoToken ELSE ownToken[p]
      /\ trying'[p] = IF granted \/ future[r].state = "RESULT_IS_EXCEPTION" THEN NoToken ELSE trying[p]
  BY <1>3 DEF Return, TypeOK
<1>5. \/ future[r] = ErrorReply
      \/ future[r] = verdict[r] /\ verdict[r] # NoReply
  BY <1>1, <1>2 DEF ToldInv, Issued
<1>6. future[r] = ErrorReply => ~granted /\ ~released /\ future[r].state = "RESULT_IS_EXCEPTION"
  BY DEF ErrorReply, ValueReply
<1>7. granted => trying[p] = request[r].token
  BY <1>1 DEF BlockedInv
<1> QED
  <2> HIDE DEF granted, released
  <2>1. \/ /\ future[r] = ErrorReply
           /\ trying'[p] = NoToken /\ ownToken'[p] = ownToken[p]
        \/ /\ future[r] = verdict[r] /\ verdict[r] # NoReply
           /\ \/ granted /\ trying[p] = request[r].token
                 /\ trying'[p] = NoToken /\ ownToken'[p] = request[r].token
              \/ released /\ trying'[p] \in {trying[p], NoToken} /\ ownToken'[p] = NoToken
              \/ ~granted /\ trying'[p] \in {trying[p], NoToken} /\ ownToken'[p] = ownToken[p]
    BY <1>4, <1>5, <1>6, <1>7
  <2> QED BY <1>1, <1>2, <2>1 DEF granted, released

\* A client stops waiting for a method, or gives lock() up.
LEMMA GiveUpEffect ==
  ASSUME ServedInv, NEW p \in Proxy, TimeOut(p) \/ GiveUpLock(p)
  PROVE  /\ UNCHANGED <<request, future, ownToken, lockingToken, verdict>>
         /\ registered' \subseteq registered
         /\ waiting[p] = NoCall \/ (waiting[p] \in Call /\ request[waiting[p]].op = "METHOD")
         /\ waiting'[p] = NoCall /\ trying'[p] \in {trying[p], NoToken}
         /\ \A q \in Proxy \ {p} : waiting'[q] = waiting[q] /\ trying'[q] = trying[q]
  BY DEF TimeOut, GiveUpLock, ServedInv, SafetyInv, BaseInv, TypeOK, callVars, threadVars, history

\* All other steps leave the clients alone.
LEMMA RestEffect ==
  ASSUME ServedInv, [Next]_vars, ~(\E p \in Proxy, r \in Call : ClientCall(p, r)),
         ~(\E p \in Proxy : Return(p) \/ TimeOut(p) \/ GiveUpLock(p))
  PROVE  UNCHANGED clientVars /\ request' = request /\ registered' \subseteq registered
<1>1. request' = request /\ registered' \subseteq registered
  BY FutureEffect DEF ServedInv, SafetyInv
<1>2. ASSUME NEW p \in Proxy, Deliver(p) \/ ConnectionLost(p)
      PROVE  UNCHANGED clientVars
  BY <1>2 DEF Deliver, FindHandler, UnknownDestination, PushRequest, AlreadyStopped, Undeliverable,
     ConnectionLost
<1>3. ASSUME Context \/ UNCHANGED vars
      PROVE  UNCHANGED clientVars
  BY <1>3 DEF Context, EnterInMap, Register, MakeFails, Unregister, StopRunning, RequestShutdown, Join, vars
<1>4. ASSUME Thread
      PROVE  UNCHANGED clientVars
  BY <1>4 DEF Thread, MakeObject, TakeRequest, SeeShutdown, Handle, InvokeMethod, RefuseMethod,
     Acquire, Release, ForceRelease, ForceReleaseUnlocked, Query, Conclude, SendReply, RejectRequest,
     ReleaseObject
<1> QED BY <1>1, <1>2, <1>3, <1>4 DEF Next

\* A verdict is final.
LEMMA VerdictStable ==
  ASSUME ServedInv, [Next]_vars, NEW r \in Call, verdict'[r] # verdict[r]
  PROVE  Handle /\ pc = "handling" /\ r = current /\ verdict[r] = NoReply /\ verdict'[r] # NoReply
<1>1. PICK v \in Reply : v.state # "NO_RESULT_YET" /\ Conclude(v) /\ Handle /\ pc = "handling"
  BY VerdictEffect DEF ServedInv, SafetyInv
<1> QED BY <1>1 DEF Conclude, NoReply, ServedInv, SafetyInv, BaseInv, TypeOK, UndecidedInv

\* What the clients know of the lock.
ClientInv == BlockedInv /\ AttemptInv /\ FreshTokenInv /\ KeptTokenInv /\ HolderInv

\* A new call carries a token that is no client's, and blocks its own client.
LEMMA ClientsCall ==
  ASSUME ServedInv, ClientInv, IdentityInv', NEW p \in Proxy, NEW r \in Call,
         ClientCall(p, r), ~WaitFuture(p, r)
  PROVE  ClientInv'
<1> USE ConstantFacts DEF Assumptions, ClientInv
<1>0. PICK o \in Op : \E t : Called(p, r, o, t)
  BY CallEffect
<1>1. PICK t : Called(p, r, o, t)
  BY <1>0
<1> USE <1>1 DEF Called
<1>2. NoToken \notin Call /\ CustomToken \cap Call = {} /\ NoCall \notin Call
  BY TokenAssumption DEF Token
<1>3. future[r].state = "UNUSED" /\ NoReply.state = "NO_RESULT_YET"
  BY DEF Issued, NoReply
<1>4. r \notin registered /\ request[r] = NoRequest /\ NoRequest.op = "METHOD"
  BY DEF ServedInv, SafetyInv, IdentityInv, NoRequest
<1>5. \A q \in Proxy : ownToken[q] # r /\ trying[q] # r
  BY DEF ServedInv, SafetyInv, IdentityInv
<1>6. \A s \in Call : request[s].token # r
  BY DEF ServedInv, SafetyInv, IdentityInv
<1>7. BlockedInv'
  <2>1. ASSUME NEW s \in Call, future'[s].state = "NO_RESULT_YET", request'[s].op # "METHOD"
        PROVE  waiting'[request'[s].proxy] = s
    <3>1. CASE s = r
      BY <2>1, <3>1
    <3>2. CASE s # r
      <4>1. waiting[request[s].proxy] = s /\ request[s].proxy \in Proxy
        BY <2>1, <3>2 DEF BlockedInv, Issued, ServedInv, SafetyInv, BaseInv, TypeOK, Request, NoRequest
      <4> QED BY <1>2, <3>2, <4>1
    <3> QED BY <3>1, <3>2
  <2>2. ASSUME NEW s \in registered', request'[s].op # "METHOD"
        PROVE  waiting'[request'[s].proxy] = s
    <3>1. CASE s = r
      BY <2>2, <3>1
    <3>2. CASE s # r
      <4>1. s \in Call
        BY <2>2, <3>2 DEF ServedInv, SafetyInv, BaseInv, TypeOK
      <4>2. waiting[request[s].proxy] = s /\ request[s].proxy \in Proxy
        BY <2>2, <3>2, <4>1 DEF BlockedInv, ServedInv, SafetyInv, BaseInv, TypeOK, Request, NoRequest
      <4> QED BY <1>2, <3>2, <4>1, <4>2
    <3> QED BY <3>1, <3>2
  <2>3. ASSUME NEW q \in Proxy, waiting'[q] \in Call, request'[waiting'[q]].op = "ACQUIRE"
        PROVE  trying'[q] = request'[waiting'[q]].token
    <3>1. CASE q = p
      BY <1>2, <2>3, <3>1
    <3>2. CASE q # p
      <4>1. waiting'[q] = waiting[q] /\ waiting[q] # r
        BY <2>3, <3>2 DEF ServedInv, SafetyInv, IdentityInv
      <4> QED BY <2>3, <3>2, <4>1 DEF BlockedInv
    <3> QED BY <3>1, <3>2
  <2> QED BY <2>1, <2>2, <2>3 DEF BlockedInv, Issued
<1>8. AttemptInv'
  <2>1. ASSUME NEW q \in Proxy, request'[r].op = "ACQUIRE", request'[r].token \in Call
        PROVE  /\ request'[r].token = trying'[q] => r = waiting'[q]
               /\ request'[r].token # ownToken'[q]
    <3>1. o = "ACQUIRE" /\ t = request'[r].token /\ waiting'[p] = r
      BY <2>1
    <3>2. request'[t].proxy = p
      BY <2>1, <3>1 DEF IdentityInv
    <3>3. t = trying'[q] => request'[t].proxy = q
      BY <2>1, <3>1 DEF IdentityInv
    <3>4. t # ownToken[q]
      BY <1>2, <1>5, <2>1, <3>1 DEF FreshTokenInv
    <3> QED BY <3>1, <3>2, <3>3, <3>4
  <2>2. ASSUME NEW q \in Proxy, NEW s \in Call, s # r, request[s].op = "ACQUIRE", request[s].token \in Call
        PROVE  /\ request[s].token = trying'[q] => s = waiting'[q] \/ verdict[s] # NoReply
               /\ request[s].token = ownToken[q] => verdict[s] # NoReply
    <3>1. CASE q # p
      BY <2>2, <3>1 DEF AttemptInv
    <3>2. CASE q = p /\ request[s].token = trying'[q]
      <4>1. trying'[p] = trying[p]
        BY <1>2, <1>6, <2>2, <3>2
      <4>2. s = waiting[p] \/ verdict[s] # NoReply
        BY <2>2, <3>2, <4>1 DEF AttemptInv
      <4> QED BY <1>2, <2>2, <3>2, <4>2 DEF AttemptInv
    <3> QED BY <2>2, <3>1, <3>2 DEF AttemptInv
  <2> QED BY <2>1, <2>2 DEF AttemptInv
<1>9. FreshTokenInv'
  BY <1>2, <1>5 DEF FreshTokenInv
<1>10. KeptTokenInv'
  <2>1. ASSUME NEW q \in Proxy, ownToken[q] \in Call, lockingToken = ownToken[q], waiting'[q] \in Call
        PROVE  /\ request'[waiting'[q]].op = "ACQUIRE" /\ request'[waiting'[q]].token # ownToken[q] =>
                     verdict[waiting'[q]] # ValueReply(request'[waiting'[q]].token)
               /\ request'[waiting'[q]].op \in {"RELEASE", "FORCE_RELEASE"} =>
                     verdict[waiting'[q]] # ValueReply(NoToken)
    <3>1. CASE q = p
      <4>1. waiting'[q] = r /\ \A u : NoReply # ValueReply(u)
        BY <1>2, <2>1, <3>1 DEF NoReply, ValueReply
      <4> QED BY <4>1
    <3>2. CASE q # p
      <4>1. waiting'[q] = waiting[q] /\ waiting[q] # r
        BY <2>1, <3>2 DEF ServedInv, SafetyInv, IdentityInv
      <4> QED BY <2>1, <4>1 DEF KeptTokenInv
    <3> QED BY <3>1, <3>2
  <2> QED BY <2>1 DEF KeptTokenInv, ValueReply
<1>11. HolderInv'
  <2>1. ASSUME NEW s \in Call, OnItsWay(s, lockingToken)
        PROVE  OnItsWay(s, lockingToken)'
    <3>1. s # r
      BY <1>4, <2>1 DEF OnItsWay
    <3>2. request[s].proxy \in Proxy
      BY <2>1 DEF OnItsWay, ServedInv, SafetyInv, BaseInv, TypeOK, Request, NoRequest
    <3>3. waiting[request[s].proxy] = s => waiting'[request[s].proxy] = s
      BY <1>2, <3>2
    <3> QED BY <2>1, <3>1, <3>3 DEF OnItsWay, ValueReply, ErrorReply, NoReply
  <2> QED BY <2>1 DEF HolderInv, OnItsWay, ValueReply, ErrorReply, NoReply
<1> QED BY <1>7, <1>8, <1>9, <1>10, <1>11

\* Types that the following lemmas need of requests.
LEMMA AcquireType ==
  ASSUME ServedInv, NEW r \in Call, request[r].op # "METHOD"
  PROVE  request[r].proxy \in Proxy /\ request[r].token \in Token \cup {NoToken}
  BY DEF ServedInv, SafetyInv, BaseInv, TypeOK, Request, NoRequest

\* Waiting for a method call and giving up take no token from anybody.
LEMMA ClientsWait ==
  ASSUME ServedInv, ClientInv, NEW p \in Proxy, (\E r \in Call : WaitFuture(p, r)) \/ TimeOut(p) \/ GiveUpLock(p)
  PROVE  ClientInv'
<1> USE ConstantFacts DEF Assumptions, ClientInv
<1>1. /\ UNCHANGED <<request, future, ownToken, lockingToken, verdict>>
      /\ registered' \subseteq registered
      /\ waiting[p] = NoCall \/ (waiting[p] \in Call /\ request[waiting[p]].op = "METHOD")
      /\ waiting'[p] = NoCall \/ (waiting'[p] \in Call /\ request[waiting'[p]].op = "METHOD")
      /\ trying'[p] \in {trying[p], NoToken}
      /\ \A q \in Proxy \ {p} : waiting'[q] = waiting[q] /\ trying'[q] = trying[q]
  BY WaitEffect, GiveUpEffect
<1>2. NoToken \notin Call /\ NoCall \notin Call /\ registered \subseteq Call
  BY TokenAssumption DEF Token, ServedInv, SafetyInv, BaseInv, TypeOK
<1>3. ASSUME NEW s \in Call, request[s].op # "METHOD", waiting[request[s].proxy] = s
      PROVE  waiting'[request[s].proxy] = s
  BY <1>1, <1>2, <1>3, AcquireType
<1>4. BlockedInv'
  <2>1. ASSUME NEW s \in Call, Issued(s), request[s].op # "METHOD", future[s].state = "NO_RESULT_YET"
        PROVE  waiting'[request[s].proxy] = s
    BY <1>3, <2>1 DEF BlockedInv
  <2>2. ASSUME NEW s \in registered', request[s].op # "METHOD"
        PROVE  waiting'[request[s].proxy] = s
    BY <1>1, <1>2, <1>3, <2>2 DEF BlockedInv
  <2>3. ASSUME NEW q \in Proxy, waiting'[q] \in Call, request[waiting'[q]].op = "ACQUIRE"
        PROVE  trying'[q] = request[waiting'[q]].token
    BY <1>1, <1>2, <2>3 DEF BlockedInv
  <2> QED BY <1>1, <2>1, <2>2, <2>3 DEF BlockedInv, Issued
<1>5. AttemptInv'
  <2>1. ASSUME NEW q \in Proxy, NEW s \in Call, request[s].op = "ACQUIRE", request[s].token \in Call,
               request[s].token = trying'[q]
        PROVE  s = waiting'[q] \/ verdict[s] # NoReply
    BY <1>1, <1>2, <2>1 DEF AttemptInv
  <2> QED BY <1>1, <2>1 DEF AttemptInv
<1>6. FreshTokenInv'
  BY <1>1, <1>2 DEF FreshTokenInv
<1>7. KeptTokenInv'
  <2>1. ASSUME NEW q \in Proxy, ownToken[q] \in Call, lockingToken = ownToken[q], waiting'[q] \in Call
        PROVE  /\ request[waiting'[q]].op = "ACQUIRE" /\ request[waiting'[q]].token # ownToken[q] =>
                     verdict[waiting'[q]] # ValueReply(request[waiting'[q]].token)
               /\ request[waiting'[q]].op \in {"RELEASE", "FORCE_RELEASE"} =>
                     verdict[waiting'[q]] # ValueReply(NoToken)
    BY <1>1, <1>2, <2>1 DEF KeptTokenInv
  <2> QED BY <1>1, <2>1 DEF KeptTokenInv, ValueReply
<1>8. HolderInv'
  BY <1>1, <1>3 DEF HolderInv, OnItsWay, ValueReply, ErrorReply, NoReply
<1> QED BY <1>4, <1>5, <1>6, <1>7, <1>8

\* A client that returns from a call takes a token only when the object granted
\* it, and loses its own only when the object has given it up.
LEMMA ClientsReturn ==
  ASSUME ServedInv, ClientInv, IdentityInv', NEW p \in Proxy, Return(p)
  PROVE  ClientInv'
<1> USE ConstantFacts DEF Assumptions, ClientInv
<1> DEFINE r == waiting[p]
           Failed == /\ future[r] = ErrorReply
                     /\ trying'[p] = NoToken /\ ownToken'[p] = ownToken[p]
           Got == /\ request[r].op = "ACQUIRE"
                  /\ future[r] = ValueReply(request[r].token)
                  /\ trying[p] = request[r].token
                  /\ trying'[p] = NoToken /\ ownToken'[p] = request[r].token
           Gave == /\ request[r].op \in {"RELEASE", "FORCE_RELEASE"}
                   /\ future[r] = ValueReply(NoToken)
                   /\ trying'[p] \in {trying[p], NoToken} /\ ownToken'[p] = NoToken
           Other == /\ ~(request[r].op = "ACQUIRE" /\ future[r] = ValueReply(request[r].token))
                    /\ trying'[p] \in {trying[p], NoToken} /\ ownToken'[p] = ownToken[p]
<1>1. /\ UNCHANGED <<request, future, lockingToken, verdict>>
      /\ r \in Call /\ Issued(r) /\ request[r].proxy = p
      /\ future[r].state # "NO_RESULT_YET"
      /\ registered' = registered \ {r}
      /\ waiting'[p] = NoCall
      /\ \A q \in Proxy \ {p} : /\ waiting'[q] = waiting[q] /\ trying'[q] = trying[q]
                                /\ ownToken'[q] = ownToken[q]
  BY ReturnEffect
<1>2. \/ Failed
      \/ future[r] = verdict[r] /\ verdict[r] # NoReply /\ (Got \/ Gave \/ Other)
  BY ReturnEffect
<1>3. NoToken \notin Call /\ NoCall \notin Call /\ registered \subseteq Call
  BY TokenAssumption DEF Token, ServedInv, SafetyInv, BaseInv, TypeOK
<1>4. NoReply.state = "NO_RESULT_YET" /\ \A u : ErrorReply # ValueReply(u) /\ NoReply # ValueReply(u)
  BY DEF NoReply, ErrorReply, ValueReply
<1> HIDE DEF Failed, Got, Gave, Other
<1>5. trying'[p] \in {trying[p], NoToken}
  BY <1>2 DEF Failed, Got, Gave, Other
<1>6. ownToken'[p] \in {ownToken[p], NoToken} \/ (ownToken'[p] = trying[p] /\ Got)
  BY <1>2 DEF Failed, Got, Gave, Other
<1>7. BlockedInv'
  <2>1. ASSUME NEW s \in Call, s # r, request[s].op # "METHOD", waiting[request[s].proxy] = s
        PROVE  waiting'[request[s].proxy] = s
    BY <1>1, <2>1, AcquireType
  <2>2. ASSUME NEW s \in Call, Issued(s), request[s].op # "METHOD", future[s].state = "NO_RESULT_YET"
        PROVE  waiting'[request[s].proxy] = s
    BY <1>1, <2>1, <2>2 DEF BlockedInv
  <2>3. ASSUME NEW s \in registered', request[s].op # "METHOD"
        PROVE  waiting'[request[s].proxy] = s
    BY <1>1, <1>3, <2>1, <2>3 DEF BlockedInv
  <2>4. ASSUME NEW q \in Proxy, waiting'[q] \in Call, request[waiting'[q]].op = "ACQUIRE"
        PROVE  trying'[q] = request[waiting'[q]].token
    BY <1>1, <1>3, <2>4 DEF BlockedInv
  <2> QED BY <1>1, <2>2, <2>3, <2>4 DEF BlockedInv, Issued
<1>8. AttemptInv'
  <2>1. ASSUME NEW q \in Proxy, NEW s \in Call, request[s].op = "ACQUIRE", request[s].token \in Call,
               request[s].token = trying'[q]
        PROVE  s = waiting'[q] \/ verdict[s] # NoReply
    <3>1. CASE q = p
      <4>1. ~Failed /\ trying'[p] = trying[p]
        BY <1>3, <1>5, <2>1, <3>1 DEF Failed
      <4> QED BY <1>2, <2>1, <3>1, <4>1 DEF AttemptInv
    <3>2. CASE q # p
      BY <1>1, <2>1, <3>2 DEF AttemptInv
    <3> QED BY <3>1, <3>2
  <2>2. ASSUME NEW q \in Proxy, NEW s \in Call, request[s].op = "ACQUIRE", request[s].token \in Call,
               request[s].token = ownToken'[q]
        PROVE  verdict[s] # NoReply
    <3>1. CASE ownToken'[q] = ownToken[q]
      BY <2>2, <3>1 DEF AttemptInv
    <3>2. CASE q = p /\ ownToken'[p] = trying[p] /\ Got
      <4>1. s = r \/ verdict[s] # NoReply
        BY <2>2, <3>2 DEF AttemptInv
      <4>2. ~Failed
        BY <1>4, <3>2 DEF Failed, Got
      <4> QED BY <1>2, <4>1, <4>2
    <3> QED BY <1>1, <1>3, <1>6, <2>2, <3>1, <3>2
  <2> QED BY <1>1, <2>1, <2>2 DEF AttemptInv
<1>9. FreshTokenInv'
  <2>1. ASSUME NEW a \in Proxy, NEW b \in Proxy, trying'[a] \in Call, ownToken'[b] = trying'[a]
        PROVE  FALSE
    <3>1. CASE ownToken'[b] = ownToken[b]
      BY <1>1, <1>3, <1>5, <2>1, <3>1 DEF FreshTokenInv
    <3>2. CASE b = p /\ Got
      <4>1. a # p
        BY <1>3, <2>1, <3>2 DEF Got
      <4>2. request'[trying'[a]].proxy = a /\ request'[ownToken'[b]].proxy = b
        BY <2>1 DEF IdentityInv
      <4> QED BY <2>1, <3>2, <4>1, <4>2
    <3> QED BY <1>1, <1>3, <1>6, <2>1, <3>1, <3>2
  <2> QED BY <2>1 DEF FreshTokenInv
<1>10. KeptTokenInv'
  <2>1. ASSUME NEW q \in Proxy, waiting'[q] \in Call
        PROVE  q # p /\ waiting'[q] = waiting[q] /\ ownToken'[q] = ownToken[q]
    BY <1>1, <1>3, <2>1
  <2> QED BY <1>1, <2>1 DEF KeptTokenInv, ValueReply
<1>11. HolderInv'
  <2>1. ASSUME NEW q \in Proxy, lockingToken \in Call, ownToken[q] = lockingToken
        PROVE  ownToken'[q] = lockingToken
    <3>1. CASE q # p
      BY <1>1, <2>1, <3>1
    <3>2. CASE q = p
      <4>1. ~Gave \/ Failed
        BY <1>1, <1>2, <2>1, <3>2 DEF KeptTokenInv, Gave
      <4>2. Got => request[r].token = ownToken[p] \/ Failed
        BY <1>1, <1>2, <2>1, <3>2 DEF KeptTokenInv, Got
      <4> QED BY <1>2, <2>1, <3>2, <4>1, <4>2 DEF Failed, Got, Other
    <3> QED BY <3>1, <3>2
  <2>2. ASSUME NEW s \in Call, lockingToken \in Call, OnItsWay(s, lockingToken)
        PROVE  (\E q \in Proxy : ownToken'[q] = lockingToken) \/ OnItsWay(s, lockingToken)'
    <3>1. CASE s = r
      <4>1. CASE future[r] = ErrorReply
        BY <1>1, <2>2, <3>1, <4>1 DEF OnItsWay, ValueReply, ErrorReply
      <4>2. CASE future[r] # ErrorReply
        <5>1. request[r].op = "ACQUIRE" /\ request[r].token = lockingToken /\ future[r] = ValueReply(lockingToken)
          BY <1>1, <1>4, <2>2, <3>1, <4>2 DEF OnItsWay
        <5>2. Got
          BY <1>2, <4>2, <5>1 DEF Failed, Gave, Other
        <5> QED BY <5>1, <5>2 DEF Got
      <4> QED BY <4>1, <4>2
    <3>2. CASE s # r
      <4>1. waiting[request[s].proxy] = s => waiting'[request[s].proxy] = s
        BY <1>1, <2>2, <3>2, AcquireType DEF OnItsWay
      <4> QED BY <1>1, <2>2, <4>1 DEF OnItsWay, ValueReply, ErrorReply, NoReply
    <3> QED BY <3>1, <3>2
  <2>3. CASE lockingToken \in Call
    <3>1. CASE \E q \in Proxy : ownToken[q] = lockingToken
      BY <1>1, <2>1, <2>3, <3>1 DEF HolderInv
    <3>2. CASE \E s \in Call : OnItsWay(s, lockingToken)
      BY <1>1, <2>2, <2>3, <3>2 DEF HolderInv, OnItsWay, ValueReply, ErrorReply, NoReply
    <3> QED BY <2>3, <3>1, <3>2 DEF HolderInv
  <2> QED BY <1>1, <2>3 DEF HolderInv
<1> QED BY <1>7, <1>8, <1>9, <1>10, <1>11

\* What a step of the thread can do to a lock that ends up with token t: the
\* request it handles did not ask for it, or the token was granted by it.
LEMMA GrantEffect ==
  ASSUME ServedInv, [Next]_vars, lockingToken' \in Call
  PROVE  \/ /\ lockingToken' = lockingToken
            /\ verdict'[current] # verdict[current] /\ current \in Call =>
                 /\ request[current].op = "ACQUIRE" /\ request[current].token # lockingToken =>
                       verdict'[current] # ValueReply(request[current].token)
                 /\ request[current].op \in {"RELEASE", "FORCE_RELEASE"} =>
                       verdict'[current] # ValueReply(NoToken)
         \/ /\ current \in Call /\ verdict[current] = NoReply
            /\ request[current].op = "ACQUIRE" /\ request[current].token = lockingToken'
            /\ verdict'[current] = ValueReply(lockingToken')
<1> USE DEF ServedInv, SafetyInv, BaseInv
<1>1. /\ NoToken \notin Call
      /\ Denied # NoToken
      /\ \A a, b : ValueReply(a) = ValueReply(b) => a = b
  BY TokenAssumption DEF Token, ValueReply
<1>2. CASE ~Handle
  <2>1. lockingToken' = lockingToken
    <3>1. CASE Thread
      BY <1>2, <3>1 DEF Thread, MakeObject, TakeRequest, SeeShutdown, SendReply, RejectRequest, ReleaseObject
    <3> QED BY <3>1, OthersEffect
  <2>2. verdict' = verdict
    BY <1>2, VerdictEffect
  <2> QED BY <2>1, <2>2
<1>3. ASSUME pc = "handling"
      PROVE  /\ current \in Call /\ verdict[current] = NoReply
             /\ \A v : Conclude(v) => verdict'[current] = v
             /\ request[current].op # "METHOD" => request[current].token \in Token \cup {NoToken}
             /\ Denied \notin Token
  BY <1>3, AcquireType, TokenAssumption DEF CurrentInv, UndecidedInv, Conclude, TypeOK
<1>4. CASE InvokeMethod \/ RefuseMethod \/ Query
  BY <1>4 DEF InvokeMethod, RefuseMethod, Query, Handling
<1>5. CASE Acquire
  <2> DEFINE t == request[current].token
  <2>1. /\ pc = "handling" /\ request[current].op = "ACQUIRE"
        /\ Conclude(ValueReply(IF lockingToken = NoToken \/ lockingToken = t THEN t ELSE Denied))
        /\ lockingToken' = IF lockingToken = NoToken THEN t ELSE lockingToken
    BY <1>5 DEF Acquire, Handling
  <2>2. verdict'[current] = ValueReply(IF lockingToken = NoToken \/ lockingToken = t THEN t ELSE Denied)
    BY <1>3, <2>1
  <2>3. t # Denied
    BY <1>3, <1>1, <2>1
  <2>4. CASE lockingToken = NoToken
    BY <1>3, <2>1, <2>2, <2>4
  <2>5. CASE lockingToken # NoToken
    BY <1>1, <2>1, <2>2, <2>3, <2>5
  <2> QED BY <2>4, <2>5
<1>6. CASE Release
  <2>1. /\ pc = "handling" /\ request[current].op = "RELEASE"
        /\ lockingToken' = IF lockingToken = request[current].token THEN NoToken ELSE lockingToken
        /\ Conclude(ValueReply(IF lockingToken = request[current].token \/ lockingToken = NoToken
                               THEN NoToken ELSE Denied))
    BY <1>6 DEF Release, Handling
  <2>2. lockingToken # request[current].token /\ lockingToken' = lockingToken /\ lockingToken # NoToken
    BY <1>1, <2>1
  <2>3. verdict'[current] = ValueReply(Denied)
    BY <1>3, <2>1, <2>2
  <2> QED BY <1>1, <2>1, <2>2, <2>3
<1>7. CASE ForceRelease
  BY <1>1, <1>7 DEF ForceRelease
<1>8. CASE ForceReleaseUnlocked
  BY <1>8 DEF ForceReleaseUnlocked, history
<1> QED BY <1>2, <1>4, <1>5, <1>6, <1>7, <1>8 DEF Handle

\* Where the clients do nothing, the thread gives the lock to nobody who does
\* not wait for it, or has been told of a failure.
LEMMA ClientsRest ==
  ASSUME ServedInv, ServedInv', ClientInv, [Next]_vars,
         ~(\E p \in Proxy, r \in Call : ClientCall(p, r)),
         ~(\E p \in Proxy : Return(p) \/ TimeOut(p) \/ GiveUpLock(p))
  PROVE  ClientInv'
<1> USE ConstantFacts DEF Assumptions, ClientInv
<1>1. /\ waiting' = waiting /\ ownToken' = ownToken /\ trying' = trying
      /\ request' = request /\ registered' \subseteq registered /\ registered \subseteq Call
  BY RestEffect DEF clientVars, ServedInv, SafetyInv, BaseInv, TypeOK
<1>2. \A s \in Call : /\ Issued(s)' = Issued(s)
                      /\ future'[s] # future[s] => /\ future[s].state = "NO_RESULT_YET"
                                                   /\ \/ future'[s] = ErrorReply
                                                      \/ pc = "replying" /\ s = current /\ future'[s] = reply
  BY FutureEffect DEF ServedInv, SafetyInv, Issued
<1>3. \A s \in Call : verdict'[s] # verdict[s] => s = current /\ verdict[s] = NoReply /\ verdict'[s] # NoReply
  BY VerdictStable
<1>4. BlockedInv'
  <2>1. ASSUME NEW s \in Call, future'[s].state = "NO_RESULT_YET"
        PROVE  future[s].state = "NO_RESULT_YET"
    BY <1>2, <2>1
  <2> QED BY <1>1, <1>2, <2>1 DEF BlockedInv, Issued
<1>5. AttemptInv'
  BY <1>1, <1>3 DEF AttemptInv
<1>6. FreshTokenInv'
  BY <1>1 DEF FreshTokenInv
<1>7. KeptTokenInv'
  <2>1. ASSUME NEW q \in Proxy, ownToken[q] \in Call, lockingToken' = ownToken[q], waiting[q] \in Call
        PROVE  /\ request[waiting[q]].op = "ACQUIRE" /\ request[waiting[q]].token # ownToken[q] =>
                     verdict'[waiting[q]] # ValueReply(request[waiting[q]].token)
               /\ request[waiting[q]].op \in {"RELEASE", "FORCE_RELEASE"} =>
                     verdict'[waiting[q]] # ValueReply(NoToken)
    <3>1. ~(/\ current \in Call /\ verdict[current] = NoReply
            /\ request[current].op = "ACQUIRE" /\ request[current].token = lockingToken')
      BY <2>1 DEF AttemptInv
    <3>2. /\ lockingToken' = lockingToken
          /\ verdict'[current] # verdict[current] /\ current \in Call =>
               /\ request[current].op = "ACQUIRE" /\ request[current].token # lockingToken =>
                     verdict'[current] # ValueReply(request[current].token)
               /\ request[current].op \in {"RELEASE", "FORCE_RELEASE"} =>
                     verdict'[current] # ValueReply(NoToken)
      BY <2>1, <3>1, GrantEffect
    <3>3. CASE verdict'[waiting[q]] = verdict[waiting[q]]
      BY <2>1, <3>2, <3>3 DEF KeptTokenInv
    <3>4. CASE verdict'[waiting[q]] # verdict[waiting[q]]
      BY <1>3, <2>1, <3>2, <3>4
    <3> QED BY <3>3, <3>4
  <2> QED BY <1>1, <2>1 DEF KeptTokenInv, ValueReply
<1>8. HolderInv'
  <2>1. \A u : ValueReply(u).state = "RESULT_IS_VALUE" /\ ErrorReply # ValueReply(u) /\ NoReply # ValueReply(u)
    BY DEF ValueReply, ErrorReply, NoReply
  <2>2. ErrorReply.state = "RESULT_IS_EXCEPTION" /\ NoReply.state = "NO_RESULT_YET"
    BY DEF ErrorReply, NoReply
  <2>3. ASSUME NEW s \in Call, OnItsWay(s, lockingToken)
        PROVE  OnItsWay(s, lockingToken)'
               \/ lockingToken' # lockingToken
    <3>1. verdict'[s] = verdict[s]
      BY <1>3, <2>1, <2>3 DEF OnItsWay
    <3>2. future'[s] # future[s] => future'[s] \in {ErrorReply, ValueReply(lockingToken)} /\ future[s] # ErrorReply
      BY <1>2, <2>2, <2>3 DEF OnItsWay, ServedInv, SafetyInv, BaseInv, CurrentInv
    <3> QED BY <1>1, <2>3, <3>1, <3>2 DEF OnItsWay, ValueReply, ErrorReply, NoReply
  <2>4. ASSUME NEW c \in Call, c = current, verdict[c] = NoReply,
               request[c].op = "ACQUIRE", request[c].token = lockingToken',
               verdict'[c] = ValueReply(lockingToken')
        PROVE  OnItsWay(c, lockingToken)'
    <3>1. verdict'[c] # verdict[c]
      BY <2>1, <2>4
    <3>2. \E v : Conclude(v)
      BY <3>1, VerdictEffect DEF ServedInv, SafetyInv
    <3>3. future' = future
      BY <3>2 DEF Conclude, callVars
    <3>4. Issued(c)
      BY <2>4 DEF ServedInv, SafetyInv, PlacedInv
    <3>5. CASE future[c].state = "NO_RESULT_YET"
      <4>1. future[c] = NoReply
        BY <3>5 DEF ServedInv, ToldInv
      <4>2. waiting[request[c].proxy] = c
        BY <2>4, <3>4, <3>5 DEF BlockedInv
      <4> QED BY <1>1, <2>4, <3>3, <4>1, <4>2 DEF OnItsWay, ValueReply, ErrorReply, NoReply
    <3>6. CASE future[c].state # "NO_RESULT_YET"
      <4>1. future[c] = ErrorReply
        BY <2>4, <3>4, <3>6 DEF ServedInv, ToldInv, Issued
      <4> QED BY <1>1, <2>4, <3>3, <4>1 DEF OnItsWay, ValueReply, ErrorReply, NoReply
    <3> QED BY <3>5, <3>6
  <2>5. CASE lockingToken' \in Call
    <3>1. CASE lockingToken' = lockingToken
      <4>1. CASE \E q \in Proxy : ownToken[q] = lockingToken
        BY <1>1, <3>1, <4>1 DEF HolderInv
      <4>2. CASE \E s \in Call : OnItsWay(s, lockingToken)
        BY <2>3, <3>1, <4>2 DEF HolderInv, OnItsWay, ValueReply, ErrorReply, NoReply
      <4> QED BY <2>5, <3>1, <4>1, <4>2 DEF HolderInv
    <3>2. CASE lockingToken' # lockingToken
      <4>1. \E c \in Call : OnItsWay(c, lockingToken)'
        BY <2>4, <2>5, <3>2, GrantEffect
      <4> QED BY <4>1 DEF HolderInv, OnItsWay, ValueReply, ErrorReply, NoReply
    <3> QED BY <3>1, <3>2
  <2> QED BY <2>5 DEF HolderInv
<1> QED BY <1>4, <1>5, <1>6, <1>7, <1>8

LEMMA ClientStep == ServedInv /\ ServedInv' /\ ClientInv /\ [Next]_vars => ClientInv'
<1> SUFFICES ASSUME ServedInv, ServedInv', ClientInv, [Next]_vars PROVE ClientInv'
  OBVIOUS
<1>1. IdentityInv'
  BY DEF ServedInv, SafetyInv
<1>2. CASE \E p \in Proxy, r \in Call : ClientCall(p, r)
  BY <1>1, <1>2, ClientsCall, ClientsWait
<1>3. CASE \E p \in Proxy : Return(p) \/ TimeOut(p) \/ GiveUpLock(p)
  BY <1>1, <1>3, ClientsReturn, ClientsWait
<1> QED BY <1>2, <1>3, ClientsRest

LEMMA ClientInit == Init => ClientInv
<1> SUFFICES ASSUME Init PROVE ClientInv
  OBVIOUS
<1>1. NoToken \notin Call /\ NoCall \notin Call
  BY ConstantFacts DEF Assumptions, Token
<1>2. BlockedInv
  BY <1>1 DEF Init, BlockedInv, Issued
<1>3. AttemptInv /\ FreshTokenInv /\ KeptTokenInv /\ HolderInv
  BY <1>1 DEF Init, AttemptInv, FreshTokenInv, KeptTokenInv, HolderInv, NoRequest
<1> QED BY <1>2, <1>3 DEF ClientInv

\* An object that is locked with a unique token is locked for a client that has
\* this token, that is about to get it, or that was told that its call failed.
THEOREM LockIsOwned == Spec => []LockHasOwner
<1>1. ASSUME ServedInv, ClientInv
      PROVE  LockHasOwner
  <2>1. ASSUME NEW r \in Call, NEW t \in Call, OnItsWay(r, t)
        PROVE  /\ request[r].op = "ACQUIRE" /\ request[r].token = t
               /\ \/ \E p \in Proxy : /\ waiting[p] = r
                                      /\ future[r].state \in {"NO_RESULT_YET", "RESULT_IS_VALUE"}
                  \/ future[r].state = "RESULT_IS_EXCEPTION"
    BY <1>1, <2>1, AcquireType DEF OnItsWay, ErrorReply, NoReply, ValueReply
  <2> QED BY <1>1, <2>1 DEF LockHasOwner, ClientInv, HolderInv
<1> QED BY <1>1, ClientInit, ClientStep, ServedAlways, PTL DEF Spec

-----------------------------------------------------------------------------
(* RpcObject implements LockService *)

\* Phases, case by case.
LEMMA PhaseValue ==
  ASSUME NEW r \in Call
  PROVE  /\ ~Issued(r) => Phase(r) = "idle"
         /\ Issued(r) /\ verdict[r] # NoReply => Phase(r) = "applied"
         /\ Issued(r) /\ verdict[r] = NoReply /\ InQueue(r) => Phase(r) = "pending"
         /\ Issued(r) /\ verdict[r] = NoReply /\ ~InQueue(r) => Phase(r) = "dropped"
  BY DEF Phase, Issued, InQueue

LEMMA PhaseValueNext ==
  ASSUME NEW r \in Call
  PROVE  /\ ~Issued(r)' => Phase(r)' = "idle"
         /\ Issued(r)' /\ verdict'[r] # NoReply => Phase(r)' = "applied"
         /\ Issued(r)' /\ verdict'[r] = NoReply /\ InQueue(r)' => Phase(r)' = "pending"
         /\ Issued(r)' /\ verdict'[r] = NoReply /\ ~InQueue(r)' => Phase(r)' = "dropped"
  BY DEF Phase, Issued, InQueue, NoReply

\* Requests enter the queues by being sent only.
LEMMA QueueShrinks ==
  ASSUME BaseInv, [Next]_vars, ~(\E p \in Proxy, r \in Call : \E o, t : Send(p, r, o, t)),
         NEW r \in Call, InQueue(r)'
  PROVE  InQueue(r)
<1> USE RangeCall DEF BaseInv
<1>1. r # NoCall
  BY ConstantFacts DEF Assumptions
<1>2. ASSUME NEW p \in Proxy, outbox[p] # <<>>, outbox' = [outbox EXCEPT ![p] = Tail(@)],
             fifo' \in {fifo, Append(fifo, Head(outbox[p]))}, current' = current
      PROVE  InQueue(r)
  <2>1. /\ outbox'[p] = Tail(outbox[p]) /\ \A q \in Proxy \ {p} : outbox'[q] = outbox[q]
        /\ Head(outbox[p]) \in Call
        /\ Range(outbox[p]) = Range(outbox'[p]) \cup {Head(outbox[p])}
    <3>1. outbox'[p] = Tail(outbox[p]) /\ \A q \in Proxy \ {p} : outbox'[q] = outbox[q]
      BY <1>2 DEF TypeOK
    <3> QED BY <1>2, <3>1, TailType, RangeTail
  <2>2. Range(fifo') \subseteq Range(fifo) \cup {Head(outbox[p])}
    BY <1>2, <2>1, RangeAppend
  <2> QED BY <1>2, <2>1, <2>2 DEF InQueue
<1>3. ASSUME NEW p \in Proxy, NEW k \in 0 .. Len(outbox[p]),
             outbox' = [outbox EXCEPT ![p] = SubSeq(@, 1, k)], fifo' = fifo, current' = current
      PROVE  InQueue(r)
  <2>1. outbox'[p] = SubSeq(outbox[p], 1, k) /\ \A q \in Proxy \ {p} : outbox'[q] = outbox[q]
    BY <1>3 DEF TypeOK
  <2>2. Range(outbox'[p]) \subseteq Range(outbox[p])
    BY <2>1, RangePrefix
  <2> QED BY <1>3, <2>1, <2>2 DEF InQueue
<1>4. CASE outbox' = outbox /\ fifo' = fifo /\ current' \in {current, NoCall}
  BY <1>1, <1>4 DEF InQueue
<1>5. CASE /\ outbox' = outbox /\ fifo # <<>> /\ fifo' = Tail(fifo)
           /\ current = NoCall /\ current' \in {NoCall, Head(fifo)}
  <2>1. Range(fifo) = Range(fifo') \cup {Head(fifo)}
    BY <1>5, RangeTail
  <2> QED BY <1>1, <1>5, <2>1 DEF InQueue
<1> QED BY <1>2, <1>3, <1>4, <1>5, QueueEffect

\* A step that decides nothing, and tells some callers at most of an error.
LEMMA BreakStep ==
  ASSUME TypeOK, TypeOK', ToldInv,
         request' = request, verdict' = verdict, lockingToken' = lockingToken,
         \A r \in Call : Issued(r)' = Issued(r),
         \A r \in Call : InQueue(r)' => InQueue(r),
         \A r \in Call : future'[r] # future[r] =>
                           future[r].state = "NO_RESULT_YET" /\ future'[r] = ErrorReply
  PROVE  Service!Break
<1>1. \A r \in Call : Phase(r)' # Phase(r) => Phase(r) = "pending" /\ Phase(r)' = "dropped"
  BY PhaseValue, PhaseValueNext
<1>2. \A r \in Call : Phase(r)' \in {"idle", "pending", "applied", "dropped"}
  BY PhaseValueNext
<1>3. ASSUME NEW r \in Call
      PROVE  /\ (IF Issued(r) THEN future[r] ELSE NoReply)' \in Service!Answer
             /\ (IF Issued(r) THEN future[r] ELSE NoReply)' # (IF Issued(r) THEN future[r] ELSE NoReply)
                  => /\ Phase(r) # "idle"
                     /\ (IF Issued(r) THEN future[r] ELSE NoReply) = Service!Nothing
                     /\ (IF Issued(r) THEN future[r] ELSE NoReply)' = Service!Error
  <2>1. NoReply \in Service!Answer /\ NoReply = Service!Nothing /\ ErrorReply = Service!Error
    BY DEF NoReply, ErrorReply, Service!Answer, Service!Nothing, Service!Error
  <2>2. Issued(r)' => future'[r] \in Service!Answer
    BY DEF Issued, TypeOK, FutureState, Service!Answer
  <2>3. Issued(r) => Phase(r) # "idle"
    BY PhaseValue
  <2>4. future'[r] # future[r] => future[r] = NoReply
    BY DEF ToldInv
  <2> QED BY <2>1, <2>2, <2>3, <2>4 DEF NoReply
<1>4. \A r \in Call : (IF Issued(r) THEN [op |-> request[r].op, token |-> request[r].token]
                       ELSE [op |-> "none", token |-> NoToken])'
                      = (IF Issued(r) THEN [op |-> request[r].op, token |-> request[r].token]
                         ELSE [op |-> "none", token |-> NoToken])
  OBVIOUS
<1> QED BY <1>1, <1>2, <1>3, <1>4 DEF Service!Break

\* Making a call is its invocation.
LEMMA InvokeStep ==
  ASSUME ServedInv, TypeOK', NEW p \in Proxy, NEW r \in Call, NEW o, NEW t, Send(p, r, o, t)
  PROVE  Service!Invoke(r)
<1> USE DEF ServedInv, SafetyInv, BaseInv
<1>1. /\ request' = [request EXCEPT ![r] = [proxy |-> p, op |-> o, token |-> t]]
      /\ future' = [future EXCEPT ![r] = NoReply]
      /\ verdict' = verdict /\ lockingToken' = lockingToken
      /\ fifo' = fifo /\ current' = current
      /\ outbox' = [outbox EXCEPT ![p] = Append(@, r)]
      /\ ~Issued(r) /\ verdict[r] = NoReply
  BY DEF Send, Fresh, Issued, PlacedInv, threadVars, history
<1>2. /\ \A s \in Call \ {r} : request'[s] = request[s] /\ future'[s] = future[s]
      /\ request'[r] = [proxy |-> p, op |-> o, token |-> t] /\ future'[r] = NoReply
  BY <1>1 DEF TypeOK
<1>3. Issued(r)' /\ \A s \in Call \ {r} : Issued(s)' = Issued(s)
  BY <1>2 DEF Issued, NoReply
<1>4. \A s \in Call : InQueue(s)' <=> InQueue(s) \/ s = r
  <2>1. outbox'[p] = Append(outbox[p], r) /\ \A q \in Proxy \ {p} : outbox'[q] = outbox[q]
    BY <1>1 DEF TypeOK
  <2>2. Range(outbox'[p]) = Range(outbox[p]) \cup {r}
    BY <2>1, RangeAppend, RangeCall
  <2>3. ASSUME NEW s \in Call
        PROVE  (\E q \in Proxy : s \in Range(outbox'[q])) <=> (\E q \in Proxy : s \in Range(outbox[q])) \/ s = r
    BY <2>1, <2>2
  <2> QED BY <1>1, <2>3 DEF InQueue
<1>5. Phase(r) = "idle" /\ Phase(r)' = "pending"
  BY <1>1, <1>3, <1>4, PhaseValue, PhaseValueNext
<1>6. ASSUME NEW s \in Call \ {r}
      PROVE  Phase(s)' = Phase(s)
  BY <1>1, <1>3, <1>4, PhaseValue, PhaseValueNext
<1>7. o \in Op /\ t \in Token \cup {NoToken}
  <2>1. request'[r] \in Request \cup {NoRequest}
    BY DEF TypeOK
  <2>2. o = request'[r].op /\ t = request'[r].token
    BY <1>2
  <2> QED BY <2>1, <2>2 DEF Request, NoRequest, Op
<1> DEFINE Asked(s) == IF Issued(s) THEN [op |-> request[s].op, token |-> request[s].token]
                       ELSE [op |-> "none", token |-> NoToken]
           Answered(s) == IF Issued(s) THEN future[s] ELSE NoReply
<1>8. /\ Asked(r)' = [op |-> o, token |-> t]
      /\ \A s \in Call \ {r} : Asked(s)' = Asked(s)
  BY <1>2, <1>3
<1>9. \A s \in Call : Answered(s)' = Answered(s)
  BY <1>1, <1>2, <1>3 DEF NoReply
<1>10. [s \in Call |-> Phase(s)]' = [[s \in Call |-> Phase(s)] EXCEPT ![r] = "pending"]
  BY <1>5, <1>6
<1>11. [s \in Call |-> Asked(s)]' = [[s \in Call |-> Asked(s)] EXCEPT ![r] = [op |-> o, token |-> t]]
  BY <1>8
<1>12. [s \in Call |-> Answered(s)]' = [s \in Call |-> Answered(s)]
  BY <1>9
<1> QED BY <1>1, <1>5, <1>7, <1>10, <1>11, <1>12 DEF Service!Invoke

\* Deciding about a request is the instant at which the call takes effect.
LEMMA ApplyStep ==
  ASSUME ServedInv, NEW v, pc = "handling", Conclude(v),
         v # NoReply,
         v = Service!Decision(request[current].op, request[current].token, lockingToken),
         lockingToken' = Service!OwnerAfter(request[current].op, request[current].token, lockingToken)
  PROVE  Service!Apply(current)
<1> USE DEF ServedInv, SafetyInv, BaseInv
<1>1. current \in Call /\ verdict[current] = NoReply /\ Issued(current)
  BY DEF CurrentInv, UndecidedInv, PlacedInv
<1>2. /\ UNCHANGED <<request, future, outbox, fifo, current>>
      /\ verdict' = [verdict EXCEPT ![current] = v]
  BY DEF Conclude, callVars, wireVars
<1>3. /\ \A s \in Call : Issued(s)' = Issued(s) /\ InQueue(s)' = InQueue(s)
      /\ verdict'[current] = v /\ \A s \in Call \ {current} : verdict'[s] = verdict[s]
  BY <1>1, <1>2 DEF Issued, InQueue, TypeOK
<1>4. InQueue(current)
  BY DEF InQueue
<1>5. Phase(current) = "pending"
  BY <1>1, <1>4, PhaseValue
<1>6. ASSUME NEW s \in Call, s = current
      PROVE  Phase(s)' = "applied"
  BY <1>1, <1>3, <1>6, PhaseValueNext
<1>7. ASSUME NEW s \in Call, s # current
      PROVE  Phase(s)' = Phase(s)
  BY <1>3, <1>7, PhaseValue, PhaseValueNext
<1>8. [s \in Call |-> Phase(s)]' = [[s \in Call |-> Phase(s)] EXCEPT ![current] = "applied"]
  BY <1>6, <1>7
<1> DEFINE asked == [s \in Call |-> IF Issued(s) THEN [op |-> request[s].op, token |-> request[s].token]
                                    ELSE [op |-> "none", token |-> NoToken]]
           answered == [s \in Call |-> IF Issued(s) THEN future[s] ELSE NoReply]
<1>9. asked[current].op = request[current].op /\ asked[current].token = request[current].token
  BY <1>1
<1>10. asked' = asked /\ answered' = answered
  BY <1>2 DEF Issued, NoReply
<1> QED BY <1>1, <1>2, <1>5, <1>8, <1>9, <1>10 DEF Service!Apply

\* Sending a reply that its future takes is the response.
LEMMA RespondStep ==
  ASSUME ServedInv, TypeOK', SendReply, future' # future
  PROVE  \E r \in Call : Service!Respond(r)
<1> USE DEF ServedInv, SafetyInv, BaseInv
<1>1. /\ current \in Call /\ Issued(current)
      /\ reply = verdict[current] /\ verdict[current] # NoReply
  BY DEF SendReply, CurrentInv, PlacedInv, NoReply
<1>2. /\ UNCHANGED <<request, outbox, fifo, verdict, lockingToken>> /\ current' = NoCall
      /\ future' = Answer(future, current, reply)
  BY DEF SendReply, wireVars, history
<1>3. /\ future[current].state = "NO_RESULT_YET" /\ future' = [future EXCEPT ![current] = reply]
  BY <1>2 DEF Answer
<1>4. /\ future'[current] = verdict[current] /\ \A s \in Call \ {current} : future'[s] = future[s]
      /\ future[current] = NoReply /\ reply \in Reply
  BY <1>1, <1>3 DEF TypeOK, ToldInv
<1>5. \A s \in Call : Issued(s)' = Issued(s)
  BY <1>1, <1>4 DEF Issued, Reply
<1>6. \A s \in Call : s # current => InQueue(s)' = InQueue(s)
  BY <1>1, <1>2, ConstantFacts DEF InQueue, Assumptions
<1>7. \A s \in Call : Phase(s)' = Phase(s)
  BY <1>1, <1>2, <1>5, <1>6, PhaseValue, PhaseValueNext
<1> DEFINE asked == [s \in Call |-> IF Issued(s) THEN [op |-> request[s].op, token |-> request[s].token]
                                    ELSE [op |-> "none", token |-> NoToken]]
           answered == [s \in Call |-> IF Issued(s) THEN future[s] ELSE NoReply]
<1>8. asked' = asked
  BY <1>2, <1>5
<1>9. answered' = [answered EXCEPT ![current] = verdict[current]]
  BY <1>1, <1>4, <1>5 DEF NoReply
<1>10. Phase(current) = "applied" /\ answered[current] = NoReply /\ NoReply = Service!Nothing
  BY <1>1, <1>4, PhaseValue DEF Service!Nothing, NoReply
<1>11. PICK r \in Call : r = current
  BY <1>1
<1>12. Service!Respond(r)
  BY <1>1, <1>2, <1>7, <1>8, <1>9, <1>10, <1>11 DEF Service!Respond
<1> QED BY <1>12

\* Without a call or a reply of the thread, futures only get errors.
LEMMA ErrorEffect ==
  ASSUME BaseInv, [Next]_vars, ~SendReply,
         ~(\E p \in Proxy, r \in Call : ClientCall(p, r) /\ ~WaitFuture(p, r)),
         NEW s \in Call, future'[s] # future[s]
  PROVE  future[s].state = "NO_RESULT_YET" /\ future'[s] = ErrorReply
<1> USE DEF BaseInv
<1>1. future[s].state = "NO_RESULT_YET"
  BY FutureEffect
<1>2. ASSUME NEW r \in Call, future' = Answer(future, r, ErrorReply)
      PROVE  future'[s] = ErrorReply
  BY <1>2, AnswerEffect, ReplyTypes
<1>3. ASSUME NEW p \in Proxy, NEW r \in Call, WaitFuture(p, r)
      PROVE  FALSE
  BY <1>3 DEF WaitFuture, callVars
<1>4. ASSUME NEW p \in Proxy, Return(p) \/ TimeOut(p) \/ GiveUpLock(p)
      PROVE  FALSE
  BY <1>4 DEF Return, TimeOut, GiveUpLock, callVars
<1>5. ASSUME NEW p \in Proxy, Deliver(p)
      PROVE  future'[s] = ErrorReply
  <2>1. CASE FindHandler(p) \/ PushRequest(p)
    BY <2>1 DEF FindHandler, PushRequest, callVars
  <2>2. CASE UnknownDestination(p) \/ AlreadyStopped(p)
    <3>1. outbox[p] # <<>> /\ Undeliverable(p)
      BY <2>2 DEF UnknownDestination, AlreadyStopped, LocatedInv
    <3>2. Head(outbox[p]) \in Call
      BY <3>1, TailType DEF TypeOK
    <3> QED BY <1>2, <3>1, <3>2 DEF Undeliverable
  <2> QED BY <1>5, <2>1, <2>2 DEF Deliver
<1>6. ASSUME NEW p \in Proxy, ConnectionLost(p)
      PROVE  future'[s] = ErrorReply
  BY <1>6 DEF ConnectionLost
<1>7. ~(Context \/ UNCHANGED vars)
  BY DEF Context, EnterInMap, Register, MakeFails, Unregister, StopRunning, RequestShutdown, Join, callVars, vars
<1>8. ASSUME Thread
      PROVE  future'[s] = ErrorReply
  <2>1. ~(MakeObject \/ TakeRequest \/ SeeShutdown \/ Handle \/ ReleaseObject)
    BY DEF MakeObject, TakeRequest, SeeShutdown, Handle, InvokeMethod, RefuseMethod, Acquire,
       Release, ForceRelease, ForceReleaseUnlocked, Query, Conclude, ReleaseObject, callVars
  <2>2. CASE RejectRequest
    BY <1>2, <2>2, TailType DEF RejectRequest, TypeOK
  <2> QED BY <1>8, <2>1, <2>2 DEF Thread
<1> QED BY <1>1, <1>3, <1>4, <1>5, <1>6, <1>7, <1>8 DEF Next

\* The decisions of the lock service, one operation at a time.
LEMMA DecisionValue ==
  ASSUME NEW t, NEW w
  PROVE  /\ Service!Decision("METHOD", t, w) = IF w \in {NoToken, t} THEN ValueReply(NoToken)
                                              ELSE [state |-> "OBJECT_IS_LOCKED", token |-> NoToken]
         /\ Service!Decision("ACQUIRE", t, w) = ValueReply(IF w \in {NoToken, t} THEN t ELSE Denied)
         /\ Service!Decision("RELEASE", t, w) = ValueReply(IF w \in {NoToken, t} THEN NoToken ELSE Denied)
         /\ Service!Decision("FORCE_RELEASE", t, w) = ValueReply(NoToken)
         /\ Service!Decision("QUERY", t, w) = ValueReply(IF w = NoToken THEN NoToken ELSE Locked)
<1>1. \A u : ValueReply(u) = Service!Value(u)
  BY DEF ValueReply, Service!Value
<1> QED BY <1>1 DEF Service!Decision

LEMMA OwnerValue ==
  ASSUME NEW t, NEW w
  PROVE  /\ Service!OwnerAfter("METHOD", t, w) = w
         /\ Service!OwnerAfter("ACQUIRE", t, w) = IF w = NoToken THEN t ELSE w
         /\ Service!OwnerAfter("RELEASE", t, w) = IF w = t THEN NoToken ELSE w
         /\ Service!OwnerAfter("FORCE_RELEASE", t, w) = NoToken
         /\ Service!OwnerAfter("QUERY", t, w) = w
  BY DEF Service!OwnerAfter

\* Every reply of the thread is the one the lock service decides.
LEMMA HandleStep ==
  ASSUME ServedInv, Handle, ~ForceReleaseUnlocked
  PROVE  current \in Call /\ Service!Apply(current)
<1> DEFINE o == request[current].op
           t == request[current].token
<1>1. pc = "handling" /\ current \in Call
  BY DEF Handle, InvokeMethod, RefuseMethod, Acquire, Release, ForceRelease, Query, Handling,
     ServedInv, SafetyInv, BaseInv, CurrentInv
<1>2. /\ \A u : ValueReply(u) # NoReply
      /\ [state |-> "OBJECT_IS_LOCKED", token |-> NoToken] # NoReply
  BY DEF ValueReply, NoReply
<1>3. ASSUME NEW v, Conclude(v), v # NoReply,
             v = Service!Decision(o, t, lockingToken),
             lockingToken' = Service!OwnerAfter(o, t, lockingToken)
      PROVE  current \in Call /\ Service!Apply(current)
  BY <1>1, <1>3, ApplyStep
<1>4. CASE InvokeMethod
  <2>1. /\ o = "METHOD" /\ Conclude(ValueReply(NoToken)) /\ lockingToken \in {NoToken, t}
        /\ lockingToken' = lockingToken
    BY <1>4 DEF InvokeMethod, Handling, MayInvoke
  <2>2. /\ Service!Decision(o, t, lockingToken) = ValueReply(NoToken)
        /\ Service!OwnerAfter(o, t, lockingToken) = lockingToken
    BY <2>1, DecisionValue, OwnerValue
  <2> QED BY <1>2, <1>3, <2>1, <2>2
<1>5. CASE RefuseMethod
  <2> DEFINE v == [state |-> "OBJECT_IS_LOCKED", token |-> NoToken]
  <2>1. /\ o = "METHOD" /\ Conclude(v) /\ lockingToken \notin {NoToken, t}
        /\ lockingToken' = lockingToken
    BY <1>5 DEF RefuseMethod, Handling, MayInvoke
  <2>2. /\ Service!Decision(o, t, lockingToken) = v
        /\ Service!OwnerAfter(o, t, lockingToken) = lockingToken
    BY <2>1, DecisionValue, OwnerValue
  <2> QED BY <1>2, <1>3, <2>1, <2>2
<1>6. CASE Acquire
  <2> DEFINE v == ValueReply(IF lockingToken \in {NoToken, t} THEN t ELSE Denied)
  <2>1. /\ o = "ACQUIRE" /\ Conclude(v)
        /\ lockingToken' = IF lockingToken = NoToken THEN t ELSE lockingToken
    BY <1>6 DEF Acquire, Handling
  <2>2. /\ Service!Decision(o, t, lockingToken) = v
        /\ Service!OwnerAfter(o, t, lockingToken) = IF lockingToken = NoToken THEN t ELSE lockingToken
    BY <2>1, DecisionValue, OwnerValue
  <2> QED BY <1>2, <1>3, <2>1, <2>2
<1>7. CASE Release
  <2> DEFINE v == ValueReply(IF lockingToken \in {NoToken, t} THEN NoToken ELSE Denied)
  <2>1. /\ o = "RELEASE" /\ Conclude(v)
        /\ lockingToken' = IF lockingToken = t THEN NoToken ELSE lockingToken
    BY <1>7 DEF Release, Handling
  <2>2. /\ Service!Decision(o, t, lockingToken) = v
        /\ Service!OwnerAfter(o, t, lockingToken) = IF lockingToken = t THEN NoToken ELSE lockingToken
    BY <2>1, DecisionValue, OwnerValue
  <2> QED BY <1>2, <1>3, <2>1, <2>2
<1>8. CASE ForceRelease
  <2>1. o = "FORCE_RELEASE" /\ Conclude(ValueReply(NoToken)) /\ lockingToken' = NoToken
    BY <1>8 DEF ForceRelease, Handling
  <2>2. /\ Service!Decision(o, t, lockingToken) = ValueReply(NoToken)
        /\ Service!OwnerAfter(o, t, lockingToken) = NoToken
    BY <2>1, DecisionValue, OwnerValue
  <2> QED BY <1>2, <1>3, <2>1, <2>2
<1>9. CASE Query
  <2> DEFINE v == ValueReply(IF lockingToken = NoToken THEN NoToken ELSE Locked)
  <2>1. o = "QUERY" /\ Conclude(v) /\ lockingToken' = lockingToken
    BY <1>9 DEF Query, Handling
  <2>2. /\ Service!Decision(o, t, lockingToken) = v
        /\ Service!OwnerAfter(o, t, lockingToken) = lockingToken
    BY <2>1, DecisionValue, OwnerValue
  <2> QED BY <1>2, <1>3, <2>1, <2>2
<1> QED BY <1>4, <1>5, <1>6, <1>7, <1>8, <1>9 DEF Handle

LEMMA ServiceStep == ServedInv /\ ServedInv' /\ [Next]_vars => [Service!Next]_Service!vars
<1> SUFFICES ASSUME ServedInv, ServedInv', [Next]_vars PROVE Service!Next
  OBVIOUS
<1>1. TypeOK /\ TypeOK' /\ BaseInv /\ ToldInv
  BY DEF ServedInv, SafetyInv, BaseInv
<1>2. CASE \E p \in Proxy, r \in Call : \E o, t : Send(p, r, o, t)
  <2>1. PICK p \in Proxy, r \in Call : \E o, t : Send(p, r, o, t)
    BY <1>2
  <2>2. Service!Invoke(r)
    BY <1>1, <2>1, InvokeStep
  <2> QED BY <2>2 DEF Service!Next
<1>3. CASE Handle /\ ~ForceReleaseUnlocked
  BY <1>3, HandleStep DEF Service!Next
<1>4. CASE SendReply /\ future' # future
  <2>1. \E r \in Call : Service!Respond(r)
    BY <1>1, <1>4, RespondStep
  <2> QED BY <2>1 DEF Service!Next
<1>5. CASE /\ ~(\E p \in Proxy, r \in Call : \E o, t : Send(p, r, o, t))
           /\ ~(Handle /\ ~ForceReleaseUnlocked)
           /\ ~(SendReply /\ future' # future)
  <2>1. ~(\E p \in Proxy, r \in Call : ClientCall(p, r) /\ ~WaitFuture(p, r))
    BY <1>5 DEF ClientCall, CallMethod, CallNonBlocking, Lock, RetryLock, Unlock, ForceUnlock, IsLocked
  <2>2. request' = request /\ \A r \in Call : Issued(r)' = Issued(r)
    BY <1>1, <2>1, FutureEffect DEF Issued
  <2>3. \A r \in Call : InQueue(r)' => InQueue(r)
    BY <1>1, <1>5, QueueShrinks
  <2>4. verdict' = verdict
    <3>1. ForceReleaseUnlocked => verdict' = verdict
      BY DEF ForceReleaseUnlocked, history
    <3> QED BY <1>1, <1>5, <3>1, VerdictEffect
  <2>5. lockingToken' = lockingToken
    <3>1. CASE Thread
      BY <1>5, <3>1 DEF Thread, MakeObject, TakeRequest, SeeShutdown, SendReply, RejectRequest, ReleaseObject,
         ForceReleaseUnlocked
    <3> QED BY <3>1, OthersEffect
  <2>6. \A r \in Call : future'[r] # future[r] =>
                          future[r].state = "NO_RESULT_YET" /\ future'[r] = ErrorReply
    BY <1>1, <1>5, <2>1, ErrorEffect
  <2>7. Service!Break
    BY <1>1, <2>2, <2>3, <2>4, <2>5, <2>6, BreakStep
  <2> QED BY <2>7 DEF Service!Next
<1> QED BY <1>2, <1>3, <1>4, <1>5

LEMMA ServiceInit == Init => Service!Init
<1> SUFFICES ASSUME Init PROVE Service!Init
  OBVIOUS
<1>1. \A r \in Call : ~Issued(r)
  BY DEF Init, Issued
<1>2. \A r \in Call : Phase(r) = "idle"
  BY <1>1, PhaseValue
<1>3. NoReply = Service!Nothing
  BY DEF NoReply, Service!Nothing
<1> QED BY <1>1, <1>2, <1>3 DEF Init, Service!Init

\* The queue, the thread and the futures of an RPC object implement the abstract
\* lock service: every call takes effect once at most, at one instant between
\* its invocation and its answer, and is told what was decided or of an error.
THEOREM RefinesLockService == Spec => ImplementsLockService
<1>1. Init => Service!Init
  BY ServiceInit
<1>2. ServedInv /\ ServedInv' /\ [Next]_vars => [Service!Next]_Service!vars
  BY ServiceStep
<1> QED BY <1>1, <1>2, ServedAlways, PTL DEF Spec, ImplementsLockService, Service!Spec
=============================================================================
