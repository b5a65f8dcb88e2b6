------------------------------- MODULE Context -------------------------------
(***************************************************************************)
(* The life of a QMI_Context (qmi/core/context.py) and its table of RPC    *)
(* objects: start() and stop() in the thread that made the context, and    *)
(* make_rpc_object() and remove_rpc_object() in any thread, each a         *)
(* sequence of critical sections and of calls made outside the lock.       *)
(* An object is represented by its RpcObjectManager, which runs a thread   *)
(* of its own from make until manager.stop() has joined it.                *)
(***************************************************************************)
EXTENDS Integers, FiniteSets

CONSTANTS Threads,     \* threads that use the context
          Main,        \* the thread that made it
          Names,       \* names of RPC objects
          MaxManagers  \* bound: objects made

ASSUME MainAssumption == Main \in Threads
ASSUME MaxManagersAssumption == MaxManagers \in Nat

Managers == 1 .. MaxManagers
Reserved == 0   \* the name is in the map with the value None
Absent == -1    \* the name is not in the map
None == 0

VARIABLES
  active, used,  \* QMI_Context._active, _used
  router,        \* the message router: "new", "running" or "stopped"
  table,         \* _rpc_object_map
  handler,       \* the router's _address_to_messagehandler_map
  thread,        \* thread[t]: the call that t executes and where it is
  running,       \* managers whose thread runs
  made,          \* number of managers made
  abandoned      \* managers in the hands of a call that raised an exception

lifeVars == <<active, used, router>>
vars == <<lifeVars, table, handler, thread, running, made, abandoned>>

Idle == [at |-> "idle", name |-> None, manager |-> None, rest |-> {}]
Step(t, at) == thread' = [thread EXCEPT ![t].at = at]
Return(t) == thread' = [thread EXCEPT ![t] = Idle]

Init ==
  /\ active = FALSE /\ used = FALSE /\ router = "new"
  /\ table = [n \in Names |-> Absent]
  /\ handler = [n \in Names |-> None]
  /\ thread = [t \in Threads |-> Idle]
  /\ running = {} /\ made = 0 /\ abandoned = {}

-----------------------------------------------------------------------------
(* start(): the router's thread runs before its sockets are bound.  If a   *)
(* port is taken the exception leaves the router running in a context that *)
(* is not active: it can neither be started again nor stopped.             *)
Start ==
  /\ thread[Main].at = "idle" /\ ~active /\ ~used /\ router = "new"
  /\ router' = "running"
  /\ \/ active' = TRUE /\ used' = TRUE
     \/ UNCHANGED <<active, used>>
  /\ UNCHANGED <<table, handler, thread, running, made, abandoned>>

-----------------------------------------------------------------------------
(* make_rpc_object(): the name is reserved, the manager started and waited *)
(* for, and the manager entered under the name and then in the router.     *)

ReserveName(t, n) ==
  /\ thread[t].at = "idle" /\ active
  /\ table[n] = Absent /\ made < MaxManagers
  /\ table' = [table EXCEPT ![n] = Reserved]
  /\ made' = made + 1
  /\ running' = running \cup {made'}
  /\ thread' = [thread EXCEPT ![t] = [Idle EXCEPT !.at = "starting", !.name = n, !.manager = made']]
  /\ UNCHANGED <<lifeVars, handler, abandoned>>

(* make_proxy blocks until the object's constructor has returned or raised *)
ObjectStarted(t) ==
  /\ thread[t].at = "starting"
  /\ Step(t, "publishing") \/ Step(t, "withdrawing")
  /\ UNCHANGED <<lifeVars, table, handler, running, made, abandoned>>

\* Mutant of PublishObject: the proxy is kept when the context is inactive, so
\* that neither the manager is stopped nor the name released.
PublishObject_KeepsProxy(t) ==
  /\ thread[t].at = "publishing"
  /\ IF active
       THEN /\ table' = [table EXCEPT ![thread[t].name] = thread[t].manager]
            /\ Step(t, "registering")
       ELSE Return(t) /\ UNCHANGED table
  /\ UNCHANGED <<lifeVars, handler, running, made, abandoned>>

(* The context may have been stopped in the meantime. *)
PublishObject(t) ==
  /\ thread[t].at = "publishing"
  /\ IF active
       THEN /\ table' = [table EXCEPT ![thread[t].name] = thread[t].manager]
            /\ Step(t, "registering")
       ELSE Step(t, "withdrawing") /\ UNCHANGED table
  /\ UNCHANGED <<lifeVars, handler, running, made, abandoned>>

(* register_message_handler raises if the address has a handler already *)
RegisterHandler(t) ==
  LET n == thread[t].name
      m == thread[t].manager IN
  /\ thread[t].at = "registering"
  /\ IF handler[n] = None
       THEN handler' = [handler EXCEPT ![n] = m] /\ UNCHANGED abandoned
       ELSE abandoned' = abandoned \cup {m} /\ UNCHANGED handler
  /\ Return(t)
  /\ UNCHANGED <<lifeVars, table, running, made>>

(* The object failed or came too late: its manager is stopped and its name *)
(* released.                                                               *)
WithdrawObject(t) ==
  /\ thread[t].at = "withdrawing"
  /\ running' = running \ {thread[t].manager}
  /\ Step(t, "releasing")
  /\ UNCHANGED <<lifeVars, table, handler, made, abandoned>>

\* Mutant of ReleaseName: a failed make keeps the name.
ReleaseName_Kept(t) ==
  /\ thread[t].at = "releasing"
  /\ Return(t)
  /\ UNCHANGED <<lifeVars, table, handler, running, made, abandoned>>

ReleaseName(t) ==
  /\ thread[t].at = "releasing"
  /\ table' = [table EXCEPT ![thread[t].name] = Absent]
  /\ Return(t)
  /\ UNCHANGED <<lifeVars, handler, running, made, abandoned>>

-----------------------------------------------------------------------------
(* Finding the handler of manager m under name n, and taking it out *)
Registered(n, m) == handler[n] = m
Unregistered(n) == handler' = [handler EXCEPT ![n] = None]

(* remove_rpc_object(): whoever has a proxy may remove the object, also a  *)
(* thread that found it by name before make_rpc_object() has returned.     *)

\* Mutant of ClaimObject: the entry stays in the map.
ClaimObject_LeavesEntry(t, n) ==
  /\ thread[t].at = "idle" /\ table[n] \in Managers
  /\ thread' = [thread EXCEPT ![t] = [Idle EXCEPT !.at = "unregistering", !.name = n,
                                                  !.manager = table[n]]]
  /\ UNCHANGED <<lifeVars, table, handler, running, made, abandoned>>

ClaimObject(t, n) ==
  /\ thread[t].at = "idle" /\ table[n] \in Managers
  /\ table' = [table EXCEPT ![n] = Reserved]
  /\ thread' = [thread EXCEPT ![t] = [Idle EXCEPT !.at = "unregistering", !.name = n,
                                                  !.manager = table[n]]]
  /\ UNCHANGED <<lifeVars, handler, running, made, abandoned>>

(* If the handler is not there yet the exception leaves the name reserved. *)
UnregisterHandler(t) ==
  LET n == thread[t].name
      m == thread[t].manager IN
  /\ thread[t].at = "unregistering"
  /\ IF Registered(n, m)
       THEN Unregistered(n) /\ Step(t, "freeing") /\ UNCHANGED abandoned
       ELSE abandoned' = abandoned \cup {m} /\ Return(t) /\ UNCHANGED handler
  /\ UNCHANGED <<lifeVars, table, running, made>>

(* The name is free from here on, while the object's thread still runs. *)
FreeName(t) ==
  /\ thread[t].at = "freeing"
  /\ table' = [table EXCEPT ![thread[t].name] = Absent]
  /\ Step(t, "ending")
  /\ UNCHANGED <<lifeVars, handler, running, made, abandoned>>

EndObject(t) ==
  /\ thread[t].at = "ending"
  /\ running' = running \ {thread[t].manager}
  /\ Return(t)
  /\ UNCHANGED <<lifeVars, table, handler, made, abandoned>>

-----------------------------------------------------------------------------
(* stop(): the stop handlers are called and the router is stopped first,   *)
(* then the objects that are in the map are taken out of it and stopped    *)
(* one after the other.                                                    *)

StopRouter ==
  /\ thread[Main].at = "idle" /\ active
  /\ router' = "stopped"
  /\ Step(Main, "deactivating")
  /\ UNCHANGED <<active, used, table, handler, running, made, abandoned>>

Deactivate ==
  /\ thread[Main].at = "deactivating"
  /\ active' = FALSE
  /\ thread' = [thread EXCEPT ![Main] = [Idle EXCEPT !.at = "stopping",
                                           !.rest = {table[n] : n \in Names} \cap Managers]]
  /\ table' = [n \in Names |-> IF table[n] \in Managers THEN Absent ELSE table[n]]
  /\ UNCHANGED <<used, router, handler, running, made, abandoned>>

(* The manager of an object that is just being registered has no handler   *)
(* to take out: the exception ends stop() with the others still running.   *)
UnregisterNext(m) ==
  /\ thread[Main].at = "stopping" /\ m \in thread[Main].rest
  /\ IF \E n \in Names : Registered(n, m)
       THEN /\ Unregistered(CHOOSE n \in Names : Registered(n, m))
            /\ thread' = [thread EXCEPT ![Main].at = "halting", ![Main].manager = m]
            /\ UNCHANGED abandoned
       ELSE /\ abandoned' = abandoned \cup thread[Main].rest
            /\ Return(Main)
            /\ UNCHANGED handler
  /\ UNCHANGED <<lifeVars, table, running, made>>

StopNext ==
  /\ thread[Main].at = "halting"
  /\ running' = running \ {thread[Main].manager}
  /\ thread' = [thread EXCEPT ![Main].at = "stopping", ![Main].manager = None,
                              ![Main].rest = @ \ {thread[Main].manager}]
  /\ UNCHANGED <<lifeVars, table, handler, made, abandoned>>

StopReturns ==
  /\ thread[Main].at = "stopping" /\ thread[Main].rest = {}
  /\ Return(Main)
  /\ UNCHANGED <<lifeVars, table, handler, running, made, abandoned>>

-----------------------------------------------------------------------------
Make(t) == \/ ObjectStarted(t) \/ PublishObject(t) \/ RegisterHandler(t)
           \/ WithdrawObject(t) \/ ReleaseName(t)
Remove(t) == UnregisterHandler(t) \/ FreeName(t) \/ EndObject(t)
Stop == Deactivate \/ (\E m \in Managers : UnregisterNext(m)) \/ StopNext \/ StopReturns

Next ==
  \/ Start \/ StopRouter \/ Stop
  \/ \E t \in Threads, n \in Names : ReserveName(t, n) \/ ClaimObject(t, n)
  \/ \E t \in Threads : Make(t) \/ Remove(t)

Spec == Init /\ [][Next]_vars

(* A thread goes on with the call it is in; constructors and the threads   *)
(* of objects that are shut down come to an end.                           *)
FairSpec == Spec /\ WF_vars(Stop) /\ \A t \in Threads : WF_vars(Make(t) \/ Remove(t))

-----------------------------------------------------------------------------
CallState ==
  [at : {"idle", "starting", "publishing", "registering", "withdrawing", "releasing",
         "unregistering", "freeing", "ending", "deactivating", "stopping", "halting"},
   name : Names \cup {None}, manager : Managers \cup {None}, rest : SUBSET Managers]

TypeOK ==
  /\ active \in BOOLEAN /\ used \in BOOLEAN
  /\ router \in {"new", "running", "stopped"}
  /\ table \in [Names -> Managers \cup {Absent, Reserved}]
  /\ handler \in [Names -> Managers \cup {None}]
  /\ thread \in [Threads -> CallState]
  /\ running \subseteq Managers
  /\ made \in 0 .. MaxManagers
  /\ abandoned \subseteq Managers

(* The managers that a call under way has yet to stop or to publish.       *)
Holds(t) == (IF thread[t].at = "registering" THEN {} ELSE {thread[t].manager}) \cup thread[t].rest
Held == UNION {Holds(t) : t \in Threads}
Listed == {table[n] : n \in Names}

(* Every object whose thread runs can still be stopped: it is in the map,  *)
(* or a call is about to publish or to stop it.  The exception is an       *)
(* object caught by remove_rpc_object() or stop() between its entry in the *)
(* map and its registration: that call has raised QMI_UnknownNameException *)
(* (and with it stop() leaves behind the objects it had not come to).      *)
NoObjectLeftBehind == running \subseteq Listed \cup Held \cup abandoned

(* No two calls stop the same object, and none that is in the map is being *)
(* stopped: manager.stop() would fail on its second call, and a request    *)
(* would go to an object that has ended.                                   *)
StoppedOnce ==
  /\ \A t, u \in Threads : t # u => Holds(t) \cap Holds(u) \cap Managers = {}
  /\ Listed \cap Held \cap Managers = {}

(* A reserved name is published or released in the end, unless its removal *)
(* was caught by the race above: a make or remove that fails keeps no name *)
(* from being used again.                                                  *)
NamesAreResolved ==
  \A n \in Names : (table[n] = Reserved /\ abandoned = {}) ~> (table[n] # Reserved \/ abandoned # {})
=============================================================================
