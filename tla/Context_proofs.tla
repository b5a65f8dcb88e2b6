---------------------------- MODULE Context_proofs ----------------------------
(***************************************************************************)
(* Proofs about Context: for any number of threads, names and objects, no  *)
(* object is lost, and none is stopped twice.                              *)
(***************************************************************************)
EXTENDS Context, TLAPS

-----------------------------------------------------------------------------
(* The inductive invariant                                                 *)

(* Positions in which a thread has reserved the name it works on           *)
Reserving == {"starting", "publishing", "withdrawing", "releasing", "unregistering", "freeing"}
(* and those in which it works on one object.                              *)
Working == Reserving \cup {"registering", "ending"}

(* What each position of a thread says of its local variables.             *)
PositionInv == \A t \in Threads :
  /\ thread[t].at = "idle" => thread[t] = Idle
  /\ thread[t].at \in Working =>
       thread[t].name \in Names /\ thread[t].manager \in Managers /\ thread[t].rest = {}
  /\ thread[t].at = "deactivating" => thread[t].manager = None /\ thread[t].rest = {}
  /\ thread[t].at = "stopping" => thread[t].manager = None
  /\ thread[t].at = "halting" => thread[t].manager \in thread[t].rest

(* The value None in the map keeps all other threads from the name, and an *)
(* object has one name.                                                    *)
NameInv ==
  /\ \A t \in Threads : thread[t].at \in Reserving => table[thread[t].name] = Reserved
  /\ \A t, u \in Threads :
       t # u /\ thread[t].at \in Reserving /\ thread[u].at \in Reserving
         => thread[t].name # thread[u].name
  /\ \A m, n \in Names : table[m] = table[n] /\ table[m] \in Managers => m = n

(* A new object is none of those in the map or in the hands of a call, and *)
(* the thread of a failed one has ended before its name is released.       *)
MadeInv ==
  /\ running \subseteq 1 .. made
  /\ \A n \in Names : table[n] <= made
  /\ \A t \in Threads : Holds(t) \subseteq 0 .. made
  /\ \A t \in Threads : thread[t].at = "releasing" => thread[t].manager \notin running

(* NoObjectLeftBehind and StoppedOnce, object by object.                   *)
KeptInv == \A m \in running :
  \/ m \in abandoned
  \/ \E n \in Names : table[n] = m
  \/ \E t \in Threads : m \in Holds(t)

OnceInv ==
  /\ \A t, u \in Threads : t # u => \A m \in Managers : ~(m \in Holds(t) /\ m \in Holds(u))
  /\ \A n \in Names, t \in Threads : table[n] \in Managers => table[n] \notin Holds(t)

ContextInv == TypeOK /\ PositionInv /\ NameInv /\ MadeInv /\ KeptInv /\ OnceInv

-----------------------------------------------------------------------------

(* Objects are numbers that are neither None nor "absent".                 *)
LEMMA ManagersAreNumbers ==
  /\ Managers \subseteq Nat
  /\ \A x \in Managers \cup {Absent, Reserved} : x \in Int
  /\ None \notin Managers /\ Reserved \notin Managers /\ Absent \notin Managers
  BY MaxManagersAssumption DEF Managers, None, Reserved, Absent

Positions == {"idle", "starting", "publishing", "registering", "withdrawing", "releasing",
              "unregistering", "freeing", "ending", "deactivating", "stopping", "halting"}

(* What a step may do to the local variables of a thread.                  *)
LEMMA CallStateUpdates ==
  ASSUME NEW c \in CallState, NEW at \in Positions
  PROVE  /\ [c EXCEPT !.at = at] \in CallState
         /\ \A m \in Managers : [c EXCEPT !.at = at, !.manager = m] \in CallState
         /\ \A S \in SUBSET Managers :
              [c EXCEPT !.at = at, !.manager = None, !.rest = S] \in CallState
  BY DEF CallState, Positions

LEMMA NewCallStates ==
  /\ Idle \in CallState
  /\ \A at \in Positions : \A n \in Names, m \in Managers :
       [Idle EXCEPT !.at = at, !.name = n, !.manager = m] \in CallState
  /\ \A at \in Positions : \A S \in SUBSET Managers :
       [Idle EXCEPT !.at = at, !.rest = S] \in CallState
  BY DEF CallState, Positions, Idle

LEMMA CallStateFields ==
  ASSUME NEW c \in CallState
  PROVE  /\ c.at \in Positions /\ c.name \in Names \cup {None}
         /\ c.manager \in Managers \cup {None} /\ c.rest \in SUBSET Managers
  BY DEF CallState, Positions

LEMMA InitInv == Init => ContextInv
<1> SUFFICES ASSUME Init PROVE ContextInv
  OBVIOUS
<1> USE MainAssumption, MaxManagersAssumption, ManagersAreNumbers DEF Init
<1>1. thread \in [Threads -> CallState]
  BY NewCallStates
<1>2. TypeOK
  <2>1. made \in 0 .. MaxManagers
    OBVIOUS
  <2>2. table \in [Names -> Managers \cup {Absent, Reserved}] /\ handler \in [Names -> Managers \cup {None}]
    OBVIOUS
  <2>3. running \subseteq Managers /\ abandoned \subseteq Managers
    OBVIOUS
  <2> QED
    BY <1>1, <2>1, <2>2, <2>3 DEF TypeOK
<1>3. PositionInv /\ NameInv
  BY DEF PositionInv, NameInv, Idle, Reserving, Working
<1>4. \A t \in Threads : Holds(t) = {None}
  BY DEF Holds, Idle, None
<1>5. MadeInv
  BY <1>4 DEF MadeInv, Idle, Absent, None
<1>6. KeptInv /\ OnceInv
  BY <1>4 DEF KeptInv, OnceInv
<1> QED
  BY <1>2, <1>3, <1>5, <1>6 DEF ContextInv

LEMMA StepKeepsType ==
  ASSUME TypeOK, NEW t \in Threads, NEW at \in Positions, Step(t, at) \/ Return(t)
  PROVE  thread' \in [Threads -> CallState]
<1>1. [thread[t] EXCEPT !.at = at] \in CallState
  BY CallStateUpdates DEF TypeOK
<1> QED
  BY <1>1, NewCallStates DEF TypeOK, Step, Return

LEMMA TypeStep == TypeOK /\ PositionInv /\ [Next]_vars => TypeOK'
<1> SUFFICES ASSUME TypeOK, PositionInv, [Next]_vars PROVE TypeOK'
  OBVIOUS
<1> USE MainAssumption, ManagersAreNumbers DEF TypeOK, lifeVars
<1>0. \A t \in Threads : thread[t].manager \in Managers \cup {None} /\ thread[t].rest \in SUBSET Managers
  BY CallStateFields
<1>1. CASE Start
  BY <1>1 DEF Start
<1>2. CASE StopRouter
  BY <1>2, CallStateUpdates DEF StopRouter, Step, Positions
<1>3. CASE Deactivate
  BY <1>3, NewCallStates DEF Deactivate, Positions
<1>4. ASSUME NEW m \in Managers, UnregisterNext(m) PROVE TypeOK'
  <2>1. thread' \in [Threads -> CallState]
    <3>1. CASE thread' = [thread EXCEPT ![Main].at = "halting", ![Main].manager = m]
      <4>1. [thread[Main] EXCEPT !.at = "halting", !.manager = m] \in CallState
        BY CallStateUpdates DEF Positions
      <4> QED
        BY <3>1, <4>1
    <3>2. CASE Return(Main)
      BY <3>2, NewCallStates DEF Return
    <3> QED
      BY <1>4, <3>1, <3>2 DEF UnregisterNext
  <2>2. handler' \in [Names -> Managers \cup {None}]
    BY <1>4 DEF UnregisterNext, Unregistered
  <2>3. abandoned' \subseteq Managers
    BY <1>0, <1>4 DEF UnregisterNext
  <2> QED
    BY <1>4, <2>1, <2>2, <2>3 DEF UnregisterNext
<1>5. CASE StopNext
  <2>1. thread' \in [Threads -> CallState]
    BY <1>0, <1>5, CallStateUpdates DEF StopNext, Positions
  <2> QED
    BY <1>5, <2>1 DEF StopNext
<1>6. CASE StopReturns
  BY <1>6, NewCallStates DEF StopReturns, Return
<1>7. ASSUME NEW t \in Threads, NEW n \in Names, ReserveName(t, n) PROVE TypeOK'
  <2>1. made' \in Managers /\ made' \in 0 .. MaxManagers
    BY <1>7, MaxManagersAssumption DEF ReserveName, Managers
  <2> QED
    BY <1>7, <2>1, NewCallStates DEF ReserveName, Positions
<1>8. ASSUME NEW t \in Threads, NEW n \in Names, ClaimObject(t, n) PROVE TypeOK'
  BY <1>8, NewCallStates DEF ClaimObject, Positions
<1>9. ASSUME NEW t \in Threads, Make(t) PROVE TypeOK'
  <2> USE StepKeepsType DEF Positions
  <2>1. CASE ObjectStarted(t)
    BY <2>1 DEF ObjectStarted
  <2>2. CASE PublishObject(t)
    <3>1. thread[t].manager \in Managers
      BY <2>2 DEF PublishObject, PositionInv, Working, Reserving
    <3> QED
      BY <2>2, <3>1 DEF PublishObject
  <2>3. CASE RegisterHandler(t)
    <3>1. thread[t].manager \in Managers
      BY <2>3 DEF RegisterHandler, PositionInv, Working, Reserving
    <3> QED
      BY <2>3, <3>1 DEF RegisterHandler
  <2>4. CASE WithdrawObject(t)
    BY <2>4 DEF WithdrawObject
  <2>5. CASE ReleaseName(t)
    BY <2>5 DEF ReleaseName
  <2> QED
    BY <1>9, <2>1, <2>2, <2>3, <2>4, <2>5 DEF Make
<1>10. ASSUME NEW t \in Threads, Remove(t) PROVE TypeOK'
  <2> USE StepKeepsType DEF Positions
  <2>1. CASE UnregisterHandler(t)
    <3>1. thread[t].manager \in Managers
      BY <2>1 DEF UnregisterHandler, PositionInv, Working, Reserving
    <3> QED
      BY <2>1, <3>1 DEF UnregisterHandler, Unregistered
  <2>2. CASE FreeName(t)
    BY <2>2 DEF FreeName
  <2>3. CASE EndObject(t)
    BY <2>3 DEF EndObject
  <2> QED
    BY <1>10, <2>1, <2>2, <2>3 DEF Remove
<1>11. CASE UNCHANGED vars
  BY <1>11 DEF vars
<1> QED
  BY <1>1, <1>2, <1>3, <1>4, <1>5, <1>6, <1>7, <1>8, <1>9, <1>10, <1>11 DEF Next, Stop

-----------------------------------------------------------------------------
(* What a step does to the local variables of its thread and to what it holds. *)

LEMMA StepEffect ==
  ASSUME TypeOK, NEW t \in Threads, NEW at \in Positions, Step(t, at)
  PROVE  /\ thread'[t].at = at /\ thread'[t].name = thread[t].name
         /\ thread'[t].manager = thread[t].manager /\ thread'[t].rest = thread[t].rest
         /\ \A u \in Threads : u # t => thread'[u] = thread[u] /\ Holds(u)' = Holds(u)
         /\ Holds(t)' = (IF at = "registering" THEN {} ELSE {thread[t].manager}) \cup thread[t].rest
  BY DEF TypeOK, Step, CallState, Holds

LEMMA ReturnEffect ==
  ASSUME TypeOK, NEW t \in Threads, Return(t)
  PROVE  /\ thread'[t] = Idle /\ Holds(t)' = {None}
         /\ \A u \in Threads : u # t => thread'[u] = thread[u] /\ Holds(u)' = Holds(u)
  BY DEF TypeOK, Return, Holds, Idle

LEMMA BeginEffect ==
  ASSUME TypeOK, NEW t \in Threads, NEW at \in Positions \ {"registering"}, NEW n, NEW m,
         thread' = [thread EXCEPT ![t] = [Idle EXCEPT !.at = at, !.name = n, !.manager = m]]
  PROVE  /\ thread'[t].at = at /\ thread'[t].name = n
         /\ thread'[t].manager = m /\ thread'[t].rest = {}
         /\ \A u \in Threads : u # t => thread'[u] = thread[u] /\ Holds(u)' = Holds(u)
         /\ Holds(t)' = {m}
  BY DEF TypeOK, Holds, Idle

Others == PositionInv /\ NameInv /\ MadeInv /\ KeptInv /\ OnceInv

-----------------------------------------------------------------------------
(* make_rpc_object()                                                       *)

LEMMA ReserveNameInv ==
  ASSUME ContextInv, NEW t \in Threads, NEW n \in Names, ReserveName(t, n)
  PROVE  Others'
<1> USE DEF ContextInv
<1>1. thread[t] = Idle /\ table[n] = Absent /\ made' = made + 1 /\ made' \in Managers
      /\ running' = running \cup {made'} /\ UNCHANGED <<handler, abandoned>>
      /\ table' = [table EXCEPT ![n] = Reserved]
  BY MaxManagersAssumption DEF ReserveName, PositionInv, TypeOK, Managers
<1>2. /\ thread'[t].at = "starting" /\ thread'[t].name = n
      /\ thread'[t].manager = made' /\ thread'[t].rest = {}
      /\ \A u \in Threads : u # t => thread'[u] = thread[u] /\ Holds(u)' = Holds(u)
      /\ Holds(t)' = {made'}
  BY BeginEffect DEF ReserveName, Positions
<1>3. made \in Nat /\ \A m \in Names : table[m] \in Managers \cup {Absent, Reserved}
  BY DEF TypeOK
<1>4. /\ \A m \in Names : m # n => table'[m] = table[m]
      /\ table'[n] = Reserved
  BY <1>1 DEF TypeOK
<1>5. PositionInv'
  BY <1>1, <1>2 DEF PositionInv, Working, Reserving
<1>6. NameInv'
  BY <1>1, <1>2, <1>4, ManagersAreNumbers DEF NameInv, Absent, Reserved, Reserving, Working, Idle
<1>7. MadeInv'
  <2>1. \A m \in Names : table'[m] <= made'
    <3> SUFFICES ASSUME NEW m \in Names PROVE table'[m] <= made'
      OBVIOUS
    <3>1. table[m] \in Int
      BY <1>3, ManagersAreNumbers
    <3>2. table[m] <= made
      BY DEF MadeInv
    <3> QED
      BY <1>1, <1>3, <1>4, <3>1, <3>2 DEF Reserved
  <2>2. \A u \in Threads : Holds(u)' \subseteq 0 .. made'
    BY <1>1, <1>2, <1>3 DEF MadeInv
  <2>3. \A u \in Threads : thread'[u].at = "releasing" => thread'[u].manager \notin running'
    <3> SUFFICES ASSUME NEW u \in Threads, u # t, thread[u].at = "releasing"
                 PROVE  thread[u].manager \notin running'
      BY <1>2
    <3>1. thread[u].manager \in Holds(u)
      BY DEF Holds
    <3> QED
      BY <1>1, <1>3, <3>1 DEF MadeInv
  <2>4. running' \subseteq 1 .. made'
    BY <1>1, <1>3 DEF MadeInv
  <2> QED
    BY <2>1, <2>2, <2>3, <2>4 DEF MadeInv
<1>8. KeptInv'
  <2>1. Holds(t) = {None}
    BY <1>1 DEF Holds, Idle
  <2> QED
    BY <1>1, <1>2, <1>4, <2>1, ManagersAreNumbers DEF KeptInv, Absent, MadeInv, TypeOK
<1>9. OnceInv'
  <2>1. \A u \in Threads : made' \notin Holds(u)
    BY <1>1, <1>3 DEF MadeInv
  <2>2. \A m \in Names : table[m] # made'
    BY <1>1, <1>3, ManagersAreNumbers DEF MadeInv, Absent, Reserved
  <2> QED
    BY <1>1, <1>2, <1>4, <2>1, <2>2, ManagersAreNumbers DEF OnceInv
<1> QED
  BY <1>5, <1>6, <1>7, <1>8, <1>9 DEF Others

LEMMA ObjectStartedInv ==
  ASSUME ContextInv, NEW t \in Threads, ObjectStarted(t)
  PROVE  Others'
<1> USE DEF ContextInv
<1>1. /\ thread[t].at = "starting" /\ thread[t].rest = {}
      /\ thread[t].manager \in Managers /\ thread[t].name \in Names
      /\ UNCHANGED <<table, handler, running, made, abandoned>>
  BY DEF ObjectStarted, PositionInv, Working, Reserving
<1>2. PICK at \in {"publishing", "withdrawing"} : Step(t, at)
  BY DEF ObjectStarted
<1>3. /\ thread'[t].at \in {"publishing", "withdrawing"} /\ thread'[t].name = thread[t].name
      /\ thread'[t].manager = thread[t].manager /\ thread'[t].rest = {}
      /\ \A u \in Threads : u # t => thread'[u] = thread[u]
      /\ \A u \in Threads : Holds(u)' = Holds(u)
  BY <1>1, <1>2, StepEffect DEF Positions, Holds
<1>11. PositionInv'
  BY <1>1, <1>3 DEF PositionInv, Working, Reserving
<1>12. NameInv'
  BY <1>1, <1>3 DEF NameInv, Reserving, Working
<1>13. MadeInv'
  BY <1>1, <1>3 DEF MadeInv
<1>14. KeptInv'
  BY <1>1, <1>3 DEF KeptInv
<1>15. OnceInv'
  BY <1>1, <1>3 DEF OnceInv
<1> QED
  BY <1>11, <1>12, <1>13, <1>14, <1>15 DEF Others

LEMMA PublishObjectInv ==
  ASSUME ContextInv, NEW t \in Threads, PublishObject(t)
  PROVE  Others'
<1> USE DEF ContextInv
<1>1. /\ thread[t].at = "publishing" /\ thread[t].rest = {}
      /\ thread[t].manager \in Managers /\ thread[t].name \in Names
      /\ UNCHANGED <<handler, running, made, abandoned>>
  BY DEF PublishObject, PositionInv, Working, Reserving
<1>2. CASE Step(t, "withdrawing") /\ UNCHANGED table
  <2>1. /\ thread'[t].at = "withdrawing" /\ thread'[t].name = thread[t].name
        /\ thread'[t].manager = thread[t].manager /\ thread'[t].rest = {}
        /\ \A u \in Threads : u # t => thread'[u] = thread[u]
        /\ \A u \in Threads : Holds(u)' = Holds(u)
    BY <1>1, <1>2, StepEffect DEF Positions, Holds
  <2>2. PositionInv' /\ NameInv'
    BY <1>1, <1>2, <2>1 DEF PositionInv, NameInv, Reserving, Working
  <2>3. MadeInv'
    BY <1>1, <1>2, <2>1 DEF MadeInv
  <2>4. KeptInv'
    BY <1>1, <1>2, <2>1 DEF KeptInv
  <2>5. OnceInv'
    BY <1>1, <1>2, <2>1 DEF OnceInv
  <2> QED
    BY <2>2, <2>3, <2>4, <2>5 DEF Others
<1>3. CASE Step(t, "registering") /\ table' = [table EXCEPT ![thread[t].name] = thread[t].manager]
  <2> DEFINE n == thread[t].name
             m == thread[t].manager
  <2>1. /\ thread'[t].at = "registering" /\ thread'[t].name = n
        /\ thread'[t].manager = m /\ thread'[t].rest = {}
        /\ \A u \in Threads : u # t => thread'[u] = thread[u] /\ Holds(u)' = Holds(u)
        /\ Holds(t)' = {}
    BY <1>1, <1>3, StepEffect DEF Positions
  <2>2. Holds(t) = {m}
    BY <1>1 DEF Holds
  <2>3. table'[n] = m /\ \A k \in Names : k # n => table'[k] = table[k]
    BY <1>1, <1>3 DEF TypeOK
  <2>4. table[n] = Reserved /\ \A k \in Names : table[k] # m
    BY <1>1, <2>2 DEF NameInv, OnceInv, Reserving
  <2>5. m <= made
    BY <1>1, <2>2 DEF MadeInv
  <2> HIDE DEF n, m
  <2>6. n \in Names /\ m \in Managers
    BY <1>1 DEF n, m
  <2>7. PositionInv'
    BY <1>1, <2>1, <2>6 DEF PositionInv, Reserving, Working
  <2>8. NameInv'
    <3>1. \A u \in Threads : u # t /\ thread[u].at \in Reserving => thread[u].name # n
      BY <1>1 DEF NameInv, Reserving, n
    <3>2. \A u \in Threads : thread[u].at \in Reserving => thread[u].name \in Names
      BY DEF PositionInv, Working
    <3> QED
      BY <1>1, <2>1, <2>3, <2>4, <2>6, <3>1, <3>2 DEF NameInv, Reserving
  <2>9. MadeInv'
    BY <1>1, <2>1, <2>3, <2>5, <2>6 DEF MadeInv
  <2>10. KeptInv'
    BY <1>1, <2>1, <2>2, <2>3, <2>4, <2>6, ManagersAreNumbers DEF KeptInv, MadeInv, TypeOK
  <2>11. OnceInv'
    <3>1. \A u \in Threads : u # t => m \notin Holds(u)
      BY <1>1, <2>2, <2>6 DEF OnceInv
    <3> QED
      BY <1>1, <2>1, <2>3, <2>6, <3>1 DEF OnceInv
  <2> QED
    BY <2>7, <2>8, <2>9, <2>10, <2>11 DEF Others
<1> QED
  BY <1>2, <1>3 DEF PublishObject

LEMMA RegisterHandlerInv ==
  ASSUME ContextInv, NEW t \in Threads, RegisterHandler(t)
  PROVE  Others'
<1> USE DEF ContextInv
<1>1. /\ thread[t].at = "registering" /\ thread[t].rest = {}
      /\ thread[t].manager \in Managers /\ thread[t].name \in Names
  BY DEF RegisterHandler, PositionInv, Working, Reserving
<1>2. /\ thread'[t] = Idle /\ thread'[t].at = "idle" /\ Holds(t)' = {None}
      /\ \A u \in Threads : u # t => thread'[u] = thread[u] /\ Holds(u)' = Holds(u)
  <2>1. TypeOK /\ Return(t)
    BY DEF RegisterHandler
  <2>2. Idle.at = "idle"
    BY DEF Idle
  <2> HIDE DEF ContextInv
  <2> QED BY <2>1, <2>2, ReturnEffect
<1>3. /\ Holds(t) = {} /\ abandoned \subseteq abandoned'
      /\ UNCHANGED <<table, running, made>>
  BY <1>1 DEF RegisterHandler, Holds
<1>4. made \in Nat /\ None \notin Managers
  BY ManagersAreNumbers DEF TypeOK
<1>11. PositionInv'
  BY <1>1, <1>2, <1>3, <1>4 DEF PositionInv, Working, Reserving
<1>12. NameInv'
  BY <1>1, <1>2, <1>3, <1>4 DEF NameInv, Reserving, Working
<1>13. MadeInv'
  BY <1>1, <1>2, <1>3, <1>4 DEF MadeInv, Idle, None
<1>14. KeptInv'
  BY <1>1, <1>2, <1>3, <1>4 DEF KeptInv
<1>15. OnceInv'
  BY <1>1, <1>2, <1>3, <1>4 DEF OnceInv
<1> QED
  BY <1>11, <1>12, <1>13, <1>14, <1>15 DEF Others

LEMMA WithdrawObjectInv ==
  ASSUME ContextInv, NEW t \in Threads, WithdrawObject(t)
  PROVE  Others'
<1> USE DEF ContextInv
<1>1. /\ thread[t].at = "withdrawing" /\ thread[t].rest = {}
      /\ thread[t].manager \in Managers /\ thread[t].name \in Names
  BY DEF WithdrawObject, PositionInv, Working, Reserving
<1>2. /\ thread'[t].at = "releasing" /\ thread'[t].name = thread[t].name
      /\ thread'[t].manager = thread[t].manager /\ thread'[t].rest = {}
      /\ \A u \in Threads : u # t => thread'[u] = thread[u]
      /\ \A u \in Threads : Holds(u)' = Holds(u)
  BY <1>1, StepEffect DEF WithdrawObject, Positions, Holds
<1>3. running' = running \ {thread[t].manager} /\ UNCHANGED <<table, made, abandoned>>
  BY DEF WithdrawObject
<1>11. PositionInv'
  BY <1>1, <1>2, <1>3 DEF PositionInv, Working, Reserving
<1>12. NameInv'
  BY <1>1, <1>2, <1>3 DEF NameInv, Reserving, Working
<1>13. MadeInv'
  BY <1>1, <1>2, <1>3 DEF MadeInv
<1>14. KeptInv'
  BY <1>1, <1>2, <1>3 DEF KeptInv
<1>15. OnceInv'
  BY <1>1, <1>2, <1>3 DEF OnceInv
<1> QED
  BY <1>11, <1>12, <1>13, <1>14, <1>15 DEF Others

LEMMA ReleaseNameInv ==
  ASSUME ContextInv, NEW t \in Threads, ReleaseName(t)
  PROVE  Others'
<1> USE DEF ContextInv
<1>1. /\ thread[t].at = "releasing" /\ thread[t].rest = {}
      /\ thread[t].manager \in Managers /\ thread[t].name \in Names
  BY DEF ReleaseName, PositionInv, Working, Reserving
<1>2. /\ thread'[t] = Idle /\ thread'[t].at = "idle" /\ Holds(t)' = {None}
      /\ \A u \in Threads : u # t => thread'[u] = thread[u] /\ Holds(u)' = Holds(u)
  BY ReturnEffect DEF ReleaseName, Idle
<1>3. /\ Holds(t) = {thread[t].manager} /\ thread[t].manager \notin running
      /\ UNCHANGED <<running, made, abandoned>>
  BY <1>1 DEF ReleaseName, Holds, MadeInv
<1>4. /\ table'[thread[t].name] = Absent /\ table[thread[t].name] = Reserved
      /\ \A n \in Names : n # thread[t].name => table'[n] = table[n]
  BY <1>1 DEF ReleaseName, TypeOK, NameInv, Reserving
<1>5. made \in Nat /\ Reserved \in Int /\ Absent <= 0
  BY DEF TypeOK, Absent, Reserved
<1>6. \A u \in Threads : u # t /\ thread[u].at \in Reserving => thread[u].name # thread[t].name
  BY <1>1 DEF NameInv, Reserving
<1>7. \A u \in Threads : thread[u].at \in Reserving => thread[u].name \in Names
  BY DEF PositionInv, Working
<1>11. PositionInv'
  BY <1>1, <1>2, <1>3, <1>4, ManagersAreNumbers DEF PositionInv, Working, Reserving
<1>12. NameInv'
  BY <1>1, <1>2, <1>3, <1>4, ManagersAreNumbers, <1>6, <1>7 DEF NameInv, Reserving, Working
<1>13. MadeInv'
  BY <1>2, <1>3, <1>4, <1>5 DEF MadeInv, Idle, None, Absent
<1>14. KeptInv'
  BY <1>1, <1>2, <1>3, <1>4, ManagersAreNumbers DEF KeptInv, TypeOK
<1>15. OnceInv'
  BY <1>1, <1>2, <1>3, <1>4, ManagersAreNumbers DEF OnceInv
<1> QED
  BY <1>11, <1>12, <1>13, <1>14, <1>15 DEF Others

-----------------------------------------------------------------------------
(* remove_rpc_object()                                                     *)

LEMMA ClaimObjectInv ==
  ASSUME ContextInv, NEW t \in Threads, NEW n \in Names, ClaimObject(t, n)
  PROVE  Others'
<1> USE DEF ContextInv
<1>1. /\ thread[t] = Idle /\ table[n] \in Managers
      /\ UNCHANGED <<handler, running, made, abandoned>>
  BY DEF ClaimObject, PositionInv
<1>2. /\ thread'[t].at = "unregistering" /\ thread'[t].name = n
      /\ thread'[t].manager = table[n] /\ thread'[t].rest = {}
      /\ \A u \in Threads : u # t => thread'[u] = thread[u] /\ Holds(u)' = Holds(u)
      /\ Holds(t)' = {table[n]}
  BY BeginEffect DEF ClaimObject, Positions
<1>3. Holds(t) = {None}
  BY <1>1 DEF Holds, Idle
<1>4. table'[n] = Reserved /\ \A k \in Names : k # n => table'[k] = table[k]
  BY DEF ClaimObject, TypeOK
<1>5. \A k \in Names : k # n => table[k] # table[n]
  BY <1>1 DEF NameInv
<1>6. \A u \in Threads : thread[u].at \in Reserving => thread[u].name \in Names /\ thread[u].name # n
  BY <1>1, ManagersAreNumbers DEF PositionInv, Working, NameInv
<1>7. made \in Nat
  BY DEF TypeOK
<1>8. table[n] \in Nat /\ table[n] <= made
  BY <1>1, ManagersAreNumbers DEF MadeInv
<1>11. PositionInv'
  BY <1>1, <1>2, <1>3, <1>4, ManagersAreNumbers DEF PositionInv, Working, Reserving
<1>12. NameInv'
  BY <1>1, <1>2, <1>3, <1>4, ManagersAreNumbers, <1>5, <1>6 DEF NameInv, Reserving, Working
<1>13. MadeInv'
  BY <1>1, <1>2, <1>3, <1>4, <1>7, <1>8 DEF MadeInv, Reserved
<1>14. KeptInv'
  BY <1>1, <1>2, <1>3, <1>4, ManagersAreNumbers DEF KeptInv, TypeOK
<1>15. OnceInv'
  BY <1>1, <1>2, <1>3, <1>4, ManagersAreNumbers, <1>5 DEF OnceInv
<1> QED
  BY <1>11, <1>12, <1>13, <1>14, <1>15 DEF Others

LEMMA UnregisterHandlerInv ==
  ASSUME ContextInv, NEW t \in Threads, UnregisterHandler(t)
  PROVE  Others'
<1> USE DEF ContextInv
<1>1. /\ thread[t].at = "unregistering" /\ thread[t].rest = {}
      /\ thread[t].manager \in Managers /\ thread[t].name \in Names
  BY DEF UnregisterHandler, PositionInv, Working, Reserving
<1>2. Holds(t) = {thread[t].manager} /\ UNCHANGED <<table, running, made>>
  BY <1>1 DEF UnregisterHandler, Holds
<1>3. CASE Step(t, "freeing") /\ UNCHANGED abandoned
  <2>1. /\ thread'[t].at = "freeing" /\ thread'[t].name = thread[t].name
        /\ thread'[t].manager = thread[t].manager /\ thread'[t].rest = {}
        /\ \A u \in Threads : u # t => thread'[u] = thread[u]
        /\ \A u \in Threads : Holds(u)' = Holds(u)
    BY <1>1, <1>3, StepEffect DEF Positions, Holds
  <2>2. PositionInv' /\ NameInv'
    BY <1>1, <1>2, <2>1 DEF PositionInv, NameInv, Reserving, Working
  <2>3. MadeInv'
    BY <1>1, <1>2, <2>1 DEF MadeInv
  <2>4. KeptInv'
    BY <1>1, <1>2, <1>3, <2>1 DEF KeptInv
  <2>5. OnceInv'
    BY <1>1, <1>2, <2>1 DEF OnceInv
  <2> QED
    BY <2>2, <2>3, <2>4, <2>5 DEF Others
<1>4. CASE Return(t) /\ abandoned' = abandoned \cup {thread[t].manager}
  <2>1. /\ thread'[t] = Idle /\ thread'[t].at = "idle" /\ Holds(t)' = {None}
        /\ \A u \in Threads : u # t => thread'[u] = thread[u] /\ Holds(u)' = Holds(u)
    BY <1>4, ReturnEffect DEF Idle
  <2>2. PositionInv' /\ NameInv'
    BY <1>1, <1>2, <2>1 DEF PositionInv, NameInv, Reserving, Working
  <2>3. MadeInv'
    BY <1>1, <1>2, <2>1 DEF MadeInv, TypeOK, None
  <2>4. KeptInv'
    BY <1>1, <1>2, <1>4, <2>1 DEF KeptInv
  <2>5. OnceInv'
    BY <1>1, <1>2, <2>1, ManagersAreNumbers DEF OnceInv
  <2> QED
    BY <2>2, <2>3, <2>4, <2>5 DEF Others
<1> QED
  BY <1>3, <1>4 DEF UnregisterHandler

LEMMA FreeNameInv ==
  ASSUME ContextInv, NEW t \in Threads, FreeName(t)
  PROVE  Others'
<1> USE DEF ContextInv
<1>1. /\ thread[t].at = "freeing" /\ thread[t].rest = {}
      /\ thread[t].manager \in Managers /\ thread[t].name \in Names
  BY DEF FreeName, PositionInv, Working, Reserving
<1>2. /\ thread'[t].at = "ending" /\ thread'[t].name = thread[t].name
      /\ thread'[t].manager = thread[t].manager /\ thread'[t].rest = {}
      /\ \A u \in Threads : u # t => thread'[u] = thread[u]
      /\ \A u \in Threads : Holds(u)' = Holds(u)
  BY <1>1, StepEffect DEF FreeName, Positions, Holds
<1>3. UNCHANGED <<running, made, abandoned>>
  BY DEF FreeName
<1>4. /\ table'[thread[t].name] = Absent /\ table[thread[t].name] = Reserved
      /\ \A n \in Names : n # thread[t].name => table'[n] = table[n]
  BY <1>1 DEF FreeName, TypeOK, NameInv, Reserving
<1>5. made \in Nat /\ Absent <= 0
  BY DEF TypeOK, Absent
<1>6. \A u \in Threads : u # t /\ thread[u].at \in Reserving => thread[u].name # thread[t].name
  BY <1>1 DEF NameInv, Reserving
<1>7. \A u \in Threads : thread[u].at \in Reserving => thread[u].name \in Names
  BY DEF PositionInv, Working
<1>11. PositionInv'
  BY <1>1, <1>2, <1>3, <1>4, ManagersAreNumbers DEF PositionInv, Working, Reserving
<1>12. NameInv'
  BY <1>1, <1>2, <1>3, <1>4, ManagersAreNumbers, <1>6, <1>7 DEF NameInv, Reserving, Working
<1>13. MadeInv'
  BY <1>2, <1>3, <1>4, <1>5 DEF MadeInv, Absent
<1>14. KeptInv'
  BY <1>1, <1>2, <1>3, <1>4, ManagersAreNumbers DEF KeptInv, TypeOK
<1>15. OnceInv'
  BY <1>1, <1>2, <1>3, <1>4, ManagersAreNumbers DEF OnceInv
<1> QED
  BY <1>11, <1>12, <1>13, <1>14, <1>15 DEF Others

LEMMA EndObjectInv ==
  ASSUME ContextInv, NEW t \in Threads, EndObject(t)
  PROVE  Others'
<1> USE DEF ContextInv
<1>1. /\ thread[t].at = "ending" /\ thread[t].rest = {}
      /\ thread[t].manager \in Managers /\ thread[t].name \in Names
  BY DEF EndObject, PositionInv, Working, Reserving
<1>2. /\ thread'[t] = Idle /\ thread'[t].at = "idle" /\ Holds(t)' = {None}
      /\ \A u \in Threads : u # t => thread'[u] = thread[u] /\ Holds(u)' = Holds(u)
  BY ReturnEffect DEF EndObject, Idle
<1>3. /\ running' = running \ {thread[t].manager} /\ Holds(t) = {thread[t].manager}
      /\ UNCHANGED <<table, made, abandoned>>
  BY <1>1 DEF EndObject, Holds
<1>4. made \in Nat
  BY DEF TypeOK
<1>11. PositionInv'
  BY <1>1, <1>2, <1>3, ManagersAreNumbers DEF PositionInv, Working, Reserving
<1>12. NameInv'
  BY <1>1, <1>2, <1>3, ManagersAreNumbers DEF NameInv, Reserving, Working
<1>13. MadeInv'
  <2>1. running' \subseteq 1 .. made' /\ \A n \in Names : table'[n] <= made'
    BY <1>1, <1>2, <1>3, <1>4 DEF MadeInv
  <2>2. \A u \in Threads : Holds(u)' \subseteq 0 .. made'
    BY <1>1, <1>2, <1>3, <1>4 DEF MadeInv, None
  <2>3. \A u \in Threads : thread'[u].at = "releasing" => thread'[u].manager \notin running'
    BY <1>1, <1>2, <1>3, <1>4 DEF MadeInv
  <2> QED
    BY <2>1, <2>2, <2>3 DEF MadeInv
<1>14. KeptInv'
  BY <1>1, <1>2, <1>3, ManagersAreNumbers DEF KeptInv
<1>15. OnceInv'
  BY <1>1, <1>2, <1>3, ManagersAreNumbers DEF OnceInv
<1> QED
  BY <1>11, <1>12, <1>13, <1>14, <1>15 DEF Others

-----------------------------------------------------------------------------
(* stop()                                                                  *)

LEMMA StartInv ==
  ASSUME ContextInv, Start
  PROVE  Others'
<1> USE DEF ContextInv
<1>1. UNCHANGED <<table, handler, thread, running, made, abandoned>>
  BY DEF Start
<1>2. \A u \in Threads : Holds(u)' = Holds(u)
  BY <1>1 DEF Holds
<1>11. PositionInv'
  BY <1>1, <1>2 DEF PositionInv, Working, Reserving
<1>12. NameInv'
  BY <1>1, <1>2 DEF NameInv, Reserving, Working
<1>13. MadeInv'
  BY <1>1, <1>2 DEF MadeInv
<1>14. KeptInv'
  BY <1>1, <1>2 DEF KeptInv
<1>15. OnceInv'
  BY <1>1, <1>2 DEF OnceInv
<1> QED
  BY <1>11, <1>12, <1>13, <1>14, <1>15 DEF Others

LEMMA StopRouterInv ==
  ASSUME ContextInv, StopRouter
  PROVE  Others'
<1> USE DEF ContextInv
<1>1. /\ Main \in Threads /\ thread[Main] = Idle
      /\ UNCHANGED <<table, handler, running, made, abandoned>>
  BY MainAssumption DEF StopRouter, PositionInv
<1>2. /\ thread'[Main].at = "deactivating" /\ thread'[Main].manager = None
      /\ thread'[Main].rest = {}
      /\ \A u \in Threads : u # Main => thread'[u] = thread[u]
      /\ \A u \in Threads : Holds(u)' = Holds(u)
  BY <1>1, StepEffect DEF StopRouter, Positions, Holds, Idle
<1>11. PositionInv'
  BY <1>1, <1>2 DEF PositionInv, Working, Reserving
<1>12. NameInv'
  BY <1>1, <1>2 DEF NameInv, Reserving, Working
<1>13. MadeInv'
  BY <1>1, <1>2 DEF MadeInv
<1>14. KeptInv'
  BY <1>1, <1>2 DEF KeptInv
<1>15. OnceInv'
  BY <1>1, <1>2 DEF OnceInv
<1> QED
  BY <1>11, <1>12, <1>13, <1>14, <1>15 DEF Others

LEMMA DeactivateInv ==
  ASSUME ContextInv, Deactivate
  PROVE  Others'
<1> USE DEF ContextInv
<1> DEFINE R == {table[n] : n \in Names} \cap Managers
<1>1. /\ Main \in Threads /\ thread[Main].at = "deactivating"
      /\ Holds(Main) = {None} /\ UNCHANGED <<handler, running, made, abandoned>>
  BY MainAssumption DEF Deactivate, PositionInv, Holds
<1>2. /\ thread'[Main].at = "stopping" /\ thread'[Main].manager = None /\ thread'[Main].rest = R
      /\ \A u \in Threads : u # Main => thread'[u] = thread[u] /\ Holds(u)' = Holds(u)
      /\ Holds(Main)' = {None} \cup R
  BY <1>1 DEF Deactivate, TypeOK, Holds, Idle
<1>3. \A n \in Names : table'[n] = IF table[n] \in Managers THEN Absent ELSE table[n]
  BY DEF Deactivate
<1>4. made \in Nat /\ Absent <= made
  BY DEF TypeOK, Absent
<1>7. \A m \in R : m \in Nat /\ m <= made
  <2>1. \A m \in R : m \in Nat
    BY ManagersAreNumbers
  <2>2. \A m \in R : m <= made
    BY DEF MadeInv
  <2> QED
    BY <2>1, <2>2
<1>8. \A u \in Threads : thread[u].at \in Reserving => thread[u].name \in Names
  BY DEF PositionInv, Working
<1>5. \A m \in R : \E n \in Names : table[n] = m /\ m \in Managers
  OBVIOUS
<1>6. \A n \in Names : table[n] \in Managers => table[n] \in R
  OBVIOUS
<1> HIDE DEF R
<1>11. PositionInv'
  BY <1>1, <1>2, <1>3, ManagersAreNumbers DEF PositionInv, Working, Reserving
<1>12. NameInv'
  BY <1>1, <1>2, <1>3, ManagersAreNumbers, <1>8 DEF NameInv, Reserving, Working
<1>13. MadeInv'
  <2>1. running' \subseteq 1 .. made' /\ \A n \in Names : table'[n] <= made'
    BY <1>1, <1>2, <1>3, <1>4, <1>7 DEF MadeInv
  <2>2. \A u \in Threads : Holds(u)' \subseteq 0 .. made'
    BY <1>1, <1>2, <1>3, <1>4, <1>7 DEF MadeInv, None
  <2>3. \A u \in Threads : thread'[u].at = "releasing" => thread'[u].manager \notin running'
    BY <1>1, <1>2, <1>3, <1>4, <1>7 DEF MadeInv
  <2> QED
    BY <2>1, <2>2, <2>3 DEF MadeInv
<1>14. KeptInv'
  BY <1>1, <1>2, <1>3, ManagersAreNumbers, <1>6 DEF KeptInv, TypeOK
<1>15. OnceInv'
  BY <1>1, <1>2, <1>3, ManagersAreNumbers, <1>5 DEF OnceInv
<1> QED
  BY <1>11, <1>12, <1>13, <1>14, <1>15 DEF Others

LEMMA UnregisterNextInv ==
  ASSUME ContextInv, NEW m \in Managers, UnregisterNext(m)
  PROVE  Others'
<1> USE DEF ContextInv
<1>1. /\ Main \in Threads /\ thread[Main].at = "stopping" /\ thread[Main].manager = None
      /\ m \in thread[Main].rest /\ Holds(Main) = {None} \cup thread[Main].rest
      /\ thread[Main] \in CallState /\ UNCHANGED <<table, running, made>>
  BY MainAssumption DEF UnregisterNext, PositionInv, Holds, TypeOK
<1>2. CASE /\ thread' = [thread EXCEPT ![Main].at = "halting", ![Main].manager = m]
           /\ UNCHANGED abandoned
  <2>1. /\ thread'[Main].at = "halting" /\ thread'[Main].manager = m
        /\ thread'[Main].rest = thread[Main].rest
        /\ \A u \in Threads : u # Main => thread'[u] = thread[u] /\ Holds(u)' = Holds(u)
    BY <1>1, <1>2 DEF TypeOK, CallState, Holds
  <2>2. Holds(Main)' = thread[Main].rest
    BY <1>1, <2>1 DEF Holds
  <2>3. PositionInv'
    BY <1>1, <2>1 DEF PositionInv, Reserving, Working
  <2>7. NameInv'
    BY <1>1, <2>1 DEF NameInv, Reserving
  <2>4. MadeInv'
    <3>1. \A u \in Threads : Holds(u)' \subseteq Holds(u)
      BY <1>1, <2>1, <2>2
    <3>2. \A u \in Threads : thread'[u].at = "releasing" => thread'[u] = thread[u]
      BY <2>1
    <3> QED
      BY <1>1, <3>1, <3>2 DEF MadeInv
  <2>5. KeptInv'
    BY <1>1, <1>2, <2>1, <2>2, ManagersAreNumbers DEF KeptInv, TypeOK
  <2>6. OnceInv'
    BY <1>1, <1>2, <2>1, <2>2 DEF OnceInv
  <2> QED
    BY <2>3, <2>4, <2>5, <2>6, <2>7 DEF Others
<1>3. CASE Return(Main) /\ abandoned' = abandoned \cup thread[Main].rest
  <2>1. /\ thread'[Main] = Idle /\ thread'[Main].at = "idle" /\ Holds(Main)' = {None}
        /\ \A u \in Threads : u # Main => thread'[u] = thread[u] /\ Holds(u)' = Holds(u)
    BY <1>1, <1>3, ReturnEffect DEF Idle
  <2>2. PositionInv'
    BY <1>1, <2>1 DEF PositionInv, Reserving, Working
  <2>3. NameInv'
    BY <1>1, <2>1 DEF NameInv, Reserving
  <2>6. MadeInv'
    <3>1. made \in Nat
      BY DEF TypeOK
    <3>2. \A u \in Threads : Holds(u)' \subseteq 0 .. made'
      BY <1>1, <2>1, <3>1 DEF MadeInv, None
    <3> QED
      BY <1>1, <2>1, <3>2 DEF MadeInv
  <2>4. KeptInv'
    BY <1>1, <1>3, <2>1 DEF KeptInv
  <2>5. OnceInv'
    BY <1>1, <2>1, ManagersAreNumbers DEF OnceInv
  <2> QED
    BY <2>2, <2>3, <2>4, <2>5, <2>6 DEF Others
<1> QED
  BY <1>2, <1>3 DEF UnregisterNext

LEMMA StopNextInv ==
  ASSUME ContextInv, StopNext
  PROVE  Others'
<1> USE DEF ContextInv
<1> DEFINE m == thread[Main].manager
<1>1. /\ Main \in Threads /\ thread[Main].at = "halting" /\ m \in thread[Main].rest
      /\ Holds(Main) = thread[Main].rest
      /\ thread[Main] \in CallState /\ UNCHANGED <<table, handler, made, abandoned>>
  BY MainAssumption DEF StopNext, PositionInv, Holds, TypeOK
<1>2. /\ thread'[Main].at = "stopping" /\ thread'[Main].manager = None
      /\ thread'[Main].rest = thread[Main].rest \ {m}
      /\ \A u \in Threads : u # Main => thread'[u] = thread[u] /\ Holds(u)' = Holds(u)
  BY <1>1 DEF StopNext, TypeOK, CallState, Holds
<1>3. Holds(Main)' = {None} \cup (thread[Main].rest \ {m})
  BY <1>1, <1>2 DEF Holds
<1>4. running' = running \ {m}
  BY DEF StopNext
<1>5. made \in Nat
  BY DEF TypeOK
<1> HIDE DEF m
<1>11. PositionInv'
  BY <1>1, <1>2, <1>3, <1>4, ManagersAreNumbers DEF PositionInv, Working, Reserving
<1>12. NameInv'
  BY <1>1, <1>2, <1>3, <1>4, ManagersAreNumbers DEF NameInv, Reserving, Working
<1>13. MadeInv'
  <2>1. running' \subseteq 1 .. made' /\ \A n \in Names : table'[n] <= made'
    BY <1>1, <1>2, <1>3, <1>4, <1>5 DEF MadeInv
  <2>2. \A u \in Threads : Holds(u)' \subseteq 0 .. made'
    BY <1>1, <1>2, <1>3, <1>4, <1>5 DEF MadeInv, None
  <2>3. \A u \in Threads : thread'[u].at = "releasing" => thread'[u].manager \notin running'
    BY <1>1, <1>2, <1>3, <1>4, <1>5 DEF MadeInv
  <2> QED
    BY <2>1, <2>2, <2>3 DEF MadeInv
<1>14. KeptInv'
  BY <1>1, <1>2, <1>3, <1>4, ManagersAreNumbers DEF KeptInv
<1>15. OnceInv'
  BY <1>1, <1>2, <1>3, <1>4, ManagersAreNumbers DEF OnceInv
<1> QED
  BY <1>11, <1>12, <1>13, <1>14, <1>15 DEF Others

LEMMA StopReturnsInv ==
  ASSUME ContextInv, StopReturns
  PROVE  Others'
<1> USE DEF ContextInv
<1>1. /\ Main \in Threads /\ thread[Main].at = "stopping" /\ thread[Main].manager = None
      /\ thread[Main].rest = {} /\ Holds(Main) = {None}
      /\ UNCHANGED <<table, handler, running, made, abandoned>>
  BY MainAssumption DEF StopReturns, PositionInv, Holds
<1>2. /\ thread'[Main] = Idle /\ thread'[Main].at = "idle"
      /\ \A u \in Threads : u # Main => thread'[u] = thread[u]
      /\ \A u \in Threads : Holds(u)' = Holds(u)
  BY <1>1, ReturnEffect DEF StopReturns, Idle
<1>11. PositionInv'
  BY <1>1, <1>2, ManagersAreNumbers DEF PositionInv, Working, Reserving
<1>12. NameInv'
  BY <1>1, <1>2, ManagersAreNumbers DEF NameInv, Reserving, Working
<1>13. MadeInv'
  BY <1>1, <1>2, ManagersAreNumbers DEF MadeInv
<1>14. KeptInv'
  BY <1>1, <1>2, ManagersAreNumbers DEF KeptInv
<1>15. OnceInv'
  BY <1>1, <1>2, ManagersAreNumbers DEF OnceInv
<1> QED
  BY <1>11, <1>12, <1>13, <1>14, <1>15 DEF Others

-----------------------------------------------------------------------------

LEMMA NextInv == ContextInv /\ [Next]_vars => ContextInv'
<1> SUFFICES ASSUME ContextInv, [Next]_vars PROVE Others'
  BY TypeStep DEF ContextInv, Others
<1>1. CASE Start \/ StopRouter
  BY <1>1, StartInv, StopRouterInv
<1>2. CASE Stop
  BY <1>2, DeactivateInv, UnregisterNextInv, StopNextInv, StopReturnsInv DEF Stop
<1>3. ASSUME NEW t \in Threads, NEW n \in Names, ReserveName(t, n) \/ ClaimObject(t, n)
      PROVE  Others'
  BY <1>3, ReserveNameInv, ClaimObjectInv
<1>4. ASSUME NEW t \in Threads, Make(t) PROVE Others'
  BY <1>4, ObjectStartedInv, PublishObjectInv, RegisterHandlerInv, WithdrawObjectInv, ReleaseNameInv
     DEF Make
<1>5. ASSUME NEW t \in Threads, Remove(t) PROVE Others'
  BY <1>5, UnregisterHandlerInv, FreeNameInv, EndObjectInv DEF Remove
<1>6. CASE UNCHANGED vars
  <2>1. UNCHANGED <<table, handler, thread, running, made, abandoned>>
    BY <1>6 DEF vars
  <2>2. \A u \in Threads : Holds(u)' = Holds(u)
    BY <2>1 DEF Holds
  <2> QED
    BY <2>1, <2>2 DEF ContextInv, Others, PositionInv, NameInv, MadeInv, KeptInv, OnceInv
<1> QED
  BY <1>1, <1>2, <1>3, <1>4, <1>5, <1>6 DEF Next

LEMMA ContextAlways == Spec => []ContextInv
  BY InitInv, NextInv, PTL DEF Spec

-----------------------------------------------------------------------------
(* All state of the context stays in its types.                            *)
THEOREM TypeCorrect == Spec => []TypeOK
<1>1. ContextInv => TypeOK
  BY DEF ContextInv
<1> QED
  BY <1>1, ContextAlways, PTL

(* However make_rpc_object(), remove_rpc_object() and stop() of any number *)
(* of threads interleave, an object whose thread runs is in the map or in  *)
(* the hands of a call, or the call that had it has raised an exception.   *)
THEOREM NoObjectIsLost == Spec => []NoObjectLeftBehind
<1>1. ContextInv => NoObjectLeftBehind
  <2> SUFFICES ASSUME ContextInv, NEW m \in running PROVE m \in Listed \cup Held \cup abandoned
    BY DEF NoObjectLeftBehind
  <2> QED
    BY DEF ContextInv, KeptInv, Listed, Held
<1> QED
  BY <1>1, ContextAlways, PTL

(* No object is stopped by two calls, and none that can be found by its    *)
(* name is being stopped.                                                  *)
THEOREM ObjectsAreStoppedOnce == Spec => []StoppedOnce
<1>1. ContextInv => StoppedOnce
  <2> SUFFICES ASSUME ContextInv PROVE StoppedOnce
    OBVIOUS
  <2>1. \A t, u \in Threads : t # u => Holds(t) \cap Holds(u) \cap Managers = {}
    BY DEF ContextInv, OnceInv
  <2>2. Listed \cap Held \cap Managers = {}
    BY DEF ContextInv, OnceInv, Listed, Held
  <2> QED
    BY <2>1, <2>2 DEF StoppedOnce
<1> QED
  BY <1>1, ContextAlways, PTL
===============================================================================
