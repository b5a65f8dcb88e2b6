---------------------------- MODULE MessageRouter ----------------------------
(***************************************************************************)
(* Messages between two contexts (qmi/core/messaging.py): a client whose   *)
(* threads connect to a server and send requests to its objects, and the   *)
(* server that answers them.  Each context has a MessageRouter with one    *)
(* event-driven thread: other threads post callbacks to its event loop,    *)
(* and the loop runs them in order and reads the sockets between them.     *)
(* Either context may stop its router, and the server process may die.     *)
(* A connection is a pair of sockets; wire[c][s] is what is on its way to  *)
(* side s.  A thread that dies without closing its socket (a crash) has    *)
(* its sockets closed by the operating system.                             *)
(***************************************************************************)
EXTENDS Integers, FiniteSets, Sequences

CONSTANTS Threads,      \* threads of the client context
          Calls,        \* Calls[t]: what thread t calls, of "send", "connect", "disconnect"
          Requests,     \* requests they send, one message each
          NoRequest,    \* stands for none
          Unpicklable,  \* requests with arguments or a result that pickle refuses
          MaxConns      \* bound: connections made

ASSUME RequestsAssumption ==
  /\ IsFiniteSet(Requests) /\ NoRequest \notin Requests
  /\ Unpicklable \subseteq Requests
ASSUME CallsAssumption == Calls \in [Threads -> SUBSET {"send", "connect", "disconnect"}]
ASSUME MaxConnsAssumption == MaxConns \in Nat

Sides == {"client", "server"}
Other(s) == IF s = "client" THEN "server" ELSE "client"
Conns == 1 .. MaxConns
NoConn == 0

Hello      == [kind |-> "hello", of |-> NoRequest]
Request(r) == [kind |-> "request", of |-> r]
Reply(r)   == [kind |-> "reply", of |-> r]
Messages   == {Hello} \cup {Request(r) : r \in Requests} \cup {Reply(r) : r \in Requests}

Callback(do, c, msg) == [do |-> do, conn |-> c, msg |-> msg]
CloseAll == Callback("closeAll", NoConn, Hello)
StopLoop == Callback("stop", NoConn, Hello)

VARIABLES
  manager,   \* manager[s]: MessageRouter._socket_manager is not None
  stopping,  \* stopping[s]: progress of MessageRouter.stop
  loop,      \* loop[s]: state of the event loop of side s
  queue,     \* queue[s]: callbacks posted to it
  listening, \* the server's TCP server socket is open
  socket,    \* socket[c][s]: the socket of side s
  managed,   \* managed[c][s]: it is in _socket_wrappers and _peer_context_map
  known,     \* known[c]: the server has seen the client's handshake
  wire,      \* wire[c][s]: messages on their way to side s
  pending,   \* pending[c]: _pending_requests of the client's connection
  serving,   \* <<r, c>>: request r came over c and is at an object of the server
  thread,    \* thread[t]: progress of the client's thread t
  sent,      \* sent[r]: "no", "posted", or "late" if posted after stop() began;
             \* "dropped" when pickle refuses it
  answers    \* answers[r]: reply messages delivered for r

loopVars == <<manager, stopping, loop, queue>>
connVars == <<listening, socket, managed, known, wire>>
callVars == <<serving, sent>>
vars == <<loopVars, connVars, callVars, pending, thread, answers>>

Idle == [at |-> "idle", conn |-> NoConn, of |-> NoRequest]

Init ==
  /\ manager = [s \in Sides |-> TRUE]
  /\ stopping = [s \in Sides |-> "no"]
  /\ loop = [s \in Sides |-> "running"]
  /\ queue = [s \in Sides |-> <<>>]
  /\ listening = TRUE
  /\ socket = [c \in Conns |-> [s \in Sides |-> "none"]]
  /\ managed = [c \in Conns |-> [s \in Sides |-> FALSE]]
  /\ known = [c \in Conns |-> FALSE]
  /\ wire = [c \in Conns |-> [s \in Sides |-> <<>>]]
  /\ pending = [c \in Conns |-> {}]
  /\ serving = {}
  /\ thread = [t \in Threads |-> Idle]
  /\ sent = [r \in Requests |-> "no"]
  /\ answers = [r \in Requests |-> 0]

-----------------------------------------------------------------------------
(* Helpers.  The client's alias of the server is the server's name, so its *)
(* _peer_context_map has at most the one entry Connected.                  *)

Connections == {c \in Conns : managed[c]["client"]}
HasPeerContext == Connections # {}
Connected == CHOOSE c \in Connections : TRUE

(* run_in_thread_arg: a callback posted after the last batch of callbacks  *)
(* is dropped.                                                             *)
Posted(s, cb) == IF loop[s] = "running" THEN [queue EXCEPT ![s] = Append(@, cb)] ELSE queue

(* The socket of side s is closed for every c in C.  The messages that     *)
(* side had not read are lost, and then those on their way to the other    *)
(* side may be lost as well: TCP resets the connection.                    *)
SocketsClosed(s, C) ==
  /\ socket' = [c \in Conns |-> IF c \in C THEN [socket[c] EXCEPT ![s] = "closed"] ELSE socket[c]]
  /\ managed' = [c \in Conns |-> IF c \in C THEN [managed[c] EXCEPT ![s] = FALSE] ELSE managed[c]]
  /\ \E reset \in SUBSET {c \in C : wire[c][s] # <<>>} :
       wire' = [c \in Conns |-> CASE c \in reset -> [x \in Sides |-> <<>>]
                                  [] c \in C \ reset -> [wire[c] EXCEPT ![s] = <<>>]
                                  [] OTHER -> wire[c]]

(* close() also answers the requests that wait for a reply of the peer.    *)
ConnectionsClosed(s, C) ==
  /\ SocketsClosed(s, C)
  /\ IF s = "client"
       THEN /\ answers' = [r \in Requests |-> answers[r] + Cardinality({c \in C : r \in pending[c]})]
            /\ pending' = [c \in Conns |-> IF c \in C THEN {} ELSE pending[c]]
       ELSE UNCHANGED <<answers, pending>>

-----------------------------------------------------------------------------
(* Threads of the client                                                   *)

(* send_message up to line 1507: the peer is known now; an unknown peer or *)
(* an inactive router raises QMI_MessageDeliveryException at once.         *)
RouteMessage(t, r) ==
  /\ thread[t].at = "idle" /\ sent[r] = "no"
  /\ \A u \in Threads : thread[u].of # r
  /\ manager["client"] /\ HasPeerContext
  /\ thread' = [thread EXCEPT ![t] = [at |-> "routed", conn |-> NoConn, of |-> r]]
  /\ UNCHANGED <<loopVars, connVars, callVars, pending, answers>>

PostMessage(t) ==
  /\ thread[t].at = "routed"
  /\ queue' = Posted("client", Callback("send", NoConn, Request(thread[t].of)))
  /\ sent' = [sent EXCEPT ![thread[t].of] = IF manager["client"] THEN "posted" ELSE "late"]
  /\ thread' = [thread EXCEPT ![t] = Idle]
  /\ UNCHANGED <<manager, stopping, loop, connVars, serving, pending, answers>>

(* connect_to_peer: the name is checked, the connection made and the       *)
(* handshake sent in the calling thread.                                   *)
ConnectToPeer(t) ==
  /\ thread[t].at = "idle"
  /\ manager["client"] /\ ~HasPeerContext
  /\ listening
  /\ \E c \in Conns :
       /\ socket[c]["client"] = "none"
       /\ \A d \in Conns : d < c => socket[d]["client"] # "none"
       /\ socket' = [socket EXCEPT ![c]["client"] = "open"]
       /\ wire' = [wire EXCEPT ![c]["server"] = <<Hello>>]
       /\ thread' = [thread EXCEPT ![t] = [at |-> "greeting", conn |-> c, of |-> NoRequest]]
  /\ UNCHANGED <<loopVars, listening, managed, known, pending, callVars, answers>>

(* The server's handshake arrived: the connection is handed to the event   *)
(* loop, which run_in_thread_wait refuses if the loop has finished.        *)
ReceiveHandshake(t) ==
  LET c == thread[t].conn IN
  /\ thread[t].at = "greeting" /\ loop["client"] # "finished"
  /\ wire[c]["client"] # <<>> /\ Head(wire[c]["client"]) = Hello
  /\ wire' = [wire EXCEPT ![c]["client"] = Tail(@)]
  /\ queue' = Posted("client", Callback("add", c, Hello))
  /\ thread' = [thread EXCEPT ![t].at = "adding"]
  /\ UNCHANGED <<manager, stopping, loop, listening, socket, managed, known, pending,
                 callVars, answers>>

(* The handshake times out, the server closed the connection, or the event *)
(* loop has finished: the exception leaves the socket closed.              *)
ConnectFails(t) ==
  /\ thread[t].at = "greeting"
  /\ SocketsClosed("client", {thread[t].conn})
  /\ thread' = [thread EXCEPT ![t] = Idle]
  /\ UNCHANGED <<loopVars, listening, known, pending, callVars, answers>>

DisconnectFromPeer(t) ==
  /\ thread[t].at = "idle"
  /\ manager["client"] /\ loop["client"] # "finished"
  /\ queue' = Posted("client", Callback("disconnect", NoConn, Hello))
  /\ thread' = [thread EXCEPT ![t].at = "leaving"]
  /\ UNCHANGED <<manager, stopping, loop, connVars, pending, callVars, answers>>

-----------------------------------------------------------------------------
(* Callbacks run by the event loop of side s                               *)

Runs(s, do) == loop[s] # "finished" /\ queue[s] # <<>> /\ Head(queue[s]).do = do
Popped(s) == queue' = [queue EXCEPT ![s] = Tail(@)]

(* close_all does not tell the router of the peers that it loses.          *)
RunCloseAll(s) ==
  LET C == {c \in Conns : managed[c][s]}
      backlog == IF s = "server" /\ listening THEN {c \in Conns : socket[c]["server"] = "none"
                                                              /\ socket[c]["client"] # "none"} ELSE {} IN
  /\ Runs(s, "closeAll") /\ Popped(s)
  /\ ConnectionsClosed(s, C \cup backlog)
  /\ listening' = (listening /\ s # "server")
  /\ UNCHANGED <<manager, stopping, loop, known, callVars, thread>>

(* event_loop.stop: the callbacks that are in this batch, any prefix of    *)
(* those posted so far, still run.                                         *)
RunStop(s) ==
  /\ Runs(s, "stop")
  /\ loop' = [loop EXCEPT ![s] = "ending"]
  /\ \E n \in 1 .. Len(queue[s]) : queue' = [queue EXCEPT ![s] = SubSeq(@, 2, n)]
  /\ UNCHANGED <<manager, stopping, connVars, pending, callVars, thread, answers>>

(* The thread finishes; whoever waits for a callback that will not run is  *)
(* woken up with an exception.                                             *)
FinishLoop(s) ==
  /\ loop[s] = "ending" /\ queue[s] = <<>>
  /\ loop' = [loop EXCEPT ![s] = "finished"]
  /\ LET waiting == IF s = "client" THEN {t \in Threads : thread[t].at \in {"adding", "leaving"}} ELSE {} IN
     /\ thread' = [t \in Threads |-> IF t \in waiting THEN Idle ELSE thread[t]]
     /\ SocketsClosed("client", {thread[t].conn : t \in waiting} \ {NoConn})
  /\ UNCHANGED <<manager, stopping, queue, listening, known, pending, callVars, answers>>

\* Mutant of RunAdd: the assertion is dropped.
RunAdd_Unchecked ==
  LET c == Head(queue["client"]).conn
      waiter == CHOOSE t \in Threads : thread[t].conn = c IN
  /\ Runs("client", "add") /\ Popped("client")
  /\ thread' = [thread EXCEPT ![waiter] = Idle]
  /\ managed' = [d \in Conns |-> [managed[d] EXCEPT !["client"] = d = c]]
  /\ UNCHANGED <<socket, wire>>
  /\ UNCHANGED <<manager, stopping, loop, listening, known, pending, callVars, answers>>

(* add_outgoing_connection asserts that the peer is not connected: the     *)
(* connection of a thread that was overtaken is dropped.                   *)
RunAdd ==
  LET c == Head(queue["client"]).conn
      waiter == CHOOSE t \in Threads : thread[t].conn = c IN
  /\ Runs("client", "add") /\ Popped("client")
  /\ thread' = [thread EXCEPT ![waiter] = Idle]
  /\ IF HasPeerContext
       THEN SocketsClosed("client", {c})
       ELSE /\ managed' = [managed EXCEPT ![c]["client"] = TRUE]
            /\ UNCHANGED <<socket, wire>>
  /\ UNCHANGED <<manager, stopping, loop, listening, known, pending, callVars, answers>>

RunDisconnect ==
  /\ Runs("client", "disconnect") /\ Popped("client")
  /\ \E t \in Threads : thread[t].at = "leaving" /\ thread' = [thread EXCEPT ![t] = Idle]
  /\ ConnectionsClosed("client", Connections)
  /\ UNCHANGED <<manager, stopping, loop, listening, known, callVars>>

\* Mutant of RunSendRequest: the request is entered in the table first.
RunSendRequest_PendingFirst ==
  LET r == Head(queue["client"]).msg.of
      c == Connected
      answer == answers' = [answers EXCEPT ![r] = @ + 1] IN
  /\ Runs("client", "send") /\ Popped("client")
  /\ \/ ~HasPeerContext /\ answer /\ UNCHANGED <<wire, pending>>
     \/ /\ HasPeerContext
        /\ pending' = [pending EXCEPT ![c] = @ \cup {r}]
        /\ \/ socket[c]["server"] = "closed" /\ answer /\ UNCHANGED wire
           \/ /\ wire' = [wire EXCEPT ![c]["server"] = IF socket[c]["server"] = "closed" THEN @
                                                       ELSE Append(@, Request(r))]
              /\ UNCHANGED answers
  /\ UNCHANGED <<manager, stopping, loop, listening, socket, managed, known, callVars, thread>>

(* send_message of the client's socket manager.  Sending to a socket that  *)
(* the server has closed may succeed; the error is answered at once.       *)
RunSendRequest ==
  LET r == Head(queue["client"]).msg.of
      c == Connected
      answer == answers' = [answers EXCEPT ![r] = @ + 1] /\ UNCHANGED <<wire, pending>> IN
  /\ Runs("client", "send") /\ Popped("client")
  /\ \/ ~HasPeerContext /\ answer
     \/ /\ HasPeerContext
        /\ \/ socket[c]["server"] = "closed" /\ answer
           \/ /\ wire' = [wire EXCEPT ![c]["server"] = IF socket[c]["server"] = "closed" THEN @
                                                       ELSE Append(@, Request(r))]
              /\ pending' = [pending EXCEPT ![c] = @ \cup {r}]
              /\ UNCHANGED answers
  /\ UNCHANGED <<manager, stopping, loop, listening, socket, managed, known, callVars, thread>>

(* An exception of pickle is not caught: the event loop drops the callback. *)
RunSendUnpicklable ==
  LET r == Head(queue["client"]).msg.of IN
  /\ Runs("client", "send") /\ Popped("client")
  /\ HasPeerContext /\ r \in Unpicklable
  /\ sent' = [sent EXCEPT ![r] = "dropped"]
  /\ UNCHANGED <<manager, stopping, loop, connVars, pending, serving, thread, answers>>

(* The server's socket manager sends a reply; no one is told if it cannot. *)
RunSendReply ==
  LET cb == Head(queue["server"]) IN
  /\ Runs("server", "send") /\ Popped("server")
  /\ wire' = IF /\ managed[cb.conn]["server"] /\ socket[cb.conn]["client"] = "open"
                /\ cb.msg.of \notin Unpicklable
               THEN [wire EXCEPT ![cb.conn]["client"] = Append(@, cb.msg)]
               ELSE wire
  /\ UNCHANGED <<manager, stopping, loop, listening, socket, managed, known, pending,
                 callVars, thread, answers>>

-----------------------------------------------------------------------------
(* Sockets read by the event loops                                         *)

(* add_incoming_connection: the handshake is sent and the connection       *)
(* becomes a peer; it is closed if the handshake cannot be sent.           *)
AcceptConnection(c) ==
  /\ listening /\ loop["server"] = "running"
  /\ socket[c]["server"] = "none" /\ socket[c]["client"] # "none"
  /\ \/ /\ socket' = [socket EXCEPT ![c]["server"] = "open"]
        /\ managed' = [managed EXCEPT ![c]["server"] = TRUE]
        /\ wire' = [wire EXCEPT ![c]["client"] = IF socket[c]["client"] = "open" THEN <<Hello>> ELSE @]
     \/ socket[c]["client"] = "closed" /\ SocketsClosed("server", {c})
  /\ UNCHANGED <<loopVars, listening, known, pending, callVars, thread, answers>>

Readable(s, c) == loop[s] = "running" /\ managed[c][s] /\ wire[c][s] # <<>>

(* The first message of the client is its handshake.                       *)
ReadHandshake(c) ==
  /\ Readable("server", c) /\ Head(wire[c]["server"]) = Hello
  /\ wire' = [wire EXCEPT ![c]["server"] = Tail(@)]
  /\ known' = [known EXCEPT ![c] = TRUE]
  /\ UNCHANGED <<loopVars, listening, socket, managed, pending, callVars, thread, answers>>

(* A request reaches the message handler of its object, or the handler is  *)
(* unknown and an error reply is sent from within the event loop.          *)
ReadRequest(c) ==
  LET r == Head(wire[c]["server"]).of
      rest == [wire EXCEPT ![c]["server"] = Tail(@)] IN
  /\ Readable("server", c) /\ Head(wire[c]["server"]).kind = "request" /\ known[c]
  /\ \/ /\ serving' = serving \cup {<<r, c>>}
        /\ wire' = rest
     \/ /\ wire' = IF socket[c]["client"] = "open" THEN [rest EXCEPT ![c]["client"] = Append(@, Reply(r))] ELSE rest
        /\ UNCHANGED serving
  /\ UNCHANGED <<loopVars, listening, socket, managed, known, pending, sent, thread, answers>>

(* A reply is struck off the table and delivered, even if it is not in it. *)
ReadReply(c) ==
  LET r == Head(wire[c]["client"]).of IN
  /\ Readable("client", c)
  /\ wire' = [wire EXCEPT ![c]["client"] = Tail(@)]
  /\ pending' = [pending EXCEPT ![c] = @ \ {r}]
  /\ answers' = [answers EXCEPT ![r] = @ + 1]
  /\ UNCHANGED <<loopVars, listening, socket, managed, known, callVars, thread>>

(* The other side has closed (recv returns nothing or raises), or a        *)
(* message cannot be unpickled: the connection is removed and closed.      *)
ReadFails(s, c) ==
  /\ loop[s] = "running" /\ managed[c][s]
  /\ socket[c][Other(s)] = "closed" \/ wire[c][s] # <<>>
  /\ socket[c][Other(s)] = "closed" => wire[c][s] = <<>>
  /\ ConnectionsClosed(s, {c})
  /\ UNCHANGED <<loopVars, listening, known, callVars, thread>>

(* An object of the server has handled r: its thread sends the reply to    *)
(* the alias of the connection, or finds that the peer is gone.            *)
Serve(r, c) ==
  /\ <<r, c>> \in serving
  /\ serving' = serving \ {<<r, c>>}
  /\ queue' = IF manager["server"] /\ managed[c]["server"]
                THEN Posted("server", Callback("send", c, Reply(r))) ELSE queue
  /\ UNCHANGED <<manager, stopping, loop, connVars, pending, sent, thread, answers>>

-----------------------------------------------------------------------------
(* MessageRouter.stop of either side, and a crash of the server            *)

\* Mutant of Stop: the loop is stopped without close_all.
Stop_WithoutClosing(s) ==
  /\ stopping[s] = "no"
  /\ stopping' = [stopping EXCEPT ![s] = "closing"]
  /\ manager' = [manager EXCEPT ![s] = FALSE]
  /\ UNCHANGED <<queue, loop, connVars, pending, callVars, thread, answers>>

(* close_all is posted and _socket_manager forgotten *)
Stop(s) ==
  /\ stopping[s] = "no"
  /\ stopping' = [stopping EXCEPT ![s] = "closing"]
  /\ manager' = [manager EXCEPT ![s] = FALSE]
  /\ queue' = Posted(s, CloseAll)
  /\ UNCHANGED <<loop, connVars, pending, callVars, thread, answers>>

Shutdown(s) ==
  /\ stopping[s] = "closing"
  /\ stopping' = [stopping EXCEPT ![s] = "joining"]
  /\ queue' = Posted(s, StopLoop)
  /\ UNCHANGED <<manager, loop, connVars, pending, callVars, thread, answers>>

Join(s) ==
  /\ stopping[s] = "joining" /\ loop[s] = "finished"
  /\ stopping' = [stopping EXCEPT ![s] = "done"]
  /\ UNCHANGED <<manager, loop, queue, connVars, pending, callVars, thread, answers>>

Crash ==
  /\ stopping["server"] = "no"
  /\ stopping' = [stopping EXCEPT !["server"] = "done"]
  /\ manager' = [manager EXCEPT !["server"] = FALSE]
  /\ loop' = [loop EXCEPT !["server"] = "finished"]
  /\ queue' = [queue EXCEPT !["server"] = <<>>]
  /\ listening' = FALSE
  /\ serving' = {}
  /\ SocketsClosed("server", {c \in Conns : socket[c]["client"] # "none" /\ socket[c]["server"] # "closed"})
  /\ UNCHANGED <<known, pending, sent, thread, answers>>

-----------------------------------------------------------------------------
Continue(t) == PostMessage(t) \/ ReceiveHandshake(t) \/ ConnectFails(t)

Caller(t) ==
  \/ "send" \in Calls[t] /\ \E r \in Requests : RouteMessage(t, r)
  \/ "connect" \in Calls[t] /\ ConnectToPeer(t)
  \/ "disconnect" \in Calls[t] /\ DisconnectFromPeer(t)
  \/ Continue(t)

RunCallback(s) ==
  \/ RunCloseAll(s) \/ RunStop(s) \/ FinishLoop(s)
  \/ s = "client" /\ (RunAdd \/ RunDisconnect \/ RunSendRequest \/ RunSendUnpicklable)
  \/ s = "server" /\ RunSendReply

ReadSocket(s, c) ==
  \/ ReadFails(s, c)
  \/ s = "client" /\ ReadReply(c)
  \/ s = "server" /\ (AcceptConnection(c) \/ ReadHandshake(c) \/ ReadRequest(c))

EventLoop(s) == RunCallback(s) \/ \E c \in Conns : ReadSocket(s, c)
StopStep(s) == Shutdown(s) \/ Join(s)
Objects == \E r \in Requests, c \in Conns : Serve(r, c)

Next ==
  \/ \E t \in Threads : Caller(t)
  \/ \E s \in Sides : EventLoop(s) \/ Stop(s) \/ StopStep(s)
  \/ Objects
  \/ Crash

Spec == Init /\ [][Next]_vars

(* Threads go on with what they began, event loops take a turn whenever    *)
(* there is a callback or a socket to read, and objects answer the         *)
(* requests they were given.  One condition for all is enough: what each   *)
(* of them can do is bounded by the requests and connections made.         *)
Fairness ==
  WF_vars(\/ \E t \in Threads : Continue(t)
          \/ \E s \in Sides : EventLoop(s) \/ StopStep(s)
          \/ Objects)

FairSpec == Spec /\ Fairness

-----------------------------------------------------------------------------
(* Properties                                                              *)

TypeOK ==
  /\ manager \in [Sides -> BOOLEAN]
  /\ stopping \in [Sides -> {"no", "closing", "joining", "done"}]
  /\ loop \in [Sides -> {"running", "ending", "finished"}]
  /\ queue \in [Sides -> Seq([do : {"closeAll", "stop", "add", "disconnect", "send"},
                              conn : Conns \cup {NoConn}, msg : Messages])]
  /\ listening \in BOOLEAN
  /\ socket \in [Conns -> [Sides -> {"none", "open", "closed"}]]
  /\ managed \in [Conns -> [Sides -> BOOLEAN]]
  /\ known \in [Conns -> BOOLEAN]
  /\ wire \in [Conns -> [Sides -> Seq(Messages)]]
  /\ pending \in [Conns -> SUBSET Requests]
  /\ serving \subseteq Requests \X Conns
  /\ thread \in [Threads -> [at : {"idle", "routed", "greeting", "adding", "leaving"},
                             conn : Conns \cup {NoConn}, of : Requests \cup {NoRequest}]]
  /\ sent \in [Requests -> {"no", "posted", "late", "dropped"}]
  /\ answers \in [Requests -> Nat]

Queued(r) == \E i \in DOMAIN queue["client"] : /\ queue["client"][i].do = "send"
                                               /\ queue["client"][i].msg.of = r

(* A request that was posted before the client's router was stopped is not *)
(* lost: it waits in the queue of the event loop, or in the table of a     *)
(* connection that is still managed (which answers it when it closes), or  *)
(* it has been answered; also while connections are made by two threads    *)
(* at a time, lost, and closed by either side (_pending_requests).         *)
NoRequestForgotten ==
  \A r \in Requests :
    sent[r] = "posted" /\ answers[r] = 0 =>
      Queued(r) \/ \E c \in Connections : r \in pending[c]

(* No request is answered twice: a reply, the error of a failed send and   *)
(* the errors sent by close() exclude one another.                         *)
AnsweredAtMostOnce == \A r \in Requests : answers[r] <= 1

(* Every request posted to a running router is answered in the end, by the *)
(* server or with an error: also when the server stops or dies with the    *)
(* request or its reply in its hands, and when the client's router stops.  *)
(* A request that pickle refuses is the exception, and one whose result it *)
(* refuses has to wait for the end of the connection.                      *)
EveryRequestAnswered ==
  \A r \in Requests \ Unpicklable :
    (sent[r] = "posted") ~> (answers[r] > 0)
=============================================================================
