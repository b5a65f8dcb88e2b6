------------------------ MODULE MessageRouter_proofs ------------------------
(***************************************************************************)
(* Proofs about MessageRouter: for any number of threads, requests and     *)
(* connections no request is forgotten, and none is answered twice.        *)
(***************************************************************************)
EXTENDS MessageRouter, FiniteSetTheorems, SequenceTheorems, TLAPS

-----------------------------------------------------------------------------
(* The inductive invariant                                                 *)

(* The places of m in the sequence q.                                      *)
Places(q, m) == {i \in DOMAIN q : q[i] = m}
AtMostOne(S) == \A i, j \in S : i = j

(* The callbacks that are posted to the two event loops.                   *)
Post(r) == Callback("send", NoConn, Request(r))
Add(c) == Callback("add", c, Hello)
Answer(r, c) == Callback("send", c, Reply(r))
ClientCallbacks ==
  {CloseAll, StopLoop, Callback("disconnect", NoConn, Hello)}
    \cup {Add(c) : c \in Conns} \cup {Post(r) : r \in Requests}
ServerCallbacks == {CloseAll, StopLoop} \cup {Answer(r, c) : r \in Requests, c \in Conns}

(* A thread has a connection of its own while it makes one, and a request  *)
(* of its own between looking for the peer and posting the request.        *)
ThreadInv ==
  /\ \A t \in Threads :
       IF thread[t].at \in {"greeting", "adding"}
         THEN /\ thread[t].conn \in Conns
              /\ socket[thread[t].conn]["client"] = "open"
              /\ ~managed[thread[t].conn]["client"]
         ELSE thread[t].conn = NoConn
  /\ \A t \in Threads :
       IF thread[t].at = "routed" THEN thread[t].of \in Requests /\ sent[thread[t].of] = "no"
                                  ELSE thread[t].of = NoRequest
  /\ \A t, u \in Threads : t # u /\ thread[t].conn = thread[u].conn => thread[t].conn = NoConn
  /\ \A t, u \in Threads : t # u /\ thread[t].of = thread[u].of => thread[t].of = NoRequest

(* Requests wait for replies only on a connection that is managed.         *)
ConnInv == \A c \in Conns :
  /\ managed[c]["client"] => socket[c]["client"] = "open"
  /\ pending[c] # {} => managed[c]["client"]

(* A connection or a request is posted once, a connection by a thread that *)
(* waits for it.                                                           *)
QueueInv ==
  /\ queue["client"] \in Seq(ClientCallbacks) /\ queue["server"] \in Seq(ServerCallbacks)
  /\ \A c \in Conns :
       /\ AtMostOne(Places(queue["client"], Add(c)))
       /\ Places(queue["client"], Add(c)) # {} =>
            \E t \in Threads : thread[t].at = "adding" /\ thread[t].conn = c
  /\ \A r \in Requests : AtMostOne(Places(queue["client"], Post(r)))

(* What stop() posts comes after every request posted before it began.     *)
StopInv ==
  /\ \A s \in Sides : manager[s] <=> stopping[s] = "no"
  /\ manager["client"] => loop["client"] = "running"
  /\ manager["client"] => Places(queue["client"], StopLoop) = {}
  /\ \A r \in Requests : sent[r] = "posted" =>
       \A i \in Places(queue["client"], StopLoop), j \in Places(queue["client"], Post(r)) : j < i

(* Where a request or its reply is while it is under way on connection c.  *)
Asked(r, c) == Places(wire[c]["server"], Request(r))
Replying(r, c) == Places(queue["server"], Answer(r, c))
Replied(r, c) == Places(wire[c]["client"], Reply(r))
UnderWay(r, c) == \/ Asked(r, c) # {} \/ <<r, c>> \in serving
                  \/ Replying(r, c) # {} \/ Replied(r, c) # {}

(* It is in one place at a time ...                                        *)
InOnePlace(r, c) ==
  /\ AtMostOne(Asked(r, c)) /\ AtMostOne(Replying(r, c)) /\ AtMostOne(Replied(r, c))
  /\ Asked(r, c) # {} => <<r, c>> \notin serving /\ Replying(r, c) = {} /\ Replied(r, c) = {}
  /\ <<r, c>> \in serving => Replying(r, c) = {} /\ Replied(r, c) = {}
  /\ Replying(r, c) # {} => Replied(r, c) = {}
PlaceInv == \A r \in Requests, c \in Conns : InOnePlace(r, c)

(* The server sends its handshake and replies, never a request.            *)
ToClient == {Hello} \cup {Reply(r) : r \in Requests}
WireInv == \A c \in Conns : wire[c]["client"] \in Seq(ToClient)

(* ... and is waited for until the client has closed the connection.       *)
WayInv == \A r \in Requests, c \in Conns :
  UnderWay(r, c) => r \in pending[c] \/ socket[c]["client"] = "closed"

(* A request is new, or queued, or waited for, or none of these.           *)
Untouched(r) ==
  /\ answers[r] = 0
  /\ \A c \in Conns : r \notin pending[c] /\ ~UnderWay(r, c)
InQueue(r) == Places(queue["client"], Post(r)) # {}
RequestInv == \A r \in Requests :
  /\ sent[r] = "no" => Untouched(r) /\ ~InQueue(r)
  /\ InQueue(r) => Untouched(r)
  /\ \A c \in Conns : r \in pending[c] =>
       answers[r] = 0 /\ \A d \in Conns : r \in pending[d] => d = c
  /\ answers[r] <= 1

(* NoRequestForgotten, request by request.                                 *)
KeptInv == \A r \in Requests :
  sent[r] = "posted" /\ answers[r] = 0 => InQueue(r) \/ \E c \in Conns : r \in pending[c]

RouterInv ==
  /\ TypeOK
  /\ ThreadInv /\ ConnInv /\ QueueInv /\ StopInv
  /\ PlaceInv /\ WireInv /\ WayInv /\ RequestInv /\ KeptInv

-----------------------------------------------------------------------------
(* Sequences and places                                                    *)

(* What q loses when it becomes p.                                         *)
Fewer(p, q, m) ==
  /\ Places(p, m) # {} => Places(q, m) # {}
  /\ AtMostOne(Places(q, m)) => AtMostOne(Places(p, m))

LEMMA PlacesOfRest ==
  ASSUME NEW S, NEW q \in Seq(S), NEW n \in 1 .. Len(q)
  PROVE  /\ SubSeq(q, 2, n) \in Seq(S)
         /\ \A m : /\ \A i \in Places(SubSeq(q, 2, n), m) : i + 1 \in Places(q, m)
                   /\ Fewer(SubSeq(q, 2, n), q, m)
                   /\ Head(q) = m /\ AtMostOne(Places(q, m)) => Places(SubSeq(q, 2, n), m) = {}
<1> DEFINE p == SubSeq(q, 2, n)
<1>1. Len(q) \in Nat /\ DOMAIN q = 1 .. Len(q) /\ \A i \in 1 .. Len(q) : q[i] \in S
  BY LenProperties, ElementOfSeq
<1>2. n \in Nat /\ 1 <= n /\ n <= Len(q)  BY <1>1
<1>3. p \in Seq(S) /\ Len(p) = n - 1 /\ \A i \in 1 .. n - 1 : p[i] = q[i + 1]
  <2>1. \A i \in 2 .. n : q[i] \in S  BY <1>1, <1>2
  <2>2. /\ p \in Seq(S) /\ Len(p) = IF 2 <= n THEN n - 2 + 1 ELSE 0
        /\ \A i \in 1 .. n - 2 + 1 : p[i] = q[2 + i - 1]
    BY <1>2, <2>1, SubSeqProperties
  <2> HIDE DEF p
  <2>3. \A i \in 1 .. n - 1 : p[i] = q[i + 1]  BY <1>2, <2>2
  <2>4. Len(p) = n - 1  BY <1>2, <2>2
  <2> QED BY <2>2, <2>3, <2>4
<1> HIDE DEF p
<1>4. DOMAIN p = 1 .. n - 1  BY <1>3, LenProperties
<1>5. ASSUME NEW m, NEW i \in Places(p, m) PROVE i \in 1 .. n - 1 /\ i + 1 \in Places(q, m)
  BY <1>1, <1>2, <1>3, <1>4 DEF Places
<1>6. ASSUME NEW m PROVE Fewer(p, q, m)
  BY <1>5 DEF Fewer, AtMostOne
<1>7. ASSUME NEW m, Head(q) = m, AtMostOne(Places(q, m)) PROVE Places(p, m) = {}
  <2>1. 1 \in Places(q, m)  BY <1>1, <1>2, <1>7 DEF Places
  <2> QED BY <1>5, <1>7, <2>1 DEF AtMostOne
<1> QED BY <1>3, <1>5, <1>6, <1>7 DEF p

LEMMA PlacesOfTail ==
  ASSUME NEW S, NEW q \in Seq(S), q # <<>>
  PROVE  /\ Len(q) \in 1 .. Len(q) /\ Tail(q) = SubSeq(q, 2, Len(q))
         /\ \A m : Places(q, m) # {} /\ Head(q) # m => Places(Tail(q), m) # {}
<1>1. Len(q) \in Nat \ {0} /\ DOMAIN q = 1 .. Len(q)  BY LenProperties, EmptySeq
<1>2. Tail(q) = SubSeq(q, 2, Len(q))  BY TailIsSubSeq
<1>3. /\ Tail(q) \in Seq(S) /\ Len(Tail(q)) = Len(q) - 1
      /\ \A i \in 1 .. Len(Tail(q)) : Tail(q)[i] = q[i + 1]
  BY HeadTailProperties
<1>4. DOMAIN Tail(q) = 1 .. Len(q) - 1  BY <1>3, LenProperties
<1>5. ASSUME NEW m, Places(q, m) # {}, Head(q) # m PROVE Places(Tail(q), m) # {}
  <2>1. PICK i \in 1 .. Len(q) : q[i] = m  BY <1>1, <1>5 DEF Places
  <2>2. i # 1  BY <1>1, <1>5, <2>1
  <2>3. i - 1 \in 1 .. Len(q) - 1 /\ (i - 1) + 1 = i  BY <1>1, <2>2
  <2>4. Tail(q)[i - 1] = m  BY <1>3, <2>1, <2>3
  <2> QED BY <1>4, <2>3, <2>4 DEF Places
<1> QED BY <1>1, <1>2, <1>5

(* The first element leaves the sequence.                                  *)
LEMMA HeadLeaves ==
  ASSUME NEW S, NEW q \in Seq(S), q # <<>>
  PROVE  /\ Head(q) \in S /\ 1 \in Places(q, Head(q))
         /\ Tail(q) \in Seq(S)
         /\ \A m : Fewer(Tail(q), q, m)
         /\ \A m : Head(q) = m /\ AtMostOne(Places(q, m)) => Places(Tail(q), m) = {}
         /\ \A m : Places(q, m) # {} /\ Head(q) # m => Places(Tail(q), m) # {}
         /\ \A m : \A i \in Places(Tail(q), m) : i + 1 \in Places(q, m)
<1>1. PICK n \in 1 .. Len(q) : n = Len(q) /\ Tail(q) = SubSeq(q, 2, n)
  BY PlacesOfTail
<1>2. Head(q) \in S /\ 1 \in Places(q, Head(q))
  <2>1. Len(q) \in Nat \ {0} /\ DOMAIN q = 1 .. Len(q)  BY LenProperties, EmptySeq
  <2>2. 1 \in DOMAIN q /\ Head(q) = q[1]  BY <2>1
  <2>3. q[1] \in S  BY <2>1, ElementOfSeq
  <2> QED BY <2>2, <2>3 DEF Places
<1>3. /\ SubSeq(q, 2, n) \in Seq(S)
      /\ \A m : /\ \A i \in Places(SubSeq(q, 2, n), m) : i + 1 \in Places(q, m)
                /\ Fewer(SubSeq(q, 2, n), q, m)
                /\ Head(q) = m /\ AtMostOne(Places(q, m)) => Places(SubSeq(q, 2, n), m) = {}
  BY PlacesOfRest
<1>4. \A m : Places(q, m) # {} /\ Head(q) # m => Places(Tail(q), m) # {}
  BY PlacesOfTail
<1>5. /\ Tail(q) \in Seq(S)
      /\ \A m : /\ \A i \in Places(Tail(q), m) : i + 1 \in Places(q, m)
                /\ Fewer(Tail(q), q, m)
                /\ Head(q) = m /\ AtMostOne(Places(q, m)) => Places(Tail(q), m) = {}
  BY <1>1, <1>3
<1> QED BY <1>2, <1>4, <1>5

LEMMA PlacesOfAppend ==
  ASSUME NEW S, NEW q \in Seq(S), NEW x \in S
  PROVE  /\ Append(q, x) \in Seq(S)
         /\ Len(q) \in Nat
         /\ \A m : Places(q, m) \subseteq 1 .. Len(q)
         /\ \A m : m # x => Places(Append(q, x), m) = Places(q, m)
         /\ Places(Append(q, x), x) = Places(q, x) \cup {Len(q) + 1}
<1>1. Len(q) \in Nat /\ DOMAIN q = 1 .. Len(q)  BY LenProperties
<1>2. /\ Append(q, x) \in Seq(S) /\ Len(Append(q, x)) = Len(q) + 1
      /\ \A i \in 1 .. Len(q) : Append(q, x)[i] = q[i]
      /\ Append(q, x)[Len(q) + 1] = x
  BY AppendProperties
<1>3. DOMAIN Append(q, x) = 1 .. Len(q) + 1  BY <1>2, LenProperties
<1>4. 1 .. Len(q) + 1 = (1 .. Len(q)) \cup {Len(q) + 1}  BY <1>1
<1> QED BY <1>1, <1>2, <1>3, <1>4 DEF Places

LEMMA FewPlaces ==
  /\ \A m : Places(<<>>, m) = {}
  /\ \A m : m # Hello => Places(<<Hello>>, m) = {}
  /\ \A p, q, m : Places(p, m) = {} => Fewer(p, q, m)
  /\ \A q, m : Fewer(q, q, m)
<1>1. DOMAIN <<>> = {} /\ DOMAIN <<Hello>> = {1} /\ <<Hello>>[1] = Hello  OBVIOUS
<1> QED BY <1>1 DEF Places, Fewer, AtMostOne

(* Messages and callbacks are told apart.                                  *)
LEMMA Distinct ==
  /\ \A r : Request(r) # Hello /\ Reply(r) # Hello /\ Request(r).of = r /\ Reply(r).of = r
  /\ \A r, x : (Request(r) = Request(x) => r = x) /\ (Reply(r) = Reply(x) => r = x)
  /\ \A r, x : Request(r) # Reply(x)
  /\ \A r, x : Post(r) = Post(x) => r = x
  /\ \A c, d : Add(c) = Add(d) => c = d
  /\ \A r, x, c, d : Answer(r, c) = Answer(x, d) => r = x /\ c = d
  /\ \A r, c : Post(r) # Add(c) /\ Post(r) # StopLoop /\ Post(r) # CloseAll
  /\ \A c : Add(c) # StopLoop /\ Add(c) # CloseAll
  /\ \A r, c : Answer(r, c) # StopLoop /\ Answer(r, c) # CloseAll
  /\ CloseAll # StopLoop
BY DEF Request, Reply, Hello, Post, Add, Answer, StopLoop, CloseAll, Callback

-----------------------------------------------------------------------------
(* What steps have in common                                               *)

(* Request r is not set under way on c, although something may be lost.    *)
LEMMA NotSetUnderWay ==
  ASSUME NEW r \in Requests, NEW c \in Conns, InOnePlace(r, c),
         <<r, c>> \in serving' => <<r, c>> \in serving,
         Fewer(wire'[c]["server"], wire[c]["server"], Request(r)),
         Fewer(wire'[c]["client"], wire[c]["client"], Reply(r)),
         Fewer(queue'["server"], queue["server"], Answer(r, c))
  PROVE  InOnePlace(r, c)' /\ (UnderWay(r, c)' => UnderWay(r, c))
<1>1. /\ Asked(r, c)' # {} => Asked(r, c) # {}
      /\ AtMostOne(Asked(r, c)) => AtMostOne(Asked(r, c)')
  BY DEF Fewer, Asked
<1>2. /\ Replied(r, c)' # {} => Replied(r, c) # {}
      /\ AtMostOne(Replied(r, c)) => AtMostOne(Replied(r, c)')
  BY DEF Fewer, Replied
<1>3. /\ Replying(r, c)' # {} => Replying(r, c) # {}
      /\ AtMostOne(Replying(r, c)) => AtMostOne(Replying(r, c)')
  BY DEF Fewer, Replying
<1> QED BY <1>1, <1>2, <1>3 DEF InOnePlace, UnderWay

LEMMA NothingSetUnderWay ==
  ASSUME RouterInv, serving' \subseteq serving,
         \A r \in Requests, c \in Conns :
           /\ Fewer(wire'[c]["server"], wire[c]["server"], Request(r))
           /\ Fewer(wire'[c]["client"], wire[c]["client"], Reply(r))
           /\ Fewer(queue'["server"], queue["server"], Answer(r, c))
  PROVE  /\ PlaceInv'
         /\ \A r \in Requests, c \in Conns : UnderWay(r, c)' => UnderWay(r, c)
<1> SUFFICES ASSUME NEW r \in Requests, NEW c \in Conns
             PROVE  InOnePlace(r, c)' /\ (UnderWay(r, c)' => UnderWay(r, c))
  BY DEF PlaceInv
<1> QED BY NotSetUnderWay DEF RouterInv, PlaceInv

LEMMA NothingMoves ==
  ASSUME RouterInv, UNCHANGED <<wire, serving>>, queue'["server"] = queue["server"]
  PROVE  /\ PlaceInv' /\ WireInv'
         /\ \A r \in Requests, c \in Conns : UnderWay(r, c)' => UnderWay(r, c)
<1>1. WireInv'  BY DEF RouterInv, WireInv
<1> QED BY <1>1, NothingSetUnderWay, FewPlaces

(* Nothing new is waited for, and no answer is given.                      *)
LEMMA WaitingGoesOn ==
  ASSUME RouterInv, UNCHANGED <<pending, answers>>,
         \A r \in Requests, c \in Conns : UnderWay(r, c)' => UnderWay(r, c),
         \A c \in Conns : socket[c]["client"] = "closed" => socket'[c]["client"] = "closed",
         \A r \in Requests : sent'[r] = "no" => sent[r] = "no",
         \A r \in Requests : InQueue(r)' => InQueue(r)
  PROVE  WayInv' /\ RequestInv'
<1> USE DEF RouterInv
<1>1. WayInv'  BY DEF WayInv
<1>2. RequestInv'
  <2> SUFFICES ASSUME NEW r \in Requests
               PROVE  /\ sent'[r] = "no" => Untouched(r)' /\ ~InQueue(r)'
                      /\ InQueue(r)' => Untouched(r)'
                      /\ \A c \in Conns : r \in pending'[c] =>
                           answers'[r] = 0 /\ \A d \in Conns : r \in pending'[d] => d = c
                      /\ answers'[r] <= 1
    BY DEF RequestInv
  <2>1. Untouched(r) => Untouched(r)'  BY DEF Untouched
  <2> QED BY <2>1 DEF RequestInv
<1> QED BY <1>1, <1>2

(* A request that waits for its turn, or for its reply, goes on waiting.   *)
LEMMA NothingForgotten ==
  ASSUME RouterInv, answers' = answers,
         \A r \in Requests : sent'[r] = "posted" => sent[r] = "posted",
         \A r \in Requests : sent[r] = "posted" /\ InQueue(r) => InQueue(r)',
         \A c \in Conns : pending[c] \subseteq pending'[c]
  PROVE  KeptInv'
BY DEF RouterInv, KeptInv

LEMMA ClientCallbacksTyped ==
  /\ ClientCallbacks \subseteq [do : {"closeAll", "stop", "add", "disconnect", "send"},
                                conn : Conns \cup {NoConn}, msg : Messages]
  /\ ServerCallbacks \subseteq [do : {"closeAll", "stop", "add", "disconnect", "send"},
                                conn : Conns \cup {NoConn}, msg : Messages]
BY DEF ClientCallbacks, ServerCallbacks, CloseAll, StopLoop, Callback, Add, Post, Answer, Messages

(* The queues have their types when their elements are callbacks.          *)
LEMMA QueuesTyped ==
  ASSUME NEW q, q = [s \in Sides |-> q[s]],
         q["client"] \in Seq(ClientCallbacks), q["server"] \in Seq(ServerCallbacks)
  PROVE  q \in [Sides -> Seq([do : {"closeAll", "stop", "add", "disconnect", "send"},
                              conn : Conns \cup {NoConn}, msg : Messages])]
<1> DEFINE C == [do : {"closeAll", "stop", "add", "disconnect", "send"},
                 conn : Conns \cup {NoConn}, msg : Messages]
<1>1. ClientCallbacks \subseteq C /\ ServerCallbacks \subseteq C  BY ClientCallbacksTyped
<1> HIDE DEF C
<1>2. q["client"] \in Seq(C)  BY <1>1, SeqMonotonic
<1>3. q["server"] \in Seq(C)  BY <1>1, SeqMonotonic
<1> QED BY <1>2, <1>3 DEF Sides, C

(* The sockets of side s close, and messages may be lost.                  *)
LEMMA SocketsClosedEffect ==
  ASSUME TypeOK, NEW s \in Sides, NEW C \in SUBSET Conns, SocketsClosed(s, C)
  PROVE  /\ socket' \in [Conns -> [Sides -> {"none", "open", "closed"}]]
         /\ managed' \in [Conns -> [Sides -> BOOLEAN]]
         /\ wire' \in [Conns -> [Sides -> Seq(Messages)]]
         /\ \A c \in Conns :
              IF s = "client" /\ c \in C
              THEN socket'[c]["client"] = "closed" /\ managed'[c]["client"] = FALSE
              ELSE /\ socket'[c]["client"] = socket[c]["client"]
                   /\ managed'[c]["client"] = managed[c]["client"]
         /\ \A c \in Conns, x \in Sides : wire'[c][x] \in {wire[c][x], <<>>}
<1> USE DEF SocketsClosed
<1>1. socket' \in [Conns -> [Sides -> {"none", "open", "closed"}]]  BY DEF TypeOK
<1>2. managed' \in [Conns -> [Sides -> BOOLEAN]]  BY DEF TypeOK
<1>3. PICK reset \in SUBSET {c \in C : wire[c][s] # <<>>} :
        wire' = [c \in Conns |-> CASE c \in reset -> [x \in Sides |-> <<>>]
                                   [] c \in C \ reset -> [wire[c] EXCEPT ![s] = <<>>]
                                   [] OTHER -> wire[c]]
  OBVIOUS
<1>4. ASSUME NEW c \in Conns
      PROVE  /\ wire'[c] \in [Sides -> Seq(Messages)]
             /\ \A x \in Sides : wire'[c][x] \in {wire[c][x], <<>>}
  <2>1. wire[c] \in [Sides -> Seq(Messages)] /\ <<>> \in Seq(Messages)  BY DEF TypeOK
  <2>2. CASE c \in reset  BY <1>3, <2>1, <2>2
  <2>3. CASE c \in C \ reset
    <3>1. wire'[c] = [wire[c] EXCEPT ![s] = <<>>]  BY <1>3, <2>3
    <3> QED BY <2>1, <3>1
  <2>4. CASE c \notin reset /\ c \notin C \ reset
    <3>1. wire'[c] = wire[c]  BY <1>3, <2>4
    <3> QED BY <2>1, <3>1
  <2> QED BY <2>2, <2>3, <2>4
<1>5. wire' \in [Conns -> [Sides -> Seq(Messages)]]  BY <1>3, <1>4
<1>6. ASSUME NEW c \in Conns
      PROVE  IF s = "client" /\ c \in C
             THEN socket'[c]["client"] = "closed" /\ managed'[c]["client"] = FALSE
             ELSE /\ socket'[c]["client"] = socket[c]["client"]
                  /\ managed'[c]["client"] = managed[c]["client"]
  <2>1. "client" \in Sides /\ socket[c] \in [Sides -> {"none", "open", "closed"}]
        /\ managed[c] \in [Sides -> BOOLEAN]
    BY DEF TypeOK, Sides
  <2>2. /\ socket'[c] = IF c \in C THEN [socket[c] EXCEPT ![s] = "closed"] ELSE socket[c]
        /\ managed'[c] = IF c \in C THEN [managed[c] EXCEPT ![s] = FALSE] ELSE managed[c]
    OBVIOUS
  <2>3. CASE c \in C
    BY <2>1, <2>2, <2>3
  <2>4. CASE c \notin C
    BY <2>2, <2>4
  <2> QED BY <2>3, <2>4
<1> QED BY <1>1, <1>2, <1>4, <1>5, <1>6

LEMMA ServerSocketsClosed ==
  ASSUME TypeOK, NEW C \in SUBSET Conns, SocketsClosed("server", C)
  PROVE  /\ socket' \in [Conns -> [Sides -> {"none", "open", "closed"}]]
         /\ managed' \in [Conns -> [Sides -> BOOLEAN]]
         /\ wire' \in [Conns -> [Sides -> Seq(Messages)]]
         /\ \A c \in Conns : /\ socket'[c]["client"] = socket[c]["client"]
                             /\ managed'[c]["client"] = managed[c]["client"]
         /\ \A c \in Conns, x \in Sides : wire'[c][x] \in {wire[c][x], <<>>}
<1>1. PICK s \in Sides : s = "server"  BY DEF Sides
<1>2. SocketsClosed(s, C)  BY <1>1
<1>3. s # "client"  BY <1>1
<1>4. /\ socket' \in [Conns -> [Sides -> {"none", "open", "closed"}]]
      /\ managed' \in [Conns -> [Sides -> BOOLEAN]]
      /\ wire' \in [Conns -> [Sides -> Seq(Messages)]]
      /\ \A c \in Conns :
           IF s = "client" /\ c \in C
           THEN socket'[c]["client"] = "closed" /\ managed'[c]["client"] = FALSE
           ELSE /\ socket'[c]["client"] = socket[c]["client"]
                /\ managed'[c]["client"] = managed[c]["client"]
      /\ \A c \in Conns, x \in Sides : wire'[c][x] \in {wire[c][x], <<>>}
  BY <1>2, SocketsClosedEffect
<1> QED BY <1>3, <1>4

LEMMA ClientSocketsClosed ==
  ASSUME TypeOK, NEW C \in SUBSET Conns, SocketsClosed("client", C)
  PROVE  /\ socket' \in [Conns -> [Sides -> {"none", "open", "closed"}]]
         /\ managed' \in [Conns -> [Sides -> BOOLEAN]]
         /\ wire' \in [Conns -> [Sides -> Seq(Messages)]]
         /\ \A c \in Conns : IF c \in C THEN socket'[c]["client"] = "closed" /\ managed'[c]["client"] = FALSE
                             ELSE /\ socket'[c]["client"] = socket[c]["client"]
                                  /\ managed'[c]["client"] = managed[c]["client"]
         /\ \A c \in Conns, x \in Sides : wire'[c][x] \in {wire[c][x], <<>>}
<1>1. PICK s \in Sides : s = "client"  BY DEF Sides
<1>2. SocketsClosed(s, C)  BY <1>1
<1>3. /\ socket' \in [Conns -> [Sides -> {"none", "open", "closed"}]]
      /\ managed' \in [Conns -> [Sides -> BOOLEAN]]
      /\ wire' \in [Conns -> [Sides -> Seq(Messages)]]
      /\ \A c \in Conns :
           IF s = "client" /\ c \in C
           THEN socket'[c]["client"] = "closed" /\ managed'[c]["client"] = FALSE
           ELSE /\ socket'[c]["client"] = socket[c]["client"]
                /\ managed'[c]["client"] = managed[c]["client"]
      /\ \A c \in Conns, x \in Sides : wire'[c][x] \in {wire[c][x], <<>>}
  BY <1>2, SocketsClosedEffect
<1> QED BY <1>1, <1>3

LEMMA MessagesLost ==
  ASSUME RouterInv, serving' \subseteq serving, queue'["server"] = queue["server"],
         \A c \in Conns, x \in Sides : wire'[c][x] \in {wire[c][x], <<>>}
  PROVE  /\ PlaceInv' /\ WireInv'
         /\ \A r \in Requests, c \in Conns : UnderWay(r, c)' => UnderWay(r, c)
<1>1. \A c \in Conns, x \in Sides : \A m : Fewer(wire'[c][x], wire[c][x], m)
  BY FewPlaces
<1>2. WireInv'
  <2>1. <<>> \in Seq(ToClient)  BY EmptySeq
  <2> QED BY <2>1 DEF RouterInv, WireInv, Sides
<1> QED BY <1>1, <1>2, FewPlaces, NothingSetUnderWay DEF Sides

(* Threads that go on keep their connections and requests, and others      *)
(* become idle.                                                            *)
LEMMA IdleIs ==
  /\ Idle.at = "idle" /\ Idle.conn = NoConn /\ Idle.of = NoRequest
  /\ Idle \in [at : {"idle", "routed", "greeting", "adding", "leaving"},
               conn : Conns \cup {NoConn}, of : Requests \cup {NoRequest}]
BY DEF Idle

LEMMA ThreadsGoOn ==
  ASSUME RouterInv,
         \A t \in Threads : thread'[t] \in {thread[t], Idle},
         \A t \in Threads :
           thread'[t].at \in {"greeting", "adding"} =>
             /\ socket'[thread[t].conn]["client"] = socket[thread[t].conn]["client"]
             /\ managed'[thread[t].conn]["client"] = managed[thread[t].conn]["client"],
         \A t \in Threads : thread'[t].at = "routed" => sent'[thread[t].of] = sent[thread[t].of]
  PROVE  ThreadInv'
<1>0. ThreadInv  BY DEF RouterInv
<1>1. \A t \in Threads : thread'[t] = thread[t] \/ thread'[t] = Idle  OBVIOUS
<1>2. ASSUME NEW t \in Threads
      PROVE  IF thread'[t].at \in {"greeting", "adding"}
               THEN /\ thread'[t].conn \in Conns
                    /\ socket'[thread'[t].conn]["client"] = "open"
                    /\ ~managed'[thread'[t].conn]["client"]
               ELSE thread'[t].conn = NoConn
  BY <1>0, <1>1, <1>2, IdleIs DEF ThreadInv
<1>3. ASSUME NEW t \in Threads
      PROVE  IF thread'[t].at = "routed"
               THEN thread'[t].of \in Requests /\ sent'[thread'[t].of] = "no"
               ELSE thread'[t].of = NoRequest
  BY <1>0, <1>1, <1>3, IdleIs DEF ThreadInv
<1>4. ASSUME NEW t \in Threads, NEW u \in Threads, t # u
      PROVE  /\ thread'[t].conn = thread'[u].conn => thread'[t].conn = NoConn
             /\ thread'[t].of = thread'[u].of => thread'[t].of = NoRequest
  BY <1>0, <1>1, <1>4, IdleIs DEF ThreadInv
<1> QED BY <1>2, <1>3, <1>4 DEF ThreadInv

(* One thread takes up a connection or a request that no other has.        *)
LEMMA ThreadTakesUp ==
  ASSUME RouterInv, NEW t \in Threads, NEW v,
         \A u \in Threads : thread'[u] = IF u = t THEN v ELSE thread[u],
         IF v.at \in {"greeting", "adding"}
           THEN /\ v.conn \in Conns
                /\ socket'[v.conn]["client"] = "open" /\ ~managed'[v.conn]["client"]
                /\ \A u \in Threads \ {t} : thread[u].conn # v.conn
           ELSE v.conn = NoConn,
         IF v.at = "routed"
           THEN v.of \in Requests /\ sent[v.of] = "no" /\ \A u \in Threads \ {t} : thread[u].of # v.of
           ELSE v.of = NoRequest,
         sent' = sent,
         \A c \in Conns : socket[c]["client"] = "open" =>
           socket'[c]["client"] = "open" /\ managed'[c]["client"] = managed[c]["client"]
  PROVE  ThreadInv'
<1>0. ThreadInv  BY DEF RouterInv
<1>2. ASSUME NEW u \in Threads
      PROVE  IF thread'[u].at \in {"greeting", "adding"}
               THEN /\ thread'[u].conn \in Conns
                    /\ socket'[thread'[u].conn]["client"] = "open"
                    /\ ~managed'[thread'[u].conn]["client"]
               ELSE thread'[u].conn = NoConn
  <2>1. CASE u = t  BY <2>1
  <2>2. CASE u # t
    <3>1. thread'[u] = thread[u]  BY <2>2
    <3> QED BY <1>0, <3>1 DEF ThreadInv
  <2> QED BY <2>1, <2>2
<1>3. ASSUME NEW u \in Threads
      PROVE  IF thread'[u].at = "routed"
               THEN thread'[u].of \in Requests /\ sent'[thread'[u].of] = "no"
               ELSE thread'[u].of = NoRequest
  BY <1>0 DEF ThreadInv
<1>4. ASSUME NEW x \in Threads, NEW u \in Threads, x # u
      PROVE  /\ thread'[x].conn = thread'[u].conn => thread'[x].conn = NoConn
             /\ thread'[x].of = thread'[u].of => thread'[x].of = NoRequest
  <2>1. CASE x = t \/ u = t  BY <1>4, <2>1
  <2>2. CASE x # t /\ u # t  BY <1>0, <1>4, <2>2 DEF ThreadInv
  <2> QED BY <2>1, <2>2
<1> QED BY <1>2, <1>3, <1>4 DEF ThreadInv

(* The threads whose connection is posted go on waiting for it.            *)
LEMMA QueueStays ==
  ASSUME RouterInv, queue' = queue,
         \A t \in Threads : thread[t].at = "adding" => thread'[t] = thread[t]
  PROVE  QueueInv'
BY DEF RouterInv, QueueInv

-----------------------------------------------------------------------------
(* Threads of the client                                                   *)

LEMMA RouteMessageStep ==
  ASSUME RouterInv, NEW t \in Threads, NEW r \in Requests, RouteMessage(t, r)
  PROVE  RouterInv'
<1> DEFINE v == [at |-> "routed", conn |-> NoConn, of |-> r]
<1>0. /\ v \in [at : {"idle", "routed", "greeting", "adding", "leaving"},
                conn : Conns \cup {NoConn}, of : Requests \cup {NoRequest}]
      /\ v.at = "routed" /\ v.conn = NoConn /\ v.of = r
  <2>2. v.at = "routed" /\ v.conn = NoConn /\ v.of = r  OBVIOUS
  <2>3. v \in [at : {"idle", "routed", "greeting", "adding", "leaving"},
                conn : Conns \cup {NoConn}, of : Requests \cup {NoRequest}]
    OBVIOUS
  <2> QED BY <2>2, <2>3
<1>1. /\ thread' = [thread EXCEPT ![t] = v]
      /\ thread[t].at = "idle" /\ sent[r] = "no" /\ \A u \in Threads : thread[u].of # r
      /\ UNCHANGED <<manager, stopping, loop, queue, listening, socket, managed, known, wire,
                     serving, sent, pending, answers>>
  BY <1>0 DEF RouteMessage, loopVars, connVars, callVars
<1> USE DEF RouterInv
<1> HIDE DEF v
<1>2. TypeOK'  BY <1>0, <1>1 DEF TypeOK
<1>3. \A u \in Threads : thread'[u] = IF u = t THEN v ELSE thread[u]
  BY <1>1 DEF TypeOK
<1>4. ThreadInv'
  <2>1. IF v.at \in {"greeting", "adding"}
          THEN /\ v.conn \in Conns
               /\ socket'[v.conn]["client"] = "open" /\ ~managed'[v.conn]["client"]
               /\ \A u \in Threads \ {t} : thread[u].conn # v.conn
          ELSE v.conn = NoConn
    BY <1>0
  <2>2. IF v.at = "routed"
          THEN v.of \in Requests /\ sent[v.of] = "no" /\ \A u \in Threads \ {t} : thread[u].of # v.of
          ELSE v.of = NoRequest
    BY <1>0, <1>1
  <2> QED BY <1>1, <1>3, <2>1, <2>2, ThreadTakesUp
<1>5. ConnInv'  BY <1>1 DEF ConnInv
<1>6. QueueInv'  BY <1>1, <1>3, QueueStays
<1>7. StopInv'  BY <1>1 DEF StopInv
<1>8. PlaceInv' /\ WireInv' /\ \A x \in Requests, c \in Conns : UnderWay(x, c)' => UnderWay(x, c)
  BY <1>1, NothingMoves
<1>9. WayInv' /\ RequestInv'  BY <1>1, <1>8, WaitingGoesOn DEF InQueue
<1>10. KeptInv'  BY <1>1 DEF KeptInv, InQueue
<1> QED BY <1>2, <1>4, <1>5, <1>6, <1>7, <1>8, <1>9, <1>10

LEMMA ConnectFailsStep ==
  ASSUME RouterInv, NEW t \in Threads, ConnectFails(t) PROVE RouterInv'
<1>1. /\ thread[t].at = "greeting" /\ thread' = [thread EXCEPT ![t] = Idle]
      /\ SocketsClosed("client", {thread[t].conn})
      /\ UNCHANGED <<manager, stopping, loop, queue, listening, known, pending, serving, sent, answers>>
  BY DEF ConnectFails, loopVars, callVars
<1> USE DEF RouterInv
<1>2. PICK c \in Conns : c = thread[t].conn  BY <1>1 DEF ThreadInv
<1>3. /\ SocketsClosed("client", {c}) /\ {c} \in SUBSET Conns /\ "client" \in Sides
      /\ ~managed[c]["client"]
  BY <1>1, <1>2 DEF Sides, ThreadInv
<1>4. /\ socket' \in [Conns -> [Sides -> {"none", "open", "closed"}]]
      /\ managed' \in [Conns -> [Sides -> BOOLEAN]]
      /\ wire' \in [Conns -> [Sides -> Seq(Messages)]]
      /\ \A d \in Conns : IF d \in {c} THEN socket'[d]["client"] = "closed" /\ managed'[d]["client"] = FALSE
                          ELSE /\ socket'[d]["client"] = socket[d]["client"]
                               /\ managed'[d]["client"] = managed[d]["client"]
      /\ \A d \in Conns, x \in Sides : wire'[d][x] \in {wire[d][x], <<>>}
  BY <1>3, ClientSocketsClosed
<1>5. \A u \in Threads : thread'[u] = IF u = t THEN Idle ELSE thread[u]
  BY <1>1 DEF TypeOK
<1>6. TypeOK'  BY <1>1, <1>4, IdleIs DEF TypeOK
<1>7. ThreadInv'
  <2>1. ASSUME NEW u \in Threads, thread'[u].at \in {"greeting", "adding"}
        PROVE  /\ socket'[thread[u].conn]["client"] = socket[thread[u].conn]["client"]
               /\ managed'[thread[u].conn]["client"] = managed[thread[u].conn]["client"]
    <3>1. u # t  BY <1>5, <2>1, IdleIs
    <3>2. thread[u].conn \in Conns /\ thread[u].conn # c
      BY <1>2, <1>5, <2>1, <3>1 DEF ThreadInv, Conns, NoConn
    <3> QED BY <1>4, <3>2
  <2> QED BY <1>1, <1>5, <2>1, ThreadsGoOn
<1>8. ConnInv'  BY <1>1, <1>3, <1>4 DEF ConnInv
<1>9. QueueInv'  BY <1>1, <1>5, QueueStays
<1>10. StopInv'  BY <1>1 DEF StopInv
<1>11. PlaceInv' /\ WireInv' /\ \A r \in Requests, d \in Conns : UnderWay(r, d)' => UnderWay(r, d)
  BY <1>1, <1>4, MessagesLost
<1>12. WayInv' /\ RequestInv'  BY <1>1, <1>4, <1>11, WaitingGoesOn DEF InQueue
<1>13. KeptInv'  BY <1>1 DEF KeptInv, InQueue
<1> QED BY <1>6, <1>7, <1>8, <1>9, <1>10, <1>11, <1>12, <1>13

LEMMA ConnectToPeerStep ==
  ASSUME RouterInv, NEW t \in Threads, ConnectToPeer(t) PROVE RouterInv'
<1> USE DEF RouterInv
<1>1. PICK c \in Conns :
        /\ socket[c]["client"] = "none"
        /\ socket' = [socket EXCEPT ![c]["client"] = "open"]
        /\ wire' = [wire EXCEPT ![c]["server"] = <<Hello>>]
        /\ thread' = [thread EXCEPT ![t] = [at |-> "greeting", conn |-> c, of |-> NoRequest]]
  BY DEF ConnectToPeer
<1>2. /\ thread[t].at = "idle"
      /\ UNCHANGED <<manager, stopping, loop, queue, listening, managed, known, pending, serving,
                     sent, answers>>
  BY DEF ConnectToPeer, loopVars, callVars
<1> DEFINE v == [at |-> "greeting", conn |-> c, of |-> NoRequest]
<1>3. /\ v \in [at : {"idle", "routed", "greeting", "adding", "leaving"},
                conn : Conns \cup {NoConn}, of : Requests \cup {NoRequest}]
      /\ v.at = "greeting" /\ v.conn = c /\ v.of = NoRequest
  <2>2. v.at = "greeting" /\ v.conn = c /\ v.of = NoRequest  OBVIOUS
  <2>3. v \in [at : {"idle", "routed", "greeting", "adding", "leaving"},
                conn : Conns \cup {NoConn}, of : Requests \cup {NoRequest}]
    OBVIOUS
  <2> QED BY <2>2, <2>3
<1> HIDE DEF v
<1>4. \A u \in Threads : thread'[u] = IF u = t THEN v ELSE thread[u]
  BY <1>1, <1>3 DEF TypeOK
<1>5. /\ <<Hello>> \in Seq(Messages)
      /\ \A d \in Conns, x \in Sides : wire'[d][x] = IF d = c /\ x = "server" THEN <<Hello>> ELSE wire[d][x]
  <2>1. Hello \in Messages  BY DEF Messages
  <2>2. wire \in [Conns -> [Sides -> Seq(Messages)]]  BY DEF TypeOK
  <2>3. \A d \in Conns, x \in Sides : wire'[d][x] = IF d = c /\ x = "server" THEN <<Hello>> ELSE wire[d][x]
    BY <1>1, <2>2
  <2> QED BY <2>1, <2>3
<1>6. /\ socket' \in [Conns -> [Sides -> {"none", "open", "closed"}]]
      /\ \A d \in Conns : socket'[d]["client"] = IF d = c THEN "open" ELSE socket[d]["client"]
  BY <1>1 DEF TypeOK, Sides
<1>7. ~managed[c]["client"]  BY <1>1 DEF ConnInv
<1>8. TypeOK'
  <2>1. thread' \in [Threads -> [at : {"idle", "routed", "greeting", "adding", "leaving"},
                                 conn : Conns \cup {NoConn}, of : Requests \cup {NoRequest}]]
    BY <1>1, <1>3 DEF TypeOK
  <2>2. wire' \in [Conns -> [Sides -> Seq(Messages)]]
    BY <1>1, <1>5 DEF TypeOK, Sides
  <2> QED BY <1>2, <1>6, <2>1, <2>2 DEF TypeOK
<1>9. ThreadInv'
  <2>1. \A u \in Threads \ {t} : thread[u].conn # c
    <3>1. c # NoConn  BY DEF Conns, NoConn
    <3>2. ASSUME NEW u \in Threads, thread[u].conn = c PROVE FALSE
      BY <1>1, <3>1, <3>2 DEF ThreadInv
    <3> QED BY <3>2
  <2>2. IF v.at \in {"greeting", "adding"}
          THEN /\ v.conn \in Conns
               /\ socket'[v.conn]["client"] = "open" /\ ~managed'[v.conn]["client"]
               /\ \A u \in Threads \ {t} : thread[u].conn # v.conn
          ELSE v.conn = NoConn
    BY <1>2, <1>3, <1>6, <1>7, <2>1
  <2>3. IF v.at = "routed"
          THEN v.of \in Requests /\ sent[v.of] = "no" /\ \A u \in Threads \ {t} : thread[u].of # v.of
          ELSE v.of = NoRequest
    BY <1>3
  <2>4. \A d \in Conns : socket[d]["client"] = "open" =>
          socket'[d]["client"] = "open" /\ managed'[d]["client"] = managed[d]["client"]
    BY <1>2, <1>6
  <2> QED BY <1>2, <1>4, <2>2, <2>3, <2>4, ThreadTakesUp
<1>10. ConnInv'  BY <1>2, <1>6 DEF ConnInv
<1>11. QueueInv'  BY <1>2, <1>4, QueueStays
<1>12. StopInv'  BY <1>2 DEF StopInv
<1>13. PlaceInv' /\ \A r \in Requests, d \in Conns : UnderWay(r, d)' => UnderWay(r, d)
  <2>1. \A d \in Conns, x \in Sides : \A m : m # Hello => Fewer(wire'[d][x], wire[d][x], m)
    BY <1>5, FewPlaces
  <2> QED BY <1>2, <2>1, Distinct, FewPlaces, NothingSetUnderWay DEF Sides
<1>14. WayInv' /\ RequestInv'  BY <1>1, <1>2, <1>6, <1>13, WaitingGoesOn DEF InQueue
<1>15. KeptInv'  BY <1>2 DEF KeptInv, InQueue
<1>16. WireInv'  BY <1>5 DEF WireInv, Sides
<1> QED BY <1>8, <1>9, <1>10, <1>11, <1>12, <1>13, <1>14, <1>15, <1>16

(* A callback is posted unless the loop has ended.                         *)
LEMMA PostedEffect ==
  ASSUME RouterInv, NEW s \in Sides, NEW cb, queue' = Posted(s, cb),
         cb \in IF s = "client" THEN ClientCallbacks ELSE ServerCallbacks
  PROVE  /\ queue' = [x \in Sides |-> queue'[x]]
         /\ \A x \in Sides : queue'[x] = IF x = s /\ loop[s] = "running" THEN Append(queue[x], cb)
                                                                         ELSE queue[x]
         /\ queue'["client"] \in Seq(ClientCallbacks) /\ queue'["server"] \in Seq(ServerCallbacks)
<1>1. queue = [x \in Sides |-> queue[x]]  BY DEF RouterInv, TypeOK
<1>2. \A x \in Sides : queue'[x] = IF x = s /\ loop[s] = "running" THEN Append(queue[x], cb)
                                                                   ELSE queue[x]
  BY <1>1 DEF Posted
<1>3. queue' = [x \in Sides |-> queue'[x]]  BY <1>1 DEF Posted
<1>4. queue["client"] \in Seq(ClientCallbacks) /\ queue["server"] \in Seq(ServerCallbacks)
  BY DEF RouterInv, QueueInv
<1>5. queue'["client"] \in Seq(ClientCallbacks)
  <2>1. CASE s = "client" /\ loop[s] = "running"
    <3>1. queue'["client"] = Append(queue["client"], cb)  BY <1>2, <2>1 DEF Sides
    <3>2. cb \in ClientCallbacks  BY <2>1
    <3> QED BY <1>4, <3>1, <3>2, PlacesOfAppend
  <2>2. CASE ~(s = "client" /\ loop[s] = "running")  BY <1>2, <1>4, <2>2 DEF Sides
  <2> QED BY <2>1, <2>2
<1>6. queue'["server"] \in Seq(ServerCallbacks)
  <2>1. CASE s = "server" /\ loop[s] = "running"
    <3>1. queue'["server"] = Append(queue["server"], cb)  BY <1>2, <2>1 DEF Sides
    <3>2. cb \in ServerCallbacks  BY <2>1
    <3> QED BY <1>4, <3>1, <3>2, PlacesOfAppend
  <2>2. CASE ~(s = "server" /\ loop[s] = "running")  BY <1>2, <1>4, <2>2 DEF Sides
  <2> QED BY <2>1, <2>2
<1> QED BY <1>2, <1>3, <1>5, <1>6

LEMMA ClientPosts ==
  ASSUME RouterInv, NEW cb \in ClientCallbacks, queue' = Posted("client", cb)
  PROVE  /\ queue' = [x \in Sides |-> queue'[x]]
         /\ queue'["client"] \in Seq(ClientCallbacks) /\ queue'["server"] \in Seq(ServerCallbacks)
         /\ queue'["server"] = queue["server"]
         /\ \A m : m # cb => Places(queue'["client"], m) = Places(queue["client"], m)
         /\ \A m : Places(queue["client"], m) \subseteq Places(queue'["client"], m)
         /\ \E n \in Nat : /\ \A m : Places(queue["client"], m) \subseteq 1 .. n
                           /\ Places(queue'["client"], cb) \subseteq Places(queue["client"], cb) \cup {n + 1}
                           /\ manager["client"] => n + 1 \in Places(queue'["client"], cb)
<1>1. "client" \in Sides /\ "server" \in Sides /\ "client" # "server"  BY DEF Sides
<1>2. /\ queue' = [x \in Sides |-> queue'[x]]
      /\ \A x \in Sides : queue'[x] = IF x = "client" /\ loop["client"] = "running"
                                        THEN Append(queue[x], cb) ELSE queue[x]
      /\ queue'["client"] \in Seq(ClientCallbacks) /\ queue'["server"] \in Seq(ServerCallbacks)
  BY <1>1, PostedEffect
<1>3. queue'["server"] = queue["server"]  BY <1>1, <1>2
<1>4. queue["client"] \in Seq(ClientCallbacks)  BY DEF RouterInv, QueueInv
<1>5. DEFINE q == queue["client"]
<1>6. /\ Len(q) \in Nat
      /\ \A m : Places(q, m) \subseteq 1 .. Len(q)
      /\ \A m : m # cb => Places(Append(q, cb), m) = Places(q, m)
      /\ Places(Append(q, cb), cb) = Places(q, cb) \cup {Len(q) + 1}
  BY <1>4, PlacesOfAppend
<1>7. CASE loop["client"] = "running"
  <2>1. queue'["client"] = Append(q, cb)  BY <1>1, <1>2, <1>7
  <2>2. /\ \A m : m # cb => Places(queue'["client"], m) = Places(q, m)
        /\ Places(queue'["client"], cb) = Places(q, cb) \cup {Len(q) + 1}
    BY <1>6, <2>1
  <2> HIDE DEF q
  <2>3. \A m : Places(q, m) \subseteq Places(queue'["client"], m)  BY <2>2
  <2> QED BY <1>2, <1>3, <1>6, <2>2, <2>3 DEF q
<1>8. CASE loop["client"] # "running"
  <2>1. queue'["client"] = q  BY <1>1, <1>2, <1>8
  <2>2. ~manager["client"]  BY <1>1, <1>8 DEF RouterInv, StopInv
  <2> QED BY <1>2, <1>3, <1>6, <2>1, <2>2
<1> QED BY <1>7, <1>8

LEMMA QueuePosted ==
  ASSUME RouterInv, NEW cb \in ClientCallbacks, queue' = Posted("client", cb),
         \A t \in Threads : thread[t].at = "adding" => thread'[t] = thread[t],
         \A c \in Conns : cb = Add(c) =>
           /\ Places(queue["client"], cb) = {}
           /\ \E t \in Threads : thread'[t].at = "adding" /\ thread'[t].conn = c,
         \A r \in Requests : cb = Post(r) => ~InQueue(r)
  PROVE  QueueInv'
<1>1. /\ queue'["client"] \in Seq(ClientCallbacks) /\ queue'["server"] \in Seq(ServerCallbacks)
      /\ \A m : m # cb => Places(queue'["client"], m) = Places(queue["client"], m)
      /\ \E n \in Nat : Places(queue'["client"], cb) \subseteq Places(queue["client"], cb) \cup {n + 1}
  BY ClientPosts
<1>2. QueueInv  BY DEF RouterInv
<1>3. ASSUME NEW c \in Conns
      PROVE  /\ AtMostOne(Places(queue'["client"], Add(c)))
             /\ Places(queue'["client"], Add(c)) # {} =>
                  \E t \in Threads : thread'[t].at = "adding" /\ thread'[t].conn = c
  <2>1. CASE cb = Add(c)  BY <1>1, <2>1 DEF AtMostOne
  <2>2. CASE cb # Add(c)
    <3>1. Places(queue'["client"], Add(c)) = Places(queue["client"], Add(c))  BY <1>1, <2>2
    <3> QED BY <1>2, <3>1 DEF QueueInv
  <2> QED BY <2>1, <2>2
<1>4. ASSUME NEW r \in Requests PROVE AtMostOne(Places(queue'["client"], Post(r)))
  <2>1. CASE cb = Post(r)  BY <1>1, <2>1 DEF AtMostOne, InQueue
  <2>2. CASE cb # Post(r)
    <3>1. Places(queue'["client"], Post(r)) = Places(queue["client"], Post(r))  BY <1>1, <2>2
    <3> QED BY <1>2, <3>1 DEF QueueInv
  <2> QED BY <2>1, <2>2
<1> QED BY <1>1, <1>3, <1>4 DEF QueueInv

(* Other callbacks than requests and StopLoop are posted in any order.     *)
LEMMA OrderStays ==
  ASSUME RouterInv, NEW cb \in ClientCallbacks, queue' = Posted("client", cb),
         UNCHANGED <<manager, stopping, loop, sent>>,
         cb # StopLoop, \A r \in Requests : cb # Post(r)
  PROVE  /\ StopInv'
         /\ \A r \in Requests : InQueue(r)' <=> InQueue(r)
<1>1. \A m : m # cb => Places(queue'["client"], m) = Places(queue["client"], m)
  BY ClientPosts
<1> QED BY <1>1 DEF RouterInv, StopInv, InQueue

LEMMA PostMessageStep ==
  ASSUME RouterInv, NEW t \in Threads, PostMessage(t) PROVE RouterInv'
<1> USE DEF RouterInv
<1>1. PICK r \in Requests : r = thread[t].of /\ sent[r] = "no"
  BY DEF PostMessage, ThreadInv
<1>2. /\ thread[t].at = "routed" /\ thread' = [thread EXCEPT ![t] = Idle]
      /\ queue' = Posted("client", Post(r))
      /\ sent' = [sent EXCEPT ![r] = IF manager["client"] THEN "posted" ELSE "late"]
      /\ UNCHANGED <<manager, stopping, loop, listening, socket, managed, known, wire, serving,
                     pending, answers>>
  BY <1>1 DEF PostMessage, connVars, Post
<1>3. Post(r) \in ClientCallbacks  BY DEF ClientCallbacks
<1>4. Untouched(r) /\ ~InQueue(r)  BY <1>1 DEF RequestInv
<1>5. /\ queue' = [x \in Sides |-> queue'[x]]
      /\ queue'["client"] \in Seq(ClientCallbacks) /\ queue'["server"] \in Seq(ServerCallbacks)
      /\ queue'["server"] = queue["server"]
      /\ \A m : m # Post(r) => Places(queue'["client"], m) = Places(queue["client"], m)
  BY <1>2, <1>3, ClientPosts
<1>6. manager["client"] => InQueue(r)'
  BY <1>2, <1>3, ClientPosts DEF InQueue
<1>7. \A x \in Requests \ {r} : InQueue(x)' <=> InQueue(x)
  BY <1>5, Distinct DEF InQueue
<1>8. /\ \A u \in Threads : thread'[u] = IF u = t THEN Idle ELSE thread[u]
      /\ \A x \in Requests : sent'[x] = IF x = r THEN (IF manager["client"] THEN "posted" ELSE "late")
                                                 ELSE sent[x]
  BY <1>2 DEF TypeOK
<1>9. TypeOK'
  <2>1. sent' \in [Requests -> {"no", "posted", "late", "dropped"}]  BY <1>2 DEF TypeOK
  <2>2. queue' \in [Sides -> Seq([do : {"closeAll", "stop", "add", "disconnect", "send"},
                                   conn : Conns \cup {NoConn}, msg : Messages])]
    BY <1>5, QueuesTyped
  <2>3. thread' \in [Threads -> [at : {"idle", "routed", "greeting", "adding", "leaving"},
                                 conn : Conns \cup {NoConn}, of : Requests \cup {NoRequest}]]
    BY <1>2, IdleIs DEF TypeOK
  <2> QED BY <1>2, <2>1, <2>2, <2>3 DEF TypeOK
<1>10. ThreadInv'
  <2>1. ASSUME NEW u \in Threads, thread'[u].at = "routed" PROVE sent'[thread[u].of] = sent[thread[u].of]
    <3>1. u # t /\ thread[u].of \in Requests  BY <1>8, <2>1, IdleIs DEF ThreadInv
    <3>2. thread[u].of # r
      <4>1. r # NoRequest  BY RequestsAssumption
      <4> QED BY <1>1, <3>1, <4>1 DEF ThreadInv
    <3> QED BY <1>8, <3>1, <3>2
  <2> QED BY <1>2, <1>8, <2>1, ThreadsGoOn
<1>11. ConnInv'  BY <1>2 DEF ConnInv
<1>12. QueueInv'
  <2>1. \A u \in Threads : thread[u].at = "adding" => thread'[u] = thread[u]  BY <1>2, <1>8
  <2> QED BY <1>2, <1>3, <1>4, <2>1, Distinct, QueuePosted
<1>13. StopInv'
  <2>1. Places(queue'["client"], StopLoop) = Places(queue["client"], StopLoop)  BY <1>5, Distinct
  <2>2. ASSUME NEW x \in Requests, sent'[x] = "posted",
               NEW i \in Places(queue'["client"], StopLoop), NEW j \in Places(queue'["client"], Post(x))
        PROVE  j < i
    <3>1. CASE x = r  BY <1>8, <2>1, <2>2, <3>1 DEF StopInv
    <3>2. CASE x # r
      <4>1. Places(queue'["client"], Post(x)) = Places(queue["client"], Post(x))
        BY <1>5, <3>2, Distinct
      <4> QED BY <1>8, <2>1, <2>2, <3>2, <4>1 DEF StopInv
    <3> QED BY <3>1, <3>2
  <2> QED BY <1>2, <2>1, <2>2 DEF StopInv
<1>14. PlaceInv' /\ WireInv' /\ \A x \in Requests, d \in Conns : UnderWay(x, d)' => UnderWay(x, d)
  BY <1>2, <1>5, NothingMoves
<1>15. WayInv'  BY <1>2, <1>14 DEF WayInv
<1>16. RequestInv'
  <2> SUFFICES ASSUME NEW x \in Requests
               PROVE  /\ sent'[x] = "no" => Untouched(x)' /\ ~InQueue(x)'
                      /\ InQueue(x)' => Untouched(x)'
                      /\ \A c \in Conns : x \in pending'[c] =>
                           answers'[x] = 0 /\ \A d \in Conns : x \in pending'[d] => d = c
                      /\ answers'[x] <= 1
    BY DEF RequestInv
  <2>1. Untouched(x) => Untouched(x)'  BY <1>2, <1>14 DEF Untouched
  <2>2. CASE x = r  BY <1>2, <1>4, <1>8, <2>1, <2>2 DEF RequestInv
  <2>3. CASE x # r  BY <1>2, <1>7, <1>8, <2>1, <2>3 DEF RequestInv
  <2> QED BY <2>2, <2>3
<1>17. KeptInv'
  <2> SUFFICES ASSUME NEW x \in Requests, sent'[x] = "posted", answers'[x] = 0
               PROVE  InQueue(x)' \/ \E c \in Conns : x \in pending'[c]
    BY DEF KeptInv
  <2>1. CASE x = r  BY <1>6, <1>8, <2>1
  <2>2. CASE x # r  BY <1>2, <1>7, <1>8, <2>2 DEF KeptInv
  <2> QED BY <2>1, <2>2
<1> QED BY <1>9, <1>10, <1>11, <1>12, <1>13, <1>14, <1>15, <1>16, <1>17

LEMMA ReceiveHandshakeStep ==
  ASSUME RouterInv, NEW t \in Threads, ReceiveHandshake(t) PROVE RouterInv'
<1> USE DEF RouterInv
<1>1. PICK c \in Conns : c = thread[t].conn
  BY DEF ReceiveHandshake, ThreadInv
<1>2. /\ thread[t].at = "greeting" /\ thread' = [thread EXCEPT ![t].at = "adding"]
      /\ wire[c]["client"] # <<>> /\ Head(wire[c]["client"]) = Hello
      /\ wire' = [wire EXCEPT ![c]["client"] = Tail(@)]
      /\ queue' = Posted("client", Add(c))
      /\ UNCHANGED <<manager, stopping, loop, listening, socket, managed, known, pending, serving, sent,
                     answers>>
  BY <1>1 DEF ReceiveHandshake, callVars, Add
<1>3. Add(c) \in ClientCallbacks  BY DEF ClientCallbacks
<1>4. c # NoConn /\ "client" \in Sides  BY DEF Conns, NoConn, Sides
<1> DEFINE v == [thread[t] EXCEPT !.at = "adding"]
<1>5. /\ v \in [at : {"idle", "routed", "greeting", "adding", "leaving"},
                conn : Conns \cup {NoConn}, of : Requests \cup {NoRequest}]
      /\ v.at = "adding" /\ v.conn = c /\ v.of = NoRequest
      /\ thread' = [thread EXCEPT ![t] = v]
  <2>1. thread[t] \in [at : {"idle", "routed", "greeting", "adding", "leaving"},
                       conn : Conns \cup {NoConn}, of : Requests \cup {NoRequest}]
    BY DEF TypeOK
  <2>2. thread[t].of = NoRequest  BY <1>2 DEF ThreadInv
  <2> QED BY <1>1, <1>2, <2>1, <2>2
<1> HIDE DEF v
<1>6. \A u \in Threads : thread'[u] = IF u = t THEN v ELSE thread[u]
  BY <1>5 DEF TypeOK
<1>7. /\ queue' = [x \in Sides |-> queue'[x]]
      /\ queue'["client"] \in Seq(ClientCallbacks) /\ queue'["server"] \in Seq(ServerCallbacks)
      /\ queue'["server"] = queue["server"]
      /\ \A m : Places(queue["client"], m) \subseteq Places(queue'["client"], m)
  BY <1>2, <1>3, ClientPosts
<1>8. wire[c]["client"] \in Seq(Messages) /\ wire[c]["client"] \in Seq(ToClient)
  BY <1>4 DEF TypeOK, WireInv
<1>9. /\ Tail(wire[c]["client"]) \in Seq(Messages) /\ Tail(wire[c]["client"]) \in Seq(ToClient)
      /\ \A m : Fewer(Tail(wire[c]["client"]), wire[c]["client"], m)
  BY <1>2, <1>8, HeadLeaves
<1>10. \A d \in Conns, x \in Sides :
         wire'[d][x] = IF d = c /\ x = "client" THEN Tail(wire[c]["client"]) ELSE wire[d][x]
  BY <1>2 DEF TypeOK
<1>11. TypeOK'
  <2>1. queue' \in [Sides -> Seq([do : {"closeAll", "stop", "add", "disconnect", "send"},
                                   conn : Conns \cup {NoConn}, msg : Messages])]
    BY <1>7, QueuesTyped
  <2>2. thread' \in [Threads -> [at : {"idle", "routed", "greeting", "adding", "leaving"},
                                 conn : Conns \cup {NoConn}, of : Requests \cup {NoRequest}]]
    BY <1>5 DEF TypeOK
  <2>3. wire' \in [Conns -> [Sides -> Seq(Messages)]]
    BY <1>2, <1>9 DEF TypeOK
  <2> QED BY <1>2, <2>1, <2>2, <2>3 DEF TypeOK
<1>12. ThreadInv'
  <2>1. \A u \in Threads \ {t} : thread[u].conn # c
    BY <1>1, <1>4 DEF ThreadInv
  <2>2. socket[c]["client"] = "open" /\ ~managed[c]["client"]
    BY <1>1, <1>2 DEF ThreadInv
  <2>3. IF v.at \in {"greeting", "adding"}
          THEN /\ v.conn \in Conns
               /\ socket'[v.conn]["client"] = "open" /\ ~managed'[v.conn]["client"]
               /\ \A u \in Threads \ {t} : thread[u].conn # v.conn
          ELSE v.conn = NoConn
    BY <1>2, <1>5, <2>1, <2>2
  <2>4. IF v.at = "routed"
          THEN v.of \in Requests /\ sent[v.of] = "no" /\ \A u \in Threads \ {t} : thread[u].of # v.of
          ELSE v.of = NoRequest
    BY <1>5
  <2> QED BY <1>2, <1>6, <2>3, <2>4, ThreadTakesUp
<1>13. ConnInv'  BY <1>2 DEF ConnInv
<1>14. QueueInv'
  <2>1. Places(queue["client"], Add(c)) = {}
    <3>1. ASSUME NEW u \in Threads, thread[u].at = "adding", thread[u].conn = c PROVE FALSE
      BY <1>1, <1>2, <1>4, <3>1 DEF ThreadInv
    <3> QED BY <3>1 DEF QueueInv
  <2>2. \A u \in Threads : thread[u].at = "adding" => thread'[u] = thread[u]
    BY <1>2, <1>6
  <2>3. \A d \in Conns : Add(c) = Add(d) => \E u \in Threads : thread'[u].at = "adding" /\ thread'[u].conn = d
    BY <1>5, <1>6, Distinct
  <2>4. \A r \in Requests : Add(c) # Post(r)  BY Distinct
  <2> QED BY <1>2, <1>3, <2>1, <2>2, <2>3, <2>4, QueuePosted
<1>15. StopInv' /\ \A r \in Requests : InQueue(r)' <=> InQueue(r)
  BY <1>2, <1>3, Distinct, OrderStays
<1>16. PlaceInv' /\ \A r \in Requests, d \in Conns : UnderWay(r, d)' => UnderWay(r, d)
  <2>1. \A d \in Conns, x \in Sides : \A m : Fewer(wire'[d][x], wire[d][x], m)
    BY <1>9, <1>10, FewPlaces
  <2> QED BY <1>2, <1>7, <2>1, FewPlaces, NothingSetUnderWay DEF Sides
<1>17. WayInv' /\ RequestInv'  BY <1>2, <1>15, <1>16, WaitingGoesOn
<1>18. KeptInv'  BY <1>2, <1>15, NothingForgotten
<1>19. WireInv'  BY <1>9, <1>10 DEF WireInv, Sides
<1> QED BY <1>11, <1>12, <1>13, <1>14, <1>15, <1>16, <1>17, <1>18, <1>19

LEMMA DisconnectFromPeerStep ==
  ASSUME RouterInv, NEW t \in Threads, DisconnectFromPeer(t) PROVE RouterInv'
<1> USE DEF RouterInv
<1> DEFINE cb == Callback("disconnect", NoConn, Hello)
           v == [thread[t] EXCEPT !.at = "leaving"]
<1>1. /\ thread[t].at = "idle" /\ thread' = [thread EXCEPT ![t] = v]
      /\ queue' = Posted("client", cb)
      /\ UNCHANGED <<manager, stopping, loop, listening, socket, managed, known, wire, pending, serving,
                     sent, answers>>
  BY DEF DisconnectFromPeer, connVars, callVars, TypeOK
<1>2. /\ v \in [at : {"idle", "routed", "greeting", "adding", "leaving"},
                conn : Conns \cup {NoConn}, of : Requests \cup {NoRequest}]
      /\ v.at = "leaving" /\ v.conn = NoConn /\ v.of = NoRequest
  <2>1. thread[t] \in [at : {"idle", "routed", "greeting", "adding", "leaving"},
                       conn : Conns \cup {NoConn}, of : Requests \cup {NoRequest}]
    BY DEF TypeOK
  <2>2. thread[t].of = NoRequest /\ thread[t].conn = NoConn  BY <1>1 DEF ThreadInv
  <2> QED BY <2>1, <2>2
<1>3. cb \in ClientCallbacks  BY DEF ClientCallbacks
<1>4. cb # StopLoop /\ (\A c : cb # Add(c)) /\ \A r : cb # Post(r)
  BY DEF StopLoop, Add, Post, Callback
<1> HIDE DEF v, cb
<1>5. \A u \in Threads : thread'[u] = IF u = t THEN v ELSE thread[u]
  BY <1>1 DEF TypeOK
<1>6. /\ queue' = [x \in Sides |-> queue'[x]]
      /\ queue'["client"] \in Seq(ClientCallbacks) /\ queue'["server"] \in Seq(ServerCallbacks)
      /\ queue'["server"] = queue["server"]
  BY <1>1, <1>3, ClientPosts
<1>7. TypeOK'
  <2>1. queue' \in [Sides -> Seq([do : {"closeAll", "stop", "add", "disconnect", "send"},
                                   conn : Conns \cup {NoConn}, msg : Messages])]
    BY <1>6, QueuesTyped
  <2>2. thread' \in [Threads -> [at : {"idle", "routed", "greeting", "adding", "leaving"},
                                 conn : Conns \cup {NoConn}, of : Requests \cup {NoRequest}]]
    BY <1>1, <1>2 DEF TypeOK
  <2> QED BY <1>1, <2>1, <2>2 DEF TypeOK
<1>8. ThreadInv'
  <2>1. IF v.at \in {"greeting", "adding"}
          THEN /\ v.conn \in Conns
               /\ socket'[v.conn]["client"] = "open" /\ ~managed'[v.conn]["client"]
               /\ \A u \in Threads \ {t} : thread[u].conn # v.conn
          ELSE v.conn = NoConn
    BY <1>2
  <2>2. IF v.at = "routed"
          THEN v.of \in Requests /\ sent[v.of] = "no" /\ \A u \in Threads \ {t} : thread[u].of # v.of
          ELSE v.of = NoRequest
    BY <1>2
  <2> QED BY <1>1, <1>5, <2>1, <2>2, ThreadTakesUp
<1>9. ConnInv'  BY <1>1 DEF ConnInv
<1>10. QueueInv'
  <2>1. \A u \in Threads : thread[u].at = "adding" => thread'[u] = thread[u]
    BY <1>1, <1>5
  <2> QED BY <1>1, <1>3, <1>4, <2>1, QueuePosted
<1>11. StopInv' /\ \A r \in Requests : InQueue(r)' <=> InQueue(r)
  BY <1>1, <1>3, <1>4, OrderStays
<1>12. PlaceInv' /\ WireInv' /\ \A r \in Requests, d \in Conns : UnderWay(r, d)' => UnderWay(r, d)
  BY <1>1, <1>6, NothingMoves
<1>13. WayInv' /\ RequestInv'  BY <1>1, <1>11, <1>12, WaitingGoesOn
<1>14. KeptInv'  BY <1>1, <1>11, NothingForgotten
<1> QED BY <1>7, <1>8, <1>9, <1>10, <1>11, <1>12, <1>13, <1>14

-----------------------------------------------------------------------------
(* Both routers stop, the server's process dies                            *)

(* A callback is posted to the server.                                     *)
LEMMA ServerPosts ==
  ASSUME RouterInv, NEW cb \in ServerCallbacks, queue' = Posted("server", cb)
  PROVE  /\ queue' = [x \in Sides |-> queue'[x]]
         /\ queue'["client"] \in Seq(ClientCallbacks) /\ queue'["server"] \in Seq(ServerCallbacks)
         /\ queue'["client"] = queue["client"]
         /\ \A m : m # cb => Places(queue'["server"], m) = Places(queue["server"], m)
         /\ \E n : Places(queue'["server"], cb) \subseteq Places(queue["server"], cb) \cup {n}
<1>1. "client" \in Sides /\ "server" \in Sides /\ "client" # "server"  BY DEF Sides
<1>2. /\ queue' = [x \in Sides |-> queue'[x]]
      /\ \A x \in Sides : queue'[x] = IF x = "server" /\ loop["server"] = "running"
                                        THEN Append(queue[x], cb) ELSE queue[x]
      /\ queue'["client"] \in Seq(ClientCallbacks) /\ queue'["server"] \in Seq(ServerCallbacks)
  BY <1>1, PostedEffect
<1>3. queue'["client"] = queue["client"]  BY <1>1, <1>2
<1>4. queue["server"] \in Seq(ServerCallbacks)  BY DEF RouterInv, QueueInv
<1> DEFINE q == queue["server"]
<1>5. /\ \A m : m # cb => Places(Append(q, cb), m) = Places(q, m)
      /\ Places(Append(q, cb), cb) = Places(q, cb) \cup {Len(q) + 1}
  BY <1>4, PlacesOfAppend
<1>6. CASE loop["server"] = "running"
  <2>1. queue'["server"] = Append(q, cb)  BY <1>1, <1>2, <1>6
  <2> QED BY <1>2, <1>3, <1>5, <2>1
<1>7. CASE loop["server"] # "running"
  <2>1. queue'["server"] = q  BY <1>1, <1>2, <1>7
  <2> QED BY <1>2, <1>3, <2>1
<1> QED BY <1>6, <1>7

(* A step of the server leaves what the client keeps alone.                *)
LEMMA ServerMoves ==
  ASSUME RouterInv, UNCHANGED <<thread, sent, pending, answers>>,
         queue'["client"] = queue["client"], queue'["server"] \in Seq(ServerCallbacks),
         \A s \in Sides : manager'[s] <=> stopping'[s] = "no",
         manager'["client"] => loop'["client"] = "running",
         manager'["client"] => manager["client"],
         \A c \in Conns : /\ socket'[c]["client"] = socket[c]["client"]
                          /\ managed'[c]["client"] = managed[c]["client"]
  PROVE  /\ ThreadInv' /\ ConnInv' /\ QueueInv' /\ StopInv' /\ KeptInv'
         /\ (\A r \in Requests, c \in Conns : UnderWay(r, c)' => UnderWay(r, c)) => WayInv' /\ RequestInv'
<1>1. ThreadInv'
  <2>1. ASSUME NEW t \in Threads, thread'[t].at \in {"greeting", "adding"}
        PROVE  thread[t].conn \in Conns
    BY <2>1 DEF RouterInv, ThreadInv
  <2> QED BY <2>1, ThreadsGoOn
<1>2. ConnInv'  BY DEF RouterInv, ConnInv
<1>3. QueueInv'  BY DEF RouterInv, QueueInv
<1>4. StopInv'  BY DEF RouterInv, StopInv
<1>5. KeptInv'  BY DEF RouterInv, KeptInv, InQueue
<1>6. (\A r \in Requests, c \in Conns : UnderWay(r, c)' => UnderWay(r, c)) => WayInv' /\ RequestInv'
  BY WaitingGoesOn DEF InQueue
<1> QED BY <1>1, <1>2, <1>3, <1>4, <1>5, <1>6

LEMMA StopStepServer ==
  ASSUME RouterInv, Stop("server") \/ Shutdown("server")
  PROVE  RouterInv'
<1> USE DEF RouterInv
<1>1. PICK cb \in {CloseAll, StopLoop} : queue' = Posted("server", cb)
  BY DEF Stop, Shutdown
<1>2. /\ UNCHANGED <<loop, listening, socket, managed, known, wire, pending, serving, sent, thread, answers>>
      /\ stopping' \in [Sides -> {"no", "closing", "joining", "done"}]
      /\ manager' \in [Sides -> BOOLEAN]
      /\ stopping'["server"] # "no" /\ stopping'["client"] = stopping["client"]
      /\ manager'["server"] = FALSE /\ manager'["client"] = manager["client"]
  <2>1. CASE Stop("server")
    BY <2>1 DEF Stop, connVars, callVars, TypeOK, Sides
  <2>2. CASE Shutdown("server")
    <3>1. manager["server"] = FALSE  BY <2>2 DEF Shutdown, StopInv, TypeOK, Sides
    <3> QED BY <2>2, <3>1 DEF Shutdown, connVars, callVars, TypeOK, Sides
  <2> QED BY <2>1, <2>2
<1>3. cb \in ServerCallbacks  BY <1>1 DEF ServerCallbacks
<1>4. /\ queue' = [x \in Sides |-> queue'[x]]
      /\ queue'["client"] \in Seq(ClientCallbacks) /\ queue'["server"] \in Seq(ServerCallbacks)
      /\ queue'["client"] = queue["client"]
      /\ \A m : m # cb => Places(queue'["server"], m) = Places(queue["server"], m)
  BY <1>1, <1>3, ServerPosts
<1>5. TypeOK'
  <2>1. queue' \in [Sides -> Seq([do : {"closeAll", "stop", "add", "disconnect", "send"},
                                   conn : Conns \cup {NoConn}, msg : Messages])]
    BY <1>4, QueuesTyped
  <2> QED BY <1>2, <2>1 DEF TypeOK
<1>6. PlaceInv' /\ \A r \in Requests, c \in Conns : UnderWay(r, c)' => UnderWay(r, c)
  <2>1. ASSUME NEW r \in Requests, NEW c \in Conns
        PROVE  Fewer(queue'["server"], queue["server"], Answer(r, c))
    <3>1. Places(queue'["server"], Answer(r, c)) = Places(queue["server"], Answer(r, c))
      BY <1>1, <1>4, Distinct
    <3> QED BY <3>1 DEF Fewer
  <2> QED BY <1>2, <2>1, FewPlaces, NothingSetUnderWay
<1>7. /\ \A s \in Sides : manager'[s] <=> stopping'[s] = "no"
      /\ manager'["client"] => loop'["client"] = "running"
  BY <1>2 DEF StopInv, Sides
<1>8. ThreadInv' /\ ConnInv' /\ QueueInv' /\ StopInv' /\ KeptInv' /\ WayInv' /\ RequestInv'
  BY <1>2, <1>4, <1>6, <1>7, ServerMoves
<1>9. WireInv'  BY <1>2 DEF WireInv
<1> QED BY <1>5, <1>6, <1>8, <1>9

(* stop() posts StopLoop when it has made the manager unreachable, so it   *)
(* comes after all requests posted to a running router.                    *)
LEMMA StopStepClient ==
  ASSUME RouterInv, Stop("client") \/ Shutdown("client")
  PROVE  RouterInv'
<1> USE DEF RouterInv
<1>1. PICK cb \in {CloseAll, StopLoop} : queue' = Posted("client", cb)
  BY DEF Stop, Shutdown
<1>2. /\ UNCHANGED <<loop, listening, socket, managed, known, wire, pending, serving, sent, thread, answers>>
      /\ stopping' \in [Sides -> {"no", "closing", "joining", "done"}]
      /\ manager' \in [Sides -> BOOLEAN]
      /\ stopping'["client"] # "no" /\ stopping'["server"] = stopping["server"]
      /\ manager'["client"] = FALSE /\ manager'["server"] = manager["server"]
  <2>1. CASE Stop("client")
    BY <2>1 DEF Stop, connVars, callVars, TypeOK, Sides
  <2>2. CASE Shutdown("client")
    <3>1. manager["client"] = FALSE  BY <2>2 DEF Shutdown, StopInv, TypeOK, Sides
    <3> QED BY <2>2, <3>1 DEF Shutdown, connVars, callVars, TypeOK, Sides
  <2> QED BY <2>1, <2>2
<1>3. cb \in ClientCallbacks  BY <1>1 DEF ClientCallbacks
<1>4. /\ queue' = [x \in Sides |-> queue'[x]]
      /\ queue'["client"] \in Seq(ClientCallbacks) /\ queue'["server"] \in Seq(ServerCallbacks)
      /\ queue'["server"] = queue["server"]
      /\ \A m : m # cb => Places(queue'["client"], m) = Places(queue["client"], m)
      /\ \E n \in Nat : /\ \A m : Places(queue["client"], m) \subseteq 1 .. n
                        /\ Places(queue'["client"], cb) \subseteq Places(queue["client"], cb) \cup {n + 1}
  BY <1>1, <1>3, ClientPosts
<1>5. TypeOK'
  <2>1. queue' \in [Sides -> Seq([do : {"closeAll", "stop", "add", "disconnect", "send"},
                                   conn : Conns \cup {NoConn}, msg : Messages])]
    BY <1>4, QueuesTyped
  <2> QED BY <1>2, <2>1 DEF TypeOK
<1>6. PlaceInv' /\ WireInv' /\ \A r \in Requests, c \in Conns : UnderWay(r, c)' => UnderWay(r, c)
  BY <1>2, <1>4, NothingMoves
<1>7. /\ \A r : Places(queue'["client"], Post(r)) = Places(queue["client"], Post(r))
      /\ \A c : cb # Add(c) /\ \A r : cb # Post(r)
  BY <1>1, <1>4, Distinct
<1>8. ThreadInv'  BY <1>2, ThreadsGoOn
<1>9. ConnInv'  BY <1>2 DEF ConnInv
<1>10. QueueInv'  BY <1>1, <1>2, <1>3, <1>7, QueuePosted
<1>11. StopInv'
  <2>1. ASSUME NEW r \in Requests, sent'[r] = "posted",
               NEW i \in Places(queue'["client"], StopLoop), NEW j \in Places(queue'["client"], Post(r))
        PROVE  j < i
    <3>1. PICK n \in Nat :
            /\ \A m : Places(queue["client"], m) \subseteq 1 .. n
            /\ Places(queue'["client"], cb) \subseteq Places(queue["client"], cb) \cup {n + 1}
      BY <1>4
    <3>2. j \in Places(queue["client"], Post(r)) /\ j \in 1 .. n  BY <1>7, <2>1, <3>1
    <3>3. i \in Places(queue["client"], StopLoop) \/ i = n + 1
      BY <1>4, <2>1, <3>1
    <3>4. CASE i \in Places(queue["client"], StopLoop)
      BY <1>2, <2>1, <3>2, <3>4 DEF StopInv
    <3> QED BY <3>1, <3>2, <3>3, <3>4
  <2>2. /\ \A s \in Sides : manager'[s] <=> stopping'[s] = "no"
        /\ manager'["client"] => loop'["client"] = "running"
    BY <1>2 DEF StopInv, Sides
  <2> QED BY <1>2, <2>1, <2>2 DEF StopInv
<1>12. WayInv' /\ RequestInv'  BY <1>2, <1>6, <1>7, WaitingGoesOn DEF InQueue
<1>13. KeptInv'  BY <1>2, <1>7, NothingForgotten DEF InQueue
<1> QED BY <1>5, <1>6, <1>8, <1>9, <1>10, <1>11, <1>12, <1>13

LEMMA JoinStep ==
  ASSUME RouterInv, NEW s \in Sides, Join(s) PROVE RouterInv'
<1> USE DEF RouterInv
<1>1. /\ stopping[s] = "joining" /\ stopping' = [stopping EXCEPT ![s] = "done"]
      /\ UNCHANGED <<manager, loop, queue, listening, socket, managed, known, wire, pending, serving,
                     sent, thread, answers>>
  BY DEF Join, connVars, callVars
<1>2. TypeOK'  BY <1>1 DEF TypeOK
<1>3. PlaceInv' /\ WireInv' /\ \A r \in Requests, c \in Conns : UnderWay(r, c)' => UnderWay(r, c)
  BY <1>1, NothingMoves
<1>4. /\ \A x \in Sides : manager'[x] <=> stopping'[x] = "no"
      /\ manager'["client"] => loop'["client"] = "running"
      /\ queue'["server"] \in Seq(ServerCallbacks)
  BY <1>1 DEF StopInv, TypeOK, QueueInv
<1>5. ThreadInv' /\ ConnInv' /\ QueueInv' /\ StopInv' /\ KeptInv' /\ WayInv' /\ RequestInv'
  BY <1>1, <1>3, <1>4, ServerMoves
<1> QED BY <1>2, <1>3, <1>5

LEMMA CrashStep ==
  ASSUME RouterInv, Crash PROVE RouterInv'
<1> USE DEF RouterInv
<1> DEFINE C == {c \in Conns : socket[c]["client"] # "none" /\ socket[c]["server"] # "closed"}
<1>1. /\ stopping' = [stopping EXCEPT !["server"] = "done"]
      /\ manager' = [manager EXCEPT !["server"] = FALSE]
      /\ loop' = [loop EXCEPT !["server"] = "finished"]
      /\ queue' = [queue EXCEPT !["server"] = <<>>]
      /\ listening' = FALSE /\ serving' = {}
      /\ SocketsClosed("server", C)
      /\ UNCHANGED <<known, pending, sent, thread, answers>>
  BY DEF Crash
<1>2. C \in SUBSET Conns /\ "server" \in Sides /\ "server" # "client"  BY DEF Sides
<1> HIDE DEF C
<1>3. /\ socket' \in [Conns -> [Sides -> {"none", "open", "closed"}]]
      /\ managed' \in [Conns -> [Sides -> BOOLEAN]]
      /\ wire' \in [Conns -> [Sides -> Seq(Messages)]]
      /\ \A c \in Conns : /\ socket'[c]["client"] = socket[c]["client"]
                          /\ managed'[c]["client"] = managed[c]["client"]
      /\ \A c \in Conns, x \in Sides : wire'[c][x] \in {wire[c][x], <<>>}
  BY <1>1, <1>2, ServerSocketsClosed
<1>4. /\ queue'["client"] = queue["client"] /\ queue'["server"] = <<>>
      /\ <<>> \in Seq(ServerCallbacks)
      /\ queue' = [x \in Sides |-> queue'[x]]
      /\ queue'["client"] \in Seq(ClientCallbacks)
  <2>1. queue = [x \in Sides |-> queue[x]]  BY DEF TypeOK
  <2>2. queue'["client"] = queue["client"] /\ queue'["server"] = <<>>  BY <1>1, <1>2, <2>1 DEF Sides
  <2>3. queue' = [x \in Sides |-> queue'[x]]  BY <1>1, <2>1
  <2>4. <<>> \in Seq(ServerCallbacks)  BY EmptySeq
  <2> QED BY <2>2, <2>3, <2>4 DEF QueueInv
<1>5. TypeOK'
  <2>1. queue' \in [Sides -> Seq([do : {"closeAll", "stop", "add", "disconnect", "send"},
                                   conn : Conns \cup {NoConn}, msg : Messages])]
    BY <1>4, QueuesTyped
  <2> QED BY <1>1, <1>3, <2>1 DEF TypeOK
<1>6. PlaceInv' /\ \A r \in Requests, c \in Conns : UnderWay(r, c)' => UnderWay(r, c)
  <2>1. \A c \in Conns, x \in Sides : \A m : Fewer(wire'[c][x], wire[c][x], m)
    BY <1>3, FewPlaces
  <2> QED BY <1>1, <1>4, <2>1, FewPlaces, NothingSetUnderWay DEF Sides
<1>7. WireInv'
  <2>1. <<>> \in Seq(ToClient)  BY EmptySeq
  <2> QED BY <1>3, <2>1 DEF WireInv, Sides
<1>8. /\ \A s \in Sides : manager'[s] <=> stopping'[s] = "no"
      /\ manager'["client"] => loop'["client"] = "running"
      /\ manager'["client"] => manager["client"]
  BY <1>1 DEF StopInv, TypeOK, Sides
<1>9. ThreadInv' /\ ConnInv' /\ QueueInv' /\ StopInv' /\ KeptInv' /\ WayInv' /\ RequestInv'
  BY <1>1, <1>3, <1>4, <1>6, <1>8, ServerMoves
<1> QED BY <1>5, <1>6, <1>7, <1>9

-----------------------------------------------------------------------------
(* Sockets read by the server                                              *)

LEMMA ReadHandshakeStep ==
  ASSUME RouterInv, NEW c \in Conns, ReadHandshake(c) PROVE RouterInv'
<1> USE DEF RouterInv
<1>1. /\ wire[c]["server"] # <<>>
      /\ wire' = [wire EXCEPT ![c]["server"] = Tail(@)]
      /\ known' = [known EXCEPT ![c] = TRUE]
      /\ UNCHANGED <<manager, stopping, loop, queue, listening, socket, managed, pending, serving, sent,
                     thread, answers>>
  BY DEF ReadHandshake, Readable, loopVars, callVars
<1>2. "server" \in Sides /\ wire[c]["server"] \in Seq(Messages)  BY DEF TypeOK, Sides
<1>3. /\ Tail(wire[c]["server"]) \in Seq(Messages)
      /\ \A m : Fewer(Tail(wire[c]["server"]), wire[c]["server"], m)
  BY <1>1, <1>2, HeadLeaves
<1>4. \A d \in Conns, x \in Sides :
        wire'[d][x] = IF d = c /\ x = "server" THEN Tail(wire[c]["server"]) ELSE wire[d][x]
  BY <1>1 DEF TypeOK
<1>5. TypeOK'
  <2>1. wire' \in [Conns -> [Sides -> Seq(Messages)]]  BY <1>1, <1>3 DEF TypeOK
  <2> QED BY <1>1, <2>1 DEF TypeOK
<1>6. PlaceInv' /\ \A r \in Requests, d \in Conns : UnderWay(r, d)' => UnderWay(r, d)
  <2>1. \A d \in Conns, x \in Sides : \A m : Fewer(wire'[d][x], wire[d][x], m)
    BY <1>3, <1>4, FewPlaces
  <2> QED BY <1>1, <2>1, FewPlaces, NothingSetUnderWay DEF Sides
<1>7. WireInv'  BY <1>4 DEF WireInv, Sides
<1>8. ThreadInv' /\ ConnInv' /\ QueueInv' /\ StopInv' /\ KeptInv' /\ WayInv' /\ RequestInv'
  <2>1. /\ \A s \in Sides : manager'[s] <=> stopping'[s] = "no"
        /\ manager'["client"] => loop'["client"] = "running"
        /\ queue'["server"] \in Seq(ServerCallbacks)
    BY <1>1 DEF StopInv, QueueInv
  <2> QED BY <1>1, <1>6, <2>1, ServerMoves
<1> QED BY <1>5, <1>6, <1>7, <1>8

LEMMA AcceptConnectionStep ==
  ASSUME RouterInv, NEW c \in Conns, AcceptConnection(c) PROVE RouterInv'
<1> USE DEF RouterInv
<1>1. /\ UNCHANGED <<manager, stopping, loop, queue, listening, known, pending, serving, sent, thread, answers>>
      /\ socket' \in [Conns -> [Sides -> {"none", "open", "closed"}]]
      /\ managed' \in [Conns -> [Sides -> BOOLEAN]]
      /\ wire' \in [Conns -> [Sides -> Seq(Messages)]]
      /\ \A d \in Conns : /\ socket'[d]["client"] = socket[d]["client"]
                          /\ managed'[d]["client"] = managed[d]["client"]
      /\ \A d \in Conns, x \in Sides : wire'[d][x] \in {wire[d][x], <<>>, <<Hello>>}
  <2>1. UNCHANGED <<manager, stopping, loop, queue, listening, known, pending, serving, sent, thread, answers>>
    BY DEF AcceptConnection, loopVars, callVars
  <2>2. CASE SocketsClosed("server", {c})
    <3>1. {c} \in SUBSET Conns  OBVIOUS
    <3> QED BY <2>1, <2>2, <3>1, ServerSocketsClosed
  <2>3. CASE /\ socket' = [socket EXCEPT ![c]["server"] = "open"]
             /\ managed' = [managed EXCEPT ![c]["server"] = TRUE]
             /\ wire' = [wire EXCEPT ![c]["client"] = IF socket[c]["client"] = "open" THEN <<Hello>> ELSE @]
    <3>1. /\ socket' \in [Conns -> [Sides -> {"none", "open", "closed"}]]
          /\ \A d \in Conns : socket'[d]["client"] = socket[d]["client"]
      BY <2>3 DEF TypeOK, Sides
    <3>2. /\ managed' \in [Conns -> [Sides -> BOOLEAN]]
          /\ \A d \in Conns : managed'[d]["client"] = managed[d]["client"]
      BY <2>3 DEF TypeOK, Sides
    <3>3. wire \in [Conns -> [Sides -> Seq(Messages)]] /\ <<Hello>> \in Seq(Messages)
      <4>1. Hello \in Messages  BY DEF Messages
      <4>2. <<Hello>> \in Seq(Messages)  BY <4>1
      <4> QED BY <4>2 DEF TypeOK
    <3>4. wire' \in [Conns -> [Sides -> Seq(Messages)]]  BY <2>3, <3>3 DEF Sides
    <3>5. \A d \in Conns, x \in Sides : wire'[d][x] \in {wire[d][x], <<>>, <<Hello>>}
      BY <2>3, <3>3
    <3> QED BY <2>1, <3>1, <3>2, <3>4, <3>5
  <2> QED BY <2>2, <2>3 DEF AcceptConnection
<1>2. TypeOK'  BY <1>1 DEF TypeOK
<1>3. PlaceInv' /\ \A r \in Requests, d \in Conns : UnderWay(r, d)' => UnderWay(r, d)
  <2>1. \A d \in Conns, x \in Sides : \A m : m # Hello => Fewer(wire'[d][x], wire[d][x], m)
    BY <1>1, FewPlaces
  <2> QED BY <1>1, <2>1, Distinct, FewPlaces, NothingSetUnderWay DEF Sides
<1>4. WireInv'
  <2>1. <<>> \in Seq(ToClient) /\ <<Hello>> \in Seq(ToClient)
    <3>1. Hello \in ToClient  BY DEF ToClient
    <3> HIDE DEF ToClient
    <3> QED BY <3>1
  <2> QED BY <1>1, <2>1 DEF WireInv, Sides
<1>5. ThreadInv' /\ ConnInv' /\ QueueInv' /\ StopInv' /\ KeptInv' /\ WayInv' /\ RequestInv'
  <2>1. /\ \A s \in Sides : manager'[s] <=> stopping'[s] = "no"
        /\ manager'["client"] => loop'["client"] = "running"
        /\ queue'["server"] \in Seq(ServerCallbacks)
    BY <1>1 DEF StopInv, QueueInv
  <2> QED BY <1>1, <1>3, <2>1, ServerMoves
<1> QED BY <1>2, <1>3, <1>4, <1>5

LEMMA Rewired ==
  ASSUME NEW w \in [Conns -> [Sides -> Seq(Messages)]], NEW c \in Conns, NEW s \in Sides,
         NEW q \in Seq(Messages), NEW v, v = [w EXCEPT ![c][s] = q]
  PROVE  /\ v \in [Conns -> [Sides -> Seq(Messages)]]
         /\ \A d \in Conns, x \in Sides : v[d][x] = IF d = c /\ x = s THEN q ELSE w[d][x]
OBVIOUS

(* The one request that moves is r on c; the others stay where they are.   *)
LEMMA OneMoves ==
  ASSUME RouterInv, NEW r \in Requests, NEW c \in Conns, UnderWay(r, c), InOnePlace(r, c)',
         \A x \in Requests, d \in Conns : <<x, d>> # <<r, c>> =>
           /\ <<x, d>> \in serving' => <<x, d>> \in serving
           /\ Fewer(wire'[d]["server"], wire[d]["server"], Request(x))
           /\ Fewer(wire'[d]["client"], wire[d]["client"], Reply(x))
           /\ Fewer(queue'["server"], queue["server"], Answer(x, d))
  PROVE  /\ PlaceInv'
         /\ \A x \in Requests, d \in Conns : UnderWay(x, d)' => UnderWay(x, d)
<1> SUFFICES ASSUME NEW x \in Requests, NEW d \in Conns
             PROVE  InOnePlace(x, d)' /\ (UnderWay(x, d)' => UnderWay(x, d))
  BY DEF PlaceInv
<1>1. CASE <<x, d>> = <<r, c>>  BY <1>1
<1>2. CASE <<x, d>> # <<r, c>>  BY <1>2, NotSetUnderWay DEF RouterInv, PlaceInv
<1> QED BY <1>1, <1>2

LEMMA ReadRequestStep ==
  ASSUME RouterInv, NEW c \in Conns, ReadRequest(c) PROVE RouterInv'
<1> USE DEF RouterInv
<1> DEFINE q == wire[c]["server"]
           p == wire[c]["client"]
<1>1. "server" \in Sides /\ "client" \in Sides /\ "client" # "server"  BY DEF Sides
<1>2. q \in Seq(Messages) /\ p \in Seq(ToClient) /\ p \in Seq(Messages)
  BY <1>1 DEF TypeOK, WireInv
<1>3. q # <<>> /\ Head(q).kind = "request"  BY DEF ReadRequest, Readable
<1> HIDE DEF q, p
<1>4. /\ Head(q) \in Messages /\ 1 \in Places(q, Head(q)) /\ Tail(q) \in Seq(Messages)
      /\ \A m : Fewer(Tail(q), q, m)
      /\ \A m : Head(q) = m /\ AtMostOne(Places(q, m)) => Places(Tail(q), m) = {}
  BY <1>2, <1>3, HeadLeaves
<1>5. PICK r \in Requests : Head(q) = Request(r)
  BY <1>3, <1>4 DEF Messages, Hello, Reply
<1>6. Reply(r) \in ToClient /\ Reply(r) \in Messages  BY DEF ToClient, Messages
<1>7. /\ Append(p, Reply(r)) \in Seq(ToClient) /\ Append(p, Reply(r)) \in Seq(Messages)
      /\ \A m : m # Reply(r) => Places(Append(p, Reply(r)), m) = Places(p, m)
      /\ Places(Append(p, Reply(r)), Reply(r)) = Places(p, Reply(r)) \cup {Len(p) + 1}
  BY <1>2, <1>6, PlacesOfAppend
<1>8. PICK rest : rest = [wire EXCEPT ![c]["server"] = Tail(q)]  OBVIOUS
<1>9. /\ rest \in [Conns -> [Sides -> Seq(Messages)]]
      /\ \A d \in Conns, x \in Sides : rest[d][x] = IF d = c /\ x = "server" THEN Tail(q) ELSE wire[d][x]
  BY <1>1, <1>4, <1>8, Rewired DEF TypeOK
<1>10. /\ \/ serving' = serving \cup {<<r, c>>} /\ wire' = rest
          \/ UNCHANGED serving /\ wire' = rest
          \/ UNCHANGED serving /\ wire' = [rest EXCEPT ![c]["client"] = Append(p, Reply(r))]
       /\ UNCHANGED <<manager, stopping, loop, queue, listening, socket, managed, known, pending, sent,
                      thread, answers>>
  <2>1. Head(wire[c]["server"]).of = r  BY <1>5, Distinct DEF q
  <2>2. rest = [wire EXCEPT ![c]["server"] = Tail(@)]  BY <1>8 DEF q, TypeOK
  <2>3. [rest EXCEPT ![c]["client"] = Append(p, Reply(r))] = [rest EXCEPT ![c]["client"] = Append(@, Reply(r))]
    <3>1. rest[c]["client"] = p  BY <1>1, <1>9 DEF p
    <3> QED BY <1>9, <3>1
  <2>4. UNCHANGED <<manager, stopping, loop, queue, listening, socket, managed, known, pending, sent,
                    thread, answers>>
    BY DEF ReadRequest, loopVars
  <2> HIDE DEF q, p
  <2>5. \/ serving' = serving \cup {<<r, c>>} /\ wire' = rest
        \/ /\ wire' = IF socket[c]["client"] = "open" THEN [rest EXCEPT ![c]["client"] = Append(@, Reply(r))] ELSE rest
           /\ UNCHANGED serving
    BY <2>1, <2>2 DEF ReadRequest
  <2> QED BY <2>3, <2>4, <2>5
<1>11. Asked(r, c) # {} /\ UnderWay(r, c) /\ InOnePlace(r, c)
  BY <1>4, <1>5 DEF Asked, UnderWay, PlaceInv, q
<1>12. /\ serving' \in {serving, serving \cup {<<r, c>>}}
       /\ wire' \in [Conns -> [Sides -> Seq(Messages)]]
       /\ wire'[c]["server"] = Tail(q)
       /\ wire'[c]["client"] = p \/ (wire'[c]["client"] = Append(p, Reply(r)) /\ serving' = serving)
       /\ \A d \in Conns \ {c} : wire'[d]["client"] = wire[d]["client"] /\ wire'[d]["server"] = wire[d]["server"]
  <2>1. CASE wire' = rest  BY <1>1, <1>9, <1>10, <2>1 DEF p
  <2>2. CASE UNCHANGED serving /\ wire' = [rest EXCEPT ![c]["client"] = Append(p, Reply(r))]
    <3>1. /\ wire' \in [Conns -> [Sides -> Seq(Messages)]]
          /\ \A d \in Conns, x \in Sides :
               wire'[d][x] = IF d = c /\ x = "client" THEN Append(p, Reply(r)) ELSE rest[d][x]
      BY <1>1, <1>7, <1>9, <2>2, Rewired
    <3>2. wire'[c]["server"] = Tail(q)
      BY <1>1, <1>9, <3>1
    <3>3. wire'[c]["client"] = Append(p, Reply(r))
      BY <1>1, <3>1
    <3>4. \A d \in Conns \ {c} :
            wire'[d]["client"] = wire[d]["client"] /\ wire'[d]["server"] = wire[d]["server"]
      BY <1>1, <1>9, <3>1
    <3> QED BY <2>2, <3>1, <3>2, <3>3, <3>4
  <2> QED BY <1>10, <2>1, <2>2
<1>13. InOnePlace(r, c)'
  <2>1. /\ AtMostOne(Asked(r, c)) /\ <<r, c>> \notin serving
        /\ Replying(r, c) = {} /\ Replied(r, c) = {}
    BY <1>11 DEF InOnePlace
  <2>2. Asked(r, c)' = {}
    BY <1>4, <1>5, <1>12, <2>1 DEF Asked, q
  <2>3. Replying(r, c)' = {}  BY <1>10, <2>1 DEF Replying
  <2>4. Places(p, Reply(r)) = {}  BY <2>1 DEF Replied, p
  <2>5. AtMostOne(Replied(r, c)')
    <3>1. Replied(r, c)' = {} \/ Replied(r, c)' = {Len(p) + 1}
      BY <1>7, <1>12, <2>4 DEF Replied
    <3> QED BY <3>1 DEF AtMostOne
  <2>6. <<r, c>> \in serving' => Replied(r, c)' = {}
    BY <1>12, <2>1, <2>4 DEF Replied
  <2> QED BY <2>2, <2>3, <2>5, <2>6 DEF InOnePlace, AtMostOne
<1>14. PlaceInv' /\ \A x \in Requests, d \in Conns : UnderWay(x, d)' => UnderWay(x, d)
  <2>1. ASSUME NEW x \in Requests, NEW d \in Conns, <<x, d>> # <<r, c>>
        PROVE  /\ <<x, d>> \in serving' => <<x, d>> \in serving
               /\ Fewer(wire'[d]["server"], wire[d]["server"], Request(x))
               /\ Fewer(wire'[d]["client"], wire[d]["client"], Reply(x))
               /\ Fewer(queue'["server"], queue["server"], Answer(x, d))
    <3>1. <<x, d>> \in serving' => <<x, d>> \in serving  BY <1>12, <2>1
    <3>2. Fewer(wire'[d]["server"], wire[d]["server"], Request(x))
      BY <1>4, <1>12, FewPlaces DEF q
    <3>3. Fewer(wire'[d]["client"], wire[d]["client"], Reply(x))
      <4>1. CASE d = c
        <5>1. Reply(x) # Reply(r)  BY <2>1, <4>1, Distinct
        <5>2. Places(wire'[c]["client"], Reply(x)) = Places(p, Reply(x))  BY <1>7, <1>12, <5>1
        <5> QED BY <4>1, <5>2 DEF Fewer, p
      <4>2. CASE d # c  BY <1>12, <4>2, FewPlaces
      <4> QED BY <4>1, <4>2
    <3>4. Fewer(queue'["server"], queue["server"], Answer(x, d))  BY <1>10, FewPlaces
    <3> QED BY <3>1, <3>2, <3>3, <3>4
  <2> QED BY <1>11, <1>13, <2>1, OneMoves
<1>15. WireInv'  BY <1>2, <1>7, <1>12 DEF WireInv
<1>16. TypeOK'
  <2>1. serving' \subseteq Requests \X Conns  BY <1>12 DEF TypeOK
  <2> QED BY <1>10, <1>12, <2>1 DEF TypeOK
<1>17. ThreadInv' /\ ConnInv' /\ QueueInv' /\ StopInv' /\ KeptInv' /\ WayInv' /\ RequestInv'
  <2>1. /\ \A s \in Sides : manager'[s] <=> stopping'[s] = "no"
        /\ manager'["client"] => loop'["client"] = "running"
        /\ queue'["server"] \in Seq(ServerCallbacks)
    BY <1>10 DEF StopInv, QueueInv
  <2> QED BY <1>10, <1>14, <2>1, ServerMoves
<1> QED BY <1>14, <1>15, <1>16, <1>17

-----------------------------------------------------------------------------
(* Objects of the server, and its event loop                               *)

LEMMA ServeStep ==
  ASSUME RouterInv, NEW r \in Requests, NEW c \in Conns, Serve(r, c) PROVE RouterInv'
<1> USE DEF RouterInv
<1>1. /\ <<r, c>> \in serving /\ serving' = serving \ {<<r, c>>}
      /\ queue' = Posted("server", Answer(r, c)) \/ queue' = queue
      /\ UNCHANGED <<manager, stopping, loop, listening, socket, managed, known, wire, pending, sent,
                     thread, answers>>
  BY DEF Serve, connVars, Answer
<1>2. Answer(r, c) \in ServerCallbacks  BY DEF ServerCallbacks
<1>3. /\ queue' = [x \in Sides |-> queue'[x]]
      /\ queue'["client"] \in Seq(ClientCallbacks) /\ queue'["server"] \in Seq(ServerCallbacks)
      /\ queue'["client"] = queue["client"]
      /\ \A m : m # Answer(r, c) => Places(queue'["server"], m) = Places(queue["server"], m)
      /\ \E n : Places(queue'["server"], Answer(r, c)) \subseteq Places(queue["server"], Answer(r, c)) \cup {n}
  <2>1. CASE queue' = Posted("server", Answer(r, c))  BY <1>2, <2>1, ServerPosts
  <2>2. CASE queue' = queue
    <3>1. queue = [x \in Sides |-> queue[x]]  BY DEF TypeOK
    <3> QED BY <2>2, <3>1 DEF QueueInv
  <2> QED BY <1>1, <2>1, <2>2
<1>4. InOnePlace(r, c) /\ UnderWay(r, c)  BY <1>1 DEF PlaceInv, UnderWay
<1>5. InOnePlace(r, c)'
  <2>1. Asked(r, c) = {} /\ Replying(r, c) = {} /\ Replied(r, c) = {}
    BY <1>1, <1>4 DEF InOnePlace
  <2>2. Asked(r, c)' = {} /\ Replied(r, c)' = {}  BY <1>1, <2>1 DEF Asked, Replied
  <2>3. \E n : Replying(r, c)' \subseteq {n}  BY <1>3, <2>1 DEF Replying
  <2>4. <<r, c>> \notin serving'  BY <1>1
  <2> QED BY <2>2, <2>3, <2>4 DEF InOnePlace, AtMostOne
<1>6. PlaceInv' /\ \A x \in Requests, d \in Conns : UnderWay(x, d)' => UnderWay(x, d)
  <2>1. ASSUME NEW x \in Requests, NEW d \in Conns, <<x, d>> # <<r, c>>
        PROVE  Fewer(queue'["server"], queue["server"], Answer(x, d))
    <3>1. Answer(x, d) # Answer(r, c)  BY <2>1, Distinct
    <3> QED BY <1>3, <3>1 DEF Fewer
  <2> QED BY <1>1, <1>4, <1>5, <2>1, FewPlaces, OneMoves
<1>7. TypeOK'
  <2>1. queue' \in [Sides -> Seq([do : {"closeAll", "stop", "add", "disconnect", "send"},
                                   conn : Conns \cup {NoConn}, msg : Messages])]
    BY <1>3, QueuesTyped
  <2> QED BY <1>1, <2>1 DEF TypeOK
<1>8. WireInv'  BY <1>1 DEF WireInv
<1>9. ThreadInv' /\ ConnInv' /\ QueueInv' /\ StopInv' /\ KeptInv' /\ WayInv' /\ RequestInv'
  <2>1. /\ \A s \in Sides : manager'[s] <=> stopping'[s] = "no"
        /\ manager'["client"] => loop'["client"] = "running"
    BY <1>1 DEF StopInv
  <2> QED BY <1>1, <1>3, <1>6, <2>1, ServerMoves
<1> QED BY <1>6, <1>7, <1>8, <1>9

(* What is left of the queue of side s when its first callback runs.       *)
LEMMA Runs1 ==
  ASSUME RouterInv, NEW s \in Sides, NEW n \in 1 .. Len(queue[s]), queue[s] # <<>>,
         queue' = [queue EXCEPT ![s] = SubSeq(@, 2, n)]
  PROVE  /\ queue' = [x \in Sides |-> queue'[x]]
         /\ queue'["client"] \in Seq(ClientCallbacks) /\ queue'["server"] \in Seq(ServerCallbacks)
         /\ \A x \in Sides \ {s} : queue'[x] = queue[x]
         /\ \A m : \A i \in Places(queue'[s], m) : i + 1 \in Places(queue[s], m)
         /\ \A x \in Sides : \A m : Fewer(queue'[x], queue[x], m)
         /\ \A m : Head(queue[s]) = m /\ AtMostOne(Places(queue[s], m)) => Places(queue'[s], m) = {}
<1> DEFINE C == IF s = "client" THEN ClientCallbacks ELSE ServerCallbacks
<1>1. queue[s] \in Seq(C)  BY DEF RouterInv, QueueInv, Sides
<1> HIDE DEF C
<1>2. /\ SubSeq(queue[s], 2, n) \in Seq(C)
      /\ \A m : /\ \A i \in Places(SubSeq(queue[s], 2, n), m) : i + 1 \in Places(queue[s], m)
                /\ Fewer(SubSeq(queue[s], 2, n), queue[s], m)
                /\ Head(queue[s]) = m /\ AtMostOne(Places(queue[s], m))
                     => Places(SubSeq(queue[s], 2, n), m) = {}
  BY <1>1, PlacesOfRest
<1>3. queue = [x \in Sides |-> queue[x]]  BY DEF RouterInv, TypeOK
<1>4. queue' = [x \in Sides |-> queue'[x]] /\ \A x \in Sides \ {s} : queue'[x] = queue[x]
  BY <1>3
<1>5. queue'[s] = SubSeq(queue[s], 2, n)  BY <1>3
<1>6. queue'["client"] \in Seq(ClientCallbacks)
  <2>1. CASE s = "client"  BY <1>2, <1>5, <2>1 DEF C
  <2>2. CASE s # "client"  BY <1>4, <2>2 DEF RouterInv, QueueInv, Sides
  <2> QED BY <2>1, <2>2
<1>7. queue'["server"] \in Seq(ServerCallbacks)
  <2>1. CASE s = "server"
    <3>1. s # "client"  BY <2>1
    <3> QED BY <1>2, <1>5, <2>1, <3>1 DEF C
  <2>2. CASE s # "server"  BY <1>4, <2>2 DEF RouterInv, QueueInv, Sides
  <2> QED BY <2>1, <2>2
<1>8. ASSUME NEW x \in Sides, NEW m PROVE Fewer(queue'[x], queue[x], m)
  <2>1. CASE x = s  BY <1>2, <1>5, <2>1
  <2>2. CASE x # s  BY <1>4, <2>2, FewPlaces
  <2> QED BY <2>1, <2>2
<1>9. /\ \A m : \A i \in Places(queue'[s], m) : i + 1 \in Places(queue[s], m)
      /\ \A m : Head(queue[s]) = m /\ AtMostOne(Places(queue[s], m)) => Places(queue'[s], m) = {}
  BY <1>2, <1>5
<1> QED BY <1>4, <1>6, <1>7, <1>8, <1>9

LEMMA PoppedIs ==
  ASSUME RouterInv, NEW s \in Sides, NEW do, Runs(s, do), Popped(s)
  PROVE  /\ queue[s] # <<>> /\ Head(queue[s]).do = do
         /\ queue[s] \in Seq(IF s = "client" THEN ClientCallbacks ELSE ServerCallbacks)
         /\ Head(queue[s]) \in IF s = "client" THEN ClientCallbacks ELSE ServerCallbacks
         /\ \E n \in 1 .. Len(queue[s]) : queue' = [queue EXCEPT ![s] = SubSeq(@, 2, n)]
         /\ queue'[s] = Tail(queue[s])
<1> DEFINE C == IF s = "client" THEN ClientCallbacks ELSE ServerCallbacks
<1>1. queue[s] \in Seq(C)  BY DEF RouterInv, QueueInv, Sides
<1>2. queue[s] # <<>> /\ Head(queue[s]).do = do /\ queue' = [queue EXCEPT ![s] = Tail(@)]
  BY DEF Runs, Popped
<1> HIDE DEF C
<1>3. Head(queue[s]) \in C  BY <1>1, <1>2, HeadLeaves
<1>4. Len(queue[s]) \in 1 .. Len(queue[s]) /\ Tail(queue[s]) = SubSeq(queue[s], 2, Len(queue[s]))
  BY <1>1, <1>2, PlacesOfTail
<1>5. queue = [x \in Sides |-> queue[x]]  BY DEF RouterInv, TypeOK
<1>6. queue' = [queue EXCEPT ![s] = SubSeq(@, 2, Len(queue[s]))]  BY <1>2, <1>4, <1>5
<1>7. queue'[s] = Tail(queue[s])  BY <1>2, <1>5
<1> QED BY <1>1, <1>2, <1>3, <1>4, <1>6, <1>7 DEF C

LEMMA RunSendReplyStep ==
  ASSUME RouterInv, RunSendReply PROVE RouterInv'
<1> USE DEF RouterInv
<1>1. "server" \in Sides /\ "client" \in Sides /\ "client" # "server"  BY DEF Sides
<1>2. PICK s \in Sides : s = "server"  BY <1>1
<1>3. Runs(s, "send") /\ Popped(s)  BY <1>2 DEF RunSendReply
<1>4. /\ queue[s] # <<>> /\ Head(queue[s]).do = "send"
      /\ Head(queue[s]) \in IF s = "client" THEN ClientCallbacks ELSE ServerCallbacks
      /\ \E n \in 1 .. Len(queue[s]) : queue' = [queue EXCEPT ![s] = SubSeq(@, 2, n)]
      /\ queue[s] \in Seq(IF s = "client" THEN ClientCallbacks ELSE ServerCallbacks)
  BY <1>3, PoppedIs
<1>5. /\ queue' = [x \in Sides |-> queue'[x]]
      /\ queue'["client"] \in Seq(ClientCallbacks) /\ queue'["server"] \in Seq(ServerCallbacks)
      /\ \A x \in Sides \ {s} : queue'[x] = queue[x]
      /\ \A x \in Sides : \A m : Fewer(queue'[x], queue[x], m)
      /\ \A m : Head(queue[s]) = m /\ AtMostOne(Places(queue[s], m)) => Places(queue'[s], m) = {}
  BY <1>4, Runs1
<1>6. /\ queue'["client"] = queue["client"]
      /\ \A m : Fewer(queue'["server"], queue["server"], m)
      /\ \A m : Head(queue["server"]) = m /\ AtMostOne(Places(queue["server"], m))
                  => Places(queue'["server"], m) = {}
      /\ Head(queue["server"]) \in ServerCallbacks /\ Head(queue["server"]).do = "send"
      /\ queue["server"] \in Seq(ServerCallbacks) /\ queue["server"] # <<>>
  BY <1>1, <1>2, <1>4, <1>5
<1>7. PICK r \in Requests, c \in Conns : Head(queue["server"]) = Answer(r, c)
  BY <1>6 DEF ServerCallbacks, CloseAll, StopLoop, Callback
<1>8. /\ Answer(r, c).conn = c /\ Answer(r, c).msg = Reply(r)
      /\ Reply(r) \in ToClient /\ Reply(r) \in Messages
  BY DEF Answer, Callback, ToClient, Messages
<1> DEFINE p == wire[c]["client"]
<1>9. p \in Seq(ToClient) /\ p \in Seq(Messages)  BY <1>1 DEF TypeOK, WireInv
<1>10. /\ wire' = wire \/ wire' = [wire EXCEPT ![c]["client"] = Append(p, Reply(r))]
       /\ UNCHANGED <<manager, stopping, loop, listening, socket, managed, known, pending, serving,
                      sent, thread, answers>>
  <2>1. [wire EXCEPT ![c]["client"] = Append(p, Reply(r))] = [wire EXCEPT ![c]["client"] = Append(@, Reply(r))]
    BY DEF TypeOK
  <2> HIDE DEF p
  <2> QED BY <1>7, <1>8, <2>1 DEF RunSendReply, callVars
<1> HIDE DEF p
<1>11. /\ Append(p, Reply(r)) \in Seq(ToClient) /\ Append(p, Reply(r)) \in Seq(Messages)
       /\ \A m : m # Reply(r) => Places(Append(p, Reply(r)), m) = Places(p, m)
       /\ Places(Append(p, Reply(r)), Reply(r)) = Places(p, Reply(r)) \cup {Len(p) + 1}
  BY <1>8, <1>9, PlacesOfAppend
<1>12. /\ wire' \in [Conns -> [Sides -> Seq(Messages)]]
       /\ wire'[c]["client"] \in {p, Append(p, Reply(r))}
       /\ \A d \in Conns : wire'[d]["server"] = wire[d]["server"]
       /\ \A d \in Conns \ {c} : wire'[d]["client"] = wire[d]["client"]
  <2>1. CASE wire' = wire  BY <2>1 DEF TypeOK, p
  <2>2. CASE wire' = [wire EXCEPT ![c]["client"] = Append(p, Reply(r))]
    <3>1. /\ wire' \in [Conns -> [Sides -> Seq(Messages)]]
          /\ \A d \in Conns, x \in Sides :
               wire'[d][x] = IF d = c /\ x = "client" THEN Append(p, Reply(r)) ELSE wire[d][x]
      BY <1>1, <1>11, <2>2, Rewired DEF TypeOK
    <3> QED BY <1>1, <3>1
  <2> QED BY <1>10, <2>1, <2>2
<1>13. InOnePlace(r, c) /\ Replying(r, c) # {} /\ UnderWay(r, c)
  <2>1. 1 \in Places(queue["server"], Answer(r, c))  BY <1>6, <1>7, HeadLeaves
  <2> QED BY <2>1 DEF PlaceInv, Replying, UnderWay
<1>14. InOnePlace(r, c)'
  <2>1. /\ AtMostOne(Replying(r, c)) /\ <<r, c>> \notin serving
        /\ Asked(r, c) = {} /\ Replied(r, c) = {}
    BY <1>13 DEF InOnePlace
  <2>2. Replying(r, c)' = {}  BY <1>6, <1>7, <2>1 DEF Replying
  <2>3. Asked(r, c)' = {} /\ <<r, c>> \notin serving'  BY <1>10, <1>12, <2>1 DEF Asked
  <2>4. Places(p, Reply(r)) = {}  BY <2>1 DEF Replied, p
  <2>5. Replied(r, c)' = {} \/ Replied(r, c)' = {Len(p) + 1}
    BY <1>11, <1>12, <2>4 DEF Replied
  <2> QED BY <2>2, <2>3, <2>5 DEF InOnePlace, AtMostOne
<1>15. PlaceInv' /\ \A x \in Requests, d \in Conns : UnderWay(x, d)' => UnderWay(x, d)
  <2>1. ASSUME NEW x \in Requests, NEW d \in Conns, <<x, d>> # <<r, c>>
        PROVE  Fewer(wire'[d]["client"], wire[d]["client"], Reply(x))
    <3>1. CASE d = c
      <4>1. Reply(x) # Reply(r)  BY <2>1, <3>1, Distinct
      <4>2. Places(wire'[c]["client"], Reply(x)) = Places(p, Reply(x))  BY <1>11, <1>12, <4>1
      <4> QED BY <3>1, <4>2 DEF Fewer, p
    <3>2. CASE d # c  BY <1>12, <3>2, FewPlaces
    <3> QED BY <3>1, <3>2
  <2>2. \A x \in Requests, d \in Conns : Fewer(wire'[d]["server"], wire[d]["server"], Request(x))
    BY <1>12, FewPlaces
  <2> QED BY <1>6, <1>10, <1>13, <1>14, <2>1, <2>2, OneMoves
<1>16. WireInv'  BY <1>9, <1>11, <1>12 DEF WireInv
<1>17. TypeOK'
  <2>1. queue' \in [Sides -> Seq([do : {"closeAll", "stop", "add", "disconnect", "send"},
                                   conn : Conns \cup {NoConn}, msg : Messages])]
    BY <1>5, QueuesTyped
  <2> QED BY <1>10, <1>12, <2>1 DEF TypeOK
<1>18. ThreadInv' /\ ConnInv' /\ QueueInv' /\ StopInv' /\ KeptInv' /\ WayInv' /\ RequestInv'
  <2>1. /\ \A x \in Sides : manager'[x] <=> stopping'[x] = "no"
        /\ manager'["client"] => loop'["client"] = "running"
    BY <1>10 DEF StopInv
  <2> QED BY <1>5, <1>6, <1>10, <1>15, <2>1, ServerMoves
<1> QED BY <1>15, <1>16, <1>17, <1>18

LEMMA RunStopStep ==
  ASSUME RouterInv, NEW s \in Sides, RunStop(s) PROVE RouterInv'
<1> USE DEF RouterInv
<1>1. /\ queue[s] # <<>> /\ Head(queue[s]).do = "stop"
      /\ loop' = [loop EXCEPT ![s] = "ending"]
      /\ \E n \in 1 .. Len(queue[s]) : queue' = [queue EXCEPT ![s] = SubSeq(@, 2, n)]
      /\ UNCHANGED <<manager, stopping, listening, socket, managed, known, wire, pending, serving,
                     sent, thread, answers>>
  BY DEF RunStop, Runs, connVars, callVars
<1>2. /\ queue' = [x \in Sides |-> queue'[x]]
      /\ queue'["client"] \in Seq(ClientCallbacks) /\ queue'["server"] \in Seq(ServerCallbacks)
      /\ \A x \in Sides \ {s} : queue'[x] = queue[x]
      /\ \A m : \A i \in Places(queue'[s], m) : i + 1 \in Places(queue[s], m)
      /\ \A x \in Sides : \A m : Fewer(queue'[x], queue[x], m)
  BY <1>1, Runs1
<1>3. "client" \in Sides /\ "server" \in Sides  BY DEF Sides
<1>4. TypeOK'
  <2>1. queue' \in [Sides -> Seq([do : {"closeAll", "stop", "add", "disconnect", "send"},
                                   conn : Conns \cup {NoConn}, msg : Messages])]
    BY <1>2, QueuesTyped
  <2>2. loop' \in [Sides -> {"running", "ending", "finished"}]  BY <1>1 DEF TypeOK
  <2> QED BY <1>1, <2>1, <2>2 DEF TypeOK
<1>5. ThreadInv'  BY <1>1, ThreadsGoOn
<1>6. ConnInv'  BY <1>1 DEF ConnInv
<1>7. QueueInv'  BY <1>1, <1>2, <1>3 DEF QueueInv, Fewer
<1>8. PlaceInv' /\ WireInv' /\ \A r \in Requests, d \in Conns : UnderWay(r, d)' => UnderWay(r, d)
  <2>1. WireInv'  BY <1>1 DEF WireInv
  <2> QED BY <1>1, <1>2, <1>3, <2>1, FewPlaces, NothingSetUnderWay
<1>9. \A r \in Requests : InQueue(r)' => InQueue(r)  BY <1>2, <1>3 DEF InQueue, Fewer
<1>10. WayInv' /\ RequestInv'  BY <1>1, <1>8, <1>9, WaitingGoesOn
<1>11. CASE s = "client"
  <2>1. 1 \in Places(queue["client"], StopLoop)
    <3>1. queue["client"] \in Seq(ClientCallbacks) /\ queue["client"] # <<>>
      BY <1>1, <1>11 DEF QueueInv
    <3>2. /\ Head(queue["client"]) \in ClientCallbacks
          /\ 1 \in Places(queue["client"], Head(queue["client"]))
      BY <3>1, HeadLeaves
    <3>3. Head(queue["client"]) = StopLoop
      BY <1>1, <1>11, <3>2 DEF ClientCallbacks, CloseAll, StopLoop, Add, Post, Callback
    <3> QED BY <3>2, <3>3
  <2>2. ~manager["client"]  BY <2>1 DEF StopInv
  <2>3. ASSUME NEW r \in Requests, sent[r] = "posted" PROVE ~InQueue(r)
    <3>1. ASSUME NEW j \in Places(queue["client"], Post(r)) PROVE FALSE
      <4>1. j < 1  BY <2>1, <2>3 DEF StopInv
      <4>2. j \in Nat \ {0}
        <5>1. queue["client"] \in Seq(ClientCallbacks)  BY DEF QueueInv
        <5> QED BY <5>1, LenProperties DEF Places
      <4> QED BY <4>1, <4>2
    <3> QED BY <3>1 DEF InQueue
  <2>4. KeptInv'  BY <1>1, <2>3, NothingForgotten
  <2>5. StopInv'
    <3>1. ASSUME NEW r \in Requests, sent'[r] = "posted" PROVE Places(queue'["client"], Post(r)) = {}
      BY <1>1, <1>9, <2>3, <3>1 DEF InQueue
    <3> QED BY <1>1, <2>2, <3>1 DEF StopInv
  <2> QED BY <1>4, <1>5, <1>6, <1>7, <1>8, <1>10, <2>4, <2>5
<1>12. CASE s = "server"
  <2>1. /\ queue'["client"] = queue["client"] /\ loop'["client"] = loop["client"]
    BY <1>1, <1>2, <1>3, <1>12 DEF TypeOK
  <2>2. StopInv'  BY <1>1, <2>1 DEF StopInv
  <2>3. KeptInv'  BY <1>1, <2>1 DEF KeptInv, InQueue
  <2> QED BY <1>4, <1>5, <1>6, <1>7, <1>8, <1>10, <2>2, <2>3
<1> QED BY <1>11, <1>12 DEF Sides

LEMMA FinishLoopStep ==
  ASSUME RouterInv, NEW s \in Sides, FinishLoop(s) PROVE RouterInv'
<1> USE DEF RouterInv
<1> DEFINE waiting == IF s = "client" THEN {t \in Threads : thread[t].at \in {"adding", "leaving"}} ELSE {}
           C == {thread[t].conn : t \in waiting} \ {NoConn}
<1>1. /\ loop[s] = "ending" /\ queue[s] = <<>>
      /\ loop' = [loop EXCEPT ![s] = "finished"]
      /\ thread' = [t \in Threads |-> IF t \in waiting THEN Idle ELSE thread[t]]
      /\ SocketsClosed("client", C)
      /\ UNCHANGED <<manager, stopping, queue, listening, known, pending, serving, sent, answers>>
  BY DEF FinishLoop, callVars
<1>2. C \in SUBSET Conns /\ "client" \in Sides  BY DEF TypeOK, Sides
<1>3. ASSUME NEW t \in waiting PROVE t \in Threads /\ s = "client"
  OBVIOUS
<1>4. ASSUME NEW c \in C PROVE \E t \in waiting : t \in Threads /\ thread[t].conn = c /\ c # NoConn
  OBVIOUS
<1>5. \A t \in waiting : thread[t].conn # NoConn => thread[t].conn \in C
  OBVIOUS
<1>6. \A t \in Threads : s = "client" /\ thread[t].at = "adding" => t \in waiting
  OBVIOUS
<1> HIDE DEF waiting, C
<1>7. /\ socket' \in [Conns -> [Sides -> {"none", "open", "closed"}]]
      /\ managed' \in [Conns -> [Sides -> BOOLEAN]]
      /\ wire' \in [Conns -> [Sides -> Seq(Messages)]]
      /\ \A d \in Conns : IF d \in C THEN socket'[d]["client"] = "closed" /\ managed'[d]["client"] = FALSE
                          ELSE /\ socket'[d]["client"] = socket[d]["client"]
                               /\ managed'[d]["client"] = managed[d]["client"]
      /\ \A d \in Conns, x \in Sides : wire'[d][x] \in {wire[d][x], <<>>}
  BY <1>1, <1>2, ClientSocketsClosed
<1>8. \A c \in C : ~managed[c]["client"]
  BY <1>4 DEF ThreadInv
<1>9. TypeOK'
  <2>1. thread' \in [Threads -> [at : {"idle", "routed", "greeting", "adding", "leaving"},
                                 conn : Conns \cup {NoConn}, of : Requests \cup {NoRequest}]]
    BY <1>1, IdleIs DEF TypeOK
  <2> QED BY <1>1, <1>7, <2>1 DEF TypeOK
<1>10. ThreadInv'
  <2>1. \A t \in Threads : thread'[t] = IF t \in waiting THEN Idle ELSE thread[t]  BY <1>1
  <2>2. ASSUME NEW t \in Threads, thread'[t].at \in {"greeting", "adding"}
        PROVE  /\ socket'[thread[t].conn]["client"] = socket[thread[t].conn]["client"]
               /\ managed'[thread[t].conn]["client"] = managed[thread[t].conn]["client"]
    <3>1. t \notin waiting /\ thread'[t] = thread[t]  BY <2>1, <2>2, IdleIs
    <3>2. thread[t].conn \in Conns  BY <2>2, <3>1 DEF ThreadInv
    <3>3. thread[t].conn \notin C
      <4>1. SUFFICES ASSUME thread[t].conn \in C PROVE FALSE  OBVIOUS
      <4>2. PICK u \in waiting : u \in Threads /\ thread[u].conn = thread[t].conn /\ thread[t].conn # NoConn
        BY <1>4, <4>1
      <4> QED BY <3>1, <4>2 DEF ThreadInv
    <3> QED BY <1>7, <3>2, <3>3
  <2> QED BY <1>1, <2>1, <2>2, ThreadsGoOn
<1>11. ConnInv'  BY <1>1, <1>7, <1>8 DEF ConnInv
<1>12. QueueInv'
  <2>1. CASE s = "client"
    <3>1. \A m : Places(queue'["client"], m) = {}  BY <1>1, <2>1, FewPlaces
    <3> QED BY <1>1, <3>1 DEF QueueInv, AtMostOne
  <2>2. CASE s # "client"
    <3>1. thread' = thread  BY <1>1, <1>3, <2>2 DEF TypeOK
    <3> QED BY <1>1, <3>1, QueueStays
  <2> QED BY <2>1, <2>2
<1>13. StopInv'
  <2>1. manager["client"] => loop'["client"] = "running"
    BY <1>1, <1>2 DEF StopInv, TypeOK
  <2> QED BY <1>1, <2>1 DEF StopInv
<1>14. PlaceInv' /\ WireInv' /\ \A r \in Requests, d \in Conns : UnderWay(r, d)' => UnderWay(r, d)
  BY <1>1, <1>7, MessagesLost
<1>15. WayInv' /\ RequestInv'  BY <1>1, <1>7, <1>14, WaitingGoesOn DEF InQueue
<1>16. KeptInv'  BY <1>1 DEF KeptInv, InQueue
<1> QED BY <1>9, <1>10, <1>11, <1>12, <1>13, <1>14, <1>15, <1>16

(* close_all of the server, or a connection that it loses.                 *)
LEMMA ServerClosesStep ==
  ASSUME RouterInv, RunCloseAll("server") \/ \E c \in Conns : ReadFails("server", c)
  PROVE  RouterInv'
<1> USE DEF RouterInv
<1>1. /\ \E C \in SUBSET Conns : SocketsClosed("server", C)
      /\ listening' \in BOOLEAN
      /\ UNCHANGED <<manager, stopping, loop, known, pending, serving, sent, thread, answers>>
  <2>1. CASE RunCloseAll("server")
    <3> DEFINE D == {c \in Conns : managed[c]["server"]} \cup
                    (IF listening THEN {c \in Conns : socket[c]["server"] = "none"
                                                      /\ socket[c]["client"] # "none"} ELSE {})
    <3>1. D \in SUBSET Conns  OBVIOUS
    <3>2. SocketsClosed("server", D)  BY <2>1 DEF RunCloseAll, ConnectionsClosed
    <3>3. UNCHANGED <<manager, stopping, loop, known, pending, serving, sent, thread, answers>>
      BY <2>1 DEF RunCloseAll, ConnectionsClosed, callVars
    <3>4. listening' \in BOOLEAN  BY <2>1 DEF RunCloseAll, TypeOK
    <3> HIDE DEF D
    <3> QED BY <3>1, <3>2, <3>3, <3>4
  <2>2. CASE \E c \in Conns : ReadFails("server", c)
    <3>1. PICK c \in Conns : ReadFails("server", c)  BY <2>2
    <3>2. {c} \in SUBSET Conns  OBVIOUS
    <3>3. SocketsClosed("server", {c})  BY <3>1 DEF ReadFails, ConnectionsClosed
    <3>4. UNCHANGED <<manager, stopping, loop, listening, known, pending, serving, sent, thread, answers>>
      BY <3>1 DEF ReadFails, ConnectionsClosed, loopVars, callVars
    <3> QED BY <3>2, <3>3, <3>4 DEF TypeOK
  <2> QED BY <2>1, <2>2
<1>2. /\ queue' = [x \in Sides |-> queue'[x]]
      /\ queue'["client"] \in Seq(ClientCallbacks) /\ queue'["server"] \in Seq(ServerCallbacks)
      /\ queue'["client"] = queue["client"]
      /\ \A m : Fewer(queue'["server"], queue["server"], m)
  <2>1. CASE RunCloseAll("server")
    <3>1. PICK s \in Sides : s = "server" /\ "client" \in Sides \ {s}  BY DEF Sides
    <3>2. Runs(s, "closeAll") /\ Popped(s)  BY <2>1, <3>1 DEF RunCloseAll
    <3>3. queue[s] # <<>> /\ \E n \in 1 .. Len(queue[s]) : queue' = [queue EXCEPT ![s] = SubSeq(@, 2, n)]
      BY <3>2, PoppedIs
    <3>4. /\ queue' = [x \in Sides |-> queue'[x]]
          /\ queue'["client"] \in Seq(ClientCallbacks) /\ queue'["server"] \in Seq(ServerCallbacks)
          /\ \A x \in Sides \ {s} : queue'[x] = queue[x]
          /\ \A x \in Sides : \A m : Fewer(queue'[x], queue[x], m)
      BY <3>3, Runs1
    <3> QED BY <3>1, <3>4
  <2>2. CASE \E c \in Conns : ReadFails("server", c)
    <3>1. queue' = queue  BY <2>2 DEF ReadFails, loopVars
    <3>2. queue = [x \in Sides |-> queue[x]]  BY DEF TypeOK
    <3> QED BY <3>1, <3>2, FewPlaces DEF QueueInv
  <2> QED BY <2>1, <2>2
<1>3. /\ socket' \in [Conns -> [Sides -> {"none", "open", "closed"}]]
      /\ managed' \in [Conns -> [Sides -> BOOLEAN]]
      /\ wire' \in [Conns -> [Sides -> Seq(Messages)]]
      /\ \A c \in Conns : /\ socket'[c]["client"] = socket[c]["client"]
                          /\ managed'[c]["client"] = managed[c]["client"]
      /\ \A c \in Conns, x \in Sides : wire'[c][x] \in {wire[c][x], <<>>}
  BY <1>1, ServerSocketsClosed
<1>4. TypeOK'
  <2>1. queue' \in [Sides -> Seq([do : {"closeAll", "stop", "add", "disconnect", "send"},
                                   conn : Conns \cup {NoConn}, msg : Messages])]
    BY <1>2, QueuesTyped
  <2> QED BY <1>1, <1>3, <2>1 DEF TypeOK
<1>5. PlaceInv' /\ \A r \in Requests, c \in Conns : UnderWay(r, c)' => UnderWay(r, c)
  <2>1. \A c \in Conns, x \in Sides : \A m : Fewer(wire'[c][x], wire[c][x], m)
    BY <1>3, FewPlaces
  <2> QED BY <1>1, <1>2, <2>1, NothingSetUnderWay DEF Sides
<1>6. WireInv'
  <2>1. <<>> \in Seq(ToClient)  BY EmptySeq
  <2> QED BY <1>3, <2>1 DEF WireInv, Sides
<1>7. ThreadInv' /\ ConnInv' /\ QueueInv' /\ StopInv' /\ KeptInv' /\ WayInv' /\ RequestInv'
  <2>1. /\ \A s \in Sides : manager'[s] <=> stopping'[s] = "no"
        /\ manager'["client"] => loop'["client"] = "running"
        /\ manager'["client"] => manager["client"]
    BY <1>1 DEF StopInv
  <2> QED BY <1>1, <1>2, <1>3, <1>5, <2>1, ServerMoves
<1> QED BY <1>4, <1>5, <1>6, <1>7

-----------------------------------------------------------------------------
(* The client closes connections                                           *)

(* The first callback of the client runs.                                  *)
LEMMA ClientRuns ==
  ASSUME RouterInv, NEW do, Runs("client", do), Popped("client")
  PROVE  /\ queue' = [x \in Sides |-> queue'[x]]
         /\ queue'["client"] \in Seq(ClientCallbacks) /\ queue'["server"] \in Seq(ServerCallbacks)
         /\ queue'["server"] = queue["server"]
         /\ Head(queue["client"]) \in ClientCallbacks /\ Head(queue["client"]).do = do
         /\ 1 \in Places(queue["client"], Head(queue["client"]))
         /\ \A m : Fewer(queue'["client"], queue["client"], m)
         /\ \A m : \A i \in Places(queue'["client"], m) : i + 1 \in Places(queue["client"], m)
         /\ \A m : Head(queue["client"]) = m /\ AtMostOne(Places(queue["client"], m))
                     => Places(queue'["client"], m) = {}
         /\ \A m : Places(queue["client"], m) # {} /\ Head(queue["client"]) # m
                     => Places(queue'["client"], m) # {}
<1>1. PICK s \in Sides : s = "client" /\ "server" \in Sides \ {s}  BY DEF Sides
<1>2. Runs(s, do) /\ Popped(s)  BY <1>1
<1>3. /\ queue[s] # <<>> /\ Head(queue[s]).do = do
      /\ queue[s] \in Seq(IF s = "client" THEN ClientCallbacks ELSE ServerCallbacks)
      /\ \E n \in 1 .. Len(queue[s]) : queue' = [queue EXCEPT ![s] = SubSeq(@, 2, n)]
      /\ queue'[s] = Tail(queue[s])
  BY <1>2, PoppedIs
<1>4. /\ queue' = [x \in Sides |-> queue'[x]]
      /\ queue'["client"] \in Seq(ClientCallbacks) /\ queue'["server"] \in Seq(ServerCallbacks)
      /\ \A x \in Sides \ {s} : queue'[x] = queue[x]
  BY <1>3, Runs1
<1>5. /\ queue["client"] \in Seq(ClientCallbacks) /\ queue["client"] # <<>>
      /\ queue'["client"] = Tail(queue["client"]) /\ Head(queue["client"]).do = do
  BY <1>1, <1>3
<1>6. /\ Head(queue["client"]) \in ClientCallbacks
      /\ 1 \in Places(queue["client"], Head(queue["client"]))
      /\ \A m : Fewer(queue'["client"], queue["client"], m)
      /\ \A m : \A i \in Places(queue'["client"], m) : i + 1 \in Places(queue["client"], m)
      /\ \A m : Head(queue["client"]) = m /\ AtMostOne(Places(queue["client"], m))
                  => Places(queue'["client"], m) = {}
      /\ \A m : Places(queue["client"], m) # {} /\ Head(queue["client"]) # m
                  => Places(queue'["client"], m) # {}
  <2>1. PICK q \in Seq(ClientCallbacks) : q = queue["client"] /\ q # <<>>  BY <1>5
  <2>2. /\ Head(q) \in ClientCallbacks /\ 1 \in Places(q, Head(q))
        /\ Tail(q) \in Seq(ClientCallbacks)
        /\ \A m : Fewer(Tail(q), q, m)
        /\ \A m : Head(q) = m /\ AtMostOne(Places(q, m)) => Places(Tail(q), m) = {}
        /\ \A m : Places(q, m) # {} /\ Head(q) # m => Places(Tail(q), m) # {}
        /\ \A m : \A i \in Places(Tail(q), m) : i + 1 \in Places(q, m)
    <3>1. Head(q) \in ClientCallbacks /\ 1 \in Places(q, Head(q))  BY <2>1, HeadLeaves
    <3>2. Tail(q) \in Seq(ClientCallbacks)  BY <2>1, HeadLeaves
    <3>3. \A m : Fewer(Tail(q), q, m)  BY <2>1, HeadLeaves
    <3>4. \A m : Head(q) = m /\ AtMostOne(Places(q, m)) => Places(Tail(q), m) = {}
      BY <2>1, HeadLeaves
    <3>5. \A m : Places(q, m) # {} /\ Head(q) # m => Places(Tail(q), m) # {}
      BY <2>1, HeadLeaves
    <3>6. \A m : \A i \in Places(Tail(q), m) : i + 1 \in Places(q, m)
      BY <2>1, HeadLeaves
    <3> QED BY <3>1, <3>2, <3>3, <3>4, <3>5, <3>6
  <2>3. queue'["client"] = Tail(q)  BY <1>5, <2>1
  <2> QED BY <2>1, <2>2, <2>3
<1> QED BY <1>1, <1>4, <1>5, <1>6

LEMMA ClientRan ==
  ASSUME RouterInv, NEW do, Runs("client", do), Popped("client"),
         UNCHANGED <<manager, stopping, loop>>,
         \A r \in Requests : sent'[r] = "posted" => sent[r] = "posted",
         \A t \in Threads :
           thread[t].at = "adding" /\ Places(queue'["client"], Add(thread[t].conn)) # {}
             => thread'[t] = thread[t]
  PROVE  /\ QueueInv' /\ StopInv'
         /\ \A r \in Requests : InQueue(r)' => InQueue(r)
         /\ \A r \in Requests : InQueue(r) /\ Head(queue["client"]) # Post(r) => InQueue(r)'
<1>1. /\ queue'["client"] \in Seq(ClientCallbacks) /\ queue'["server"] \in Seq(ServerCallbacks)
      /\ \A m : Fewer(queue'["client"], queue["client"], m)
      /\ \A m : \A i \in Places(queue'["client"], m) : i + 1 \in Places(queue["client"], m)
      /\ \A m : Places(queue["client"], m) # {} /\ Head(queue["client"]) # m
                  => Places(queue'["client"], m) # {}
  BY ClientRuns
<1>2. \A m : /\ Places(queue'["client"], m) # {} => Places(queue["client"], m) # {}
             /\ AtMostOne(Places(queue["client"], m)) => AtMostOne(Places(queue'["client"], m))
  BY <1>1 DEF Fewer
<1>3. QueueInv'  BY <1>1, <1>2 DEF RouterInv, QueueInv
<1>4. StopInv'
  <2>1. ASSUME NEW r \in Requests, sent'[r] = "posted",
               NEW i \in Places(queue'["client"], StopLoop), NEW j \in Places(queue'["client"], Post(r))
        PROVE  j < i
    <3>1. i + 1 \in Places(queue["client"], StopLoop) /\ j + 1 \in Places(queue["client"], Post(r))
      BY <1>1, <2>1
    <3>2. j + 1 < i + 1  BY <2>1, <3>1 DEF RouterInv, StopInv
    <3>3. i \in Nat /\ j \in Nat
      BY <1>1, <2>1, LenProperties DEF Places
    <3> QED BY <3>2, <3>3
  <2>2. manager["client"] => Places(queue'["client"], StopLoop) = {}
    BY <1>2 DEF RouterInv, StopInv
  <2> QED BY <2>1, <2>2 DEF RouterInv, StopInv
<1> QED BY <1>1, <1>2, <1>3, <1>4 DEF InQueue

(* Each request that waited on a closed connection is answered once.       *)
LEMMA ClosedAnswers ==
  ASSUME RouterInv, NEW C \in SUBSET Conns, ConnectionsClosed("client", C)
  PROVE  /\ SocketsClosed("client", C)
         /\ answers' \in [Requests -> Nat]
         /\ \A r \in Requests : answers'[r] = IF \E c \in C : r \in pending[c] THEN 1 ELSE answers[r]
         /\ pending' \in [Conns -> SUBSET Requests]
         /\ \A c \in Conns : pending'[c] = IF c \in C THEN {} ELSE pending[c]
<1>1. /\ SocketsClosed("client", C)
      /\ answers' = [r \in Requests |-> answers[r] + Cardinality({c \in C : r \in pending[c]})]
      /\ pending' = [c \in Conns |-> IF c \in C THEN {} ELSE pending[c]]
  BY DEF ConnectionsClosed
<1>2. pending \in [Conns -> SUBSET Requests] /\ answers \in [Requests -> Nat]
  BY DEF RouterInv, TypeOK
<1>3. ASSUME NEW r \in Requests
      PROVE  answers'[r] = (IF \E c \in C : r \in pending[c] THEN 1 ELSE answers[r]) /\ answers'[r] \in Nat
  <2> DEFINE k == Cardinality({c \in C : r \in pending[c]})
  <2>1. answers'[r] = answers[r] + k /\ answers[r] \in Nat  BY <1>1, <1>2
  <2>2. CASE \E c \in C : r \in pending[c]
    <3>1. PICK c \in C : r \in pending[c]  BY <2>2
    <3>2. answers[r] = 0 /\ {d \in C : r \in pending[d]} = {c}
      BY <3>1 DEF RouterInv, RequestInv
    <3>3. k = 1  BY <3>2, FS_Singleton
    <3> HIDE DEF k
    <3> QED BY <2>1, <2>2, <3>2, <3>3
  <2>3. CASE ~\E c \in C : r \in pending[c]
    <3>1. {d \in C : r \in pending[d]} = {}  BY <2>3
    <3>2. k = 0  BY <3>1, FS_EmptySet
    <3> HIDE DEF k
    <3> QED BY <2>1, <2>3, <3>2
  <2> QED BY <2>2, <2>3
<1>4. answers' \in [Requests -> Nat]  BY <1>1, <1>3
<1>5. pending' \in [Conns -> SUBSET Requests]  BY <1>1, <1>2
<1> QED BY <1>1, <1>3, <1>4, <1>5

LEMMA ClientCloses ==
  ASSUME RouterInv, NEW C \in SUBSET Conns, ConnectionsClosed("client", C),
         \A c \in C : managed[c]["client"],
         UNCHANGED <<serving, sent>>, queue'["server"] = queue["server"],
         \A t \in Threads : thread'[t] \in {thread[t], Idle},
         \A r \in Requests : InQueue(r)' <=> InQueue(r)
  PROVE  /\ ThreadInv' /\ ConnInv' /\ PlaceInv' /\ WireInv' /\ WayInv' /\ RequestInv' /\ KeptInv'
         /\ answers' \in [Requests -> Nat]
         /\ pending' \in [Conns -> SUBSET Requests]
         /\ socket' \in [Conns -> [Sides -> {"none", "open", "closed"}]]
         /\ managed' \in [Conns -> [Sides -> BOOLEAN]]
         /\ wire' \in [Conns -> [Sides -> Seq(Messages)]]
<1> USE DEF RouterInv
<1>1. /\ SocketsClosed("client", C)
      /\ answers' \in [Requests -> Nat]
      /\ \A r \in Requests : answers'[r] = IF \E c \in C : r \in pending[c] THEN 1 ELSE answers[r]
      /\ pending' \in [Conns -> SUBSET Requests]
      /\ \A c \in Conns : pending'[c] = IF c \in C THEN {} ELSE pending[c]
  BY ClosedAnswers
<1>2. "client" \in Sides  BY DEF Sides
<1>3. /\ socket' \in [Conns -> [Sides -> {"none", "open", "closed"}]]
      /\ managed' \in [Conns -> [Sides -> BOOLEAN]]
      /\ wire' \in [Conns -> [Sides -> Seq(Messages)]]
      /\ \A d \in Conns : IF d \in C THEN socket'[d]["client"] = "closed" /\ managed'[d]["client"] = FALSE
                          ELSE /\ socket'[d]["client"] = socket[d]["client"]
                               /\ managed'[d]["client"] = managed[d]["client"]
      /\ \A d \in Conns, x \in Sides : wire'[d][x] \in {wire[d][x], <<>>}
  BY <1>1, <1>2, ClientSocketsClosed
<1>4. ThreadInv'
  <2>1. ASSUME NEW t \in Threads, thread'[t].at \in {"greeting", "adding"}
        PROVE  /\ socket'[thread[t].conn]["client"] = socket[thread[t].conn]["client"]
               /\ managed'[thread[t].conn]["client"] = managed[thread[t].conn]["client"]
    <3>1. thread'[t] = thread[t]  BY <2>1, IdleIs
    <3>2. thread[t].conn \in Conns /\ thread[t].conn \notin C  BY <2>1, <3>1 DEF ThreadInv
    <3> QED BY <1>3, <3>2
  <2> QED BY <2>1, ThreadsGoOn
<1>5. ConnInv'  BY <1>1, <1>3 DEF ConnInv
<1>6. PlaceInv' /\ WireInv' /\ \A r \in Requests, d \in Conns : UnderWay(r, d)' => UnderWay(r, d)
  BY <1>3, MessagesLost
<1>7. WayInv'
  <2> SUFFICES ASSUME NEW r \in Requests, NEW c \in Conns, UnderWay(r, c)'
               PROVE  r \in pending'[c] \/ socket'[c]["client"] = "closed"
    BY DEF WayInv
  <2>1. r \in pending[c] \/ socket[c]["client"] = "closed"  BY <1>6 DEF WayInv
  <2> QED BY <1>1, <1>3, <2>1
<1>8. RequestInv'
  <2> SUFFICES ASSUME NEW r \in Requests
               PROVE  /\ sent'[r] = "no" => Untouched(r)' /\ ~InQueue(r)'
                      /\ InQueue(r)' => Untouched(r)'
                      /\ \A c \in Conns : r \in pending'[c] =>
                           answers'[r] = 0 /\ \A d \in Conns : r \in pending'[d] => d = c
                      /\ answers'[r] <= 1
    BY DEF RequestInv
  <2>1. Untouched(r) => Untouched(r)'  BY <1>1, <1>6 DEF Untouched
  <2>2. \A c \in Conns : r \in pending'[c] => r \in pending[c] /\ c \notin C
    BY <1>1
  <2>3. \A c \in Conns : r \in pending'[c] => answers'[r] = 0
    BY <1>1, <2>2 DEF RequestInv
  <2>4. answers'[r] <= 1  BY <1>1 DEF RequestInv
  <2> QED BY <2>1, <2>2, <2>3, <2>4 DEF RequestInv
<1>9. KeptInv'
  <2> SUFFICES ASSUME NEW r \in Requests, sent'[r] = "posted", answers'[r] = 0
               PROVE  InQueue(r)' \/ \E c \in Conns : r \in pending'[c]
    BY DEF KeptInv
  <2>1. answers[r] = 0 /\ \A c \in C : r \notin pending[c]  BY <1>1
  <2>2. InQueue(r) \/ \E c \in Conns : r \in pending[c]  BY <2>1 DEF KeptInv
  <2> QED BY <1>1, <2>1, <2>2
<1> QED BY <1>1, <1>3, <1>4, <1>5, <1>6, <1>7, <1>8, <1>9

(* close_all, and disconnect_from_peer of the one thread that waits.       *)
LEMMA ClientClosesStep ==
  ASSUME RouterInv, RunCloseAll("client") \/ RunDisconnect
  PROVE  RouterInv'
<1> USE DEF RouterInv
<1>1. PICK do \in {"closeAll", "disconnect"} : Runs("client", do) /\ Popped("client")
  BY DEF RunCloseAll, RunDisconnect
<1>2. PICK C \in SUBSET Conns : C = Connections /\ ConnectionsClosed("client", C)
  <2>1. CASE RunCloseAll("client")
    <3>1. {c \in Conns : managed[c]["client"]} \cup {} = Connections  BY DEF Connections
    <3>2. ConnectionsClosed("client", {c \in Conns : managed[c]["client"]} \cup {})
      BY <2>1 DEF RunCloseAll
    <3>3. ConnectionsClosed("client", Connections)  BY <3>1, <3>2
    <3> QED BY <3>3 DEF Connections
  <2>2. CASE RunDisconnect  BY <2>2 DEF RunDisconnect, Connections
  <2> QED BY <2>1, <2>2
<1>3. /\ UNCHANGED <<manager, stopping, loop, known, serving, sent>>
      /\ listening' \in BOOLEAN
      /\ thread' \in [Threads -> [at : {"idle", "routed", "greeting", "adding", "leaving"},
                                  conn : Conns \cup {NoConn}, of : Requests \cup {NoRequest}]]
      /\ \A t \in Threads : thread'[t] \in {thread[t], Idle}
      /\ \A t \in Threads : thread[t].at = "adding" => thread'[t] = thread[t]
  <2>1. CASE RunCloseAll("client")
    <3>1. UNCHANGED <<manager, stopping, loop, known, serving, sent, thread>> /\ listening' \in BOOLEAN
      BY <2>1 DEF RunCloseAll, callVars, TypeOK
    <3> QED BY <3>1 DEF TypeOK
  <2>2. CASE RunDisconnect
    <3>1. UNCHANGED <<manager, stopping, loop, known, serving, sent, listening>>
      BY <2>2 DEF RunDisconnect, callVars
    <3>2. PICK t \in Threads : thread[t].at = "leaving" /\ thread' = [thread EXCEPT ![t] = Idle]
      BY <2>2 DEF RunDisconnect
    <3>3. \A u \in Threads : thread'[u] = IF u = t THEN Idle ELSE thread[u]  BY <3>2 DEF TypeOK
    <3>4. thread' \in [Threads -> [at : {"idle", "routed", "greeting", "adding", "leaving"},
                                  conn : Conns \cup {NoConn}, of : Requests \cup {NoRequest}]]
      BY <3>2, IdleIs DEF TypeOK
    <3> QED BY <3>1, <3>2, <3>3, <3>4 DEF TypeOK
  <2> QED BY <2>1, <2>2
<1>4. /\ queue' = [x \in Sides |-> queue'[x]]
      /\ queue'["client"] \in Seq(ClientCallbacks) /\ queue'["server"] \in Seq(ServerCallbacks)
      /\ queue'["server"] = queue["server"]
      /\ Head(queue["client"]).do = do
  BY <1>1, ClientRuns
<1>5. \A r \in Requests : Head(queue["client"]) # Post(r)  BY <1>4 DEF Post, Callback
<1>6. /\ QueueInv' /\ StopInv'
      /\ \A r \in Requests : InQueue(r)' <=> InQueue(r)
  BY <1>1, <1>3, <1>5, ClientRan
<1>7. \A c \in C : managed[c]["client"]  BY <1>2 DEF Connections
<1>8. /\ ThreadInv' /\ ConnInv' /\ PlaceInv' /\ WireInv' /\ WayInv' /\ RequestInv' /\ KeptInv'
      /\ answers' \in [Requests -> Nat]
      /\ pending' \in [Conns -> SUBSET Requests]
      /\ socket' \in [Conns -> [Sides -> {"none", "open", "closed"}]]
      /\ managed' \in [Conns -> [Sides -> BOOLEAN]]
      /\ wire' \in [Conns -> [Sides -> Seq(Messages)]]
  BY <1>2, <1>3, <1>4, <1>6, <1>7, ClientCloses
<1>9. TypeOK'
  <2>1. queue' \in [Sides -> Seq([do : {"closeAll", "stop", "add", "disconnect", "send"},
                                   conn : Conns \cup {NoConn}, msg : Messages])]
    BY <1>4, QueuesTyped
  <2> QED BY <1>3, <1>8, <2>1 DEF TypeOK
<1> QED BY <1>6, <1>8, <1>9

LEMMA ClientReadFailsStep ==
  ASSUME RouterInv, NEW c \in Conns, ReadFails("client", c) PROVE RouterInv'
<1> USE DEF RouterInv
<1>1. /\ managed[c]["client"] /\ ConnectionsClosed("client", {c})
      /\ UNCHANGED <<manager, stopping, loop, queue, listening, known, serving, sent, thread>>
  BY DEF ReadFails, loopVars, callVars
<1>2. /\ {c} \in SUBSET Conns
      /\ \A r \in Requests : InQueue(r)' <=> InQueue(r)
      /\ \A d \in {c} : managed[d]["client"]
      /\ \A t \in Threads : thread'[t] \in {thread[t], Idle}
  BY <1>1 DEF InQueue
<1>3. /\ ThreadInv' /\ ConnInv' /\ PlaceInv' /\ WireInv' /\ WayInv' /\ RequestInv' /\ KeptInv'
      /\ answers' \in [Requests -> Nat]
      /\ pending' \in [Conns -> SUBSET Requests]
      /\ socket' \in [Conns -> [Sides -> {"none", "open", "closed"}]]
      /\ managed' \in [Conns -> [Sides -> BOOLEAN]]
      /\ wire' \in [Conns -> [Sides -> Seq(Messages)]]
  BY <1>1, <1>2, ClientCloses
<1>4. TypeOK'  BY <1>1, <1>3 DEF TypeOK
<1>5. QueueInv'  BY <1>1, QueueStays
<1>6. StopInv'  BY <1>1 DEF StopInv
<1> QED BY <1>3, <1>4, <1>5, <1>6

-----------------------------------------------------------------------------
(* The client makes a connection, sends a request and reads a reply        *)

(* The thread whose connection is added, or dropped, goes on.              *)
LEMMA RunAddStep ==
  ASSUME RouterInv, RunAdd PROVE RouterInv'
<1> USE DEF RouterInv
<1>1. Runs("client", "add") /\ Popped("client")  BY DEF RunAdd
<1>2. /\ queue' = [x \in Sides |-> queue'[x]]
      /\ queue'["client"] \in Seq(ClientCallbacks) /\ queue'["server"] \in Seq(ServerCallbacks)
      /\ queue'["server"] = queue["server"]
      /\ Head(queue["client"]) \in ClientCallbacks /\ Head(queue["client"]).do = "add"
      /\ 1 \in Places(queue["client"], Head(queue["client"]))
      /\ \A m : Head(queue["client"]) = m /\ AtMostOne(Places(queue["client"], m))
                  => Places(queue'["client"], m) = {}
  BY <1>1, ClientRuns
<1>3. PICK c \in Conns : Head(queue["client"]) = Add(c)
  BY <1>2 DEF ClientCallbacks, CloseAll, StopLoop, Post, Callback
<1>4. Head(queue["client"]).conn = c /\ c # NoConn /\ "client" \in Sides
  BY <1>3 DEF Add, Callback, Conns, NoConn, Sides
<1>5. Places(queue'["client"], Add(c)) = {}  BY <1>2, <1>3 DEF QueueInv
<1>6. PICK t \in Threads : thread[t].at = "adding" /\ thread[t].conn = c
  BY <1>2, <1>3 DEF QueueInv
<1>7. (CHOOSE u \in Threads : thread[u].conn = c) = t
  <2>1. \A u \in Threads : thread[u].conn = c => u = t  BY <1>4, <1>6 DEF ThreadInv
  <2> QED BY <1>6, <2>1
<1>8. /\ thread' = [thread EXCEPT ![t] = Idle]
      /\ \/ SocketsClosed("client", {c})
         \/ managed' = [managed EXCEPT ![c]["client"] = TRUE] /\ UNCHANGED <<socket, wire>>
      /\ UNCHANGED <<manager, stopping, loop, listening, known, pending, serving, sent, answers>>
  BY <1>4, <1>7 DEF RunAdd, callVars
<1>9. ~managed[c]["client"] /\ socket[c]["client"] = "open"  BY <1>6 DEF ThreadInv
<1>10. /\ socket' \in [Conns -> [Sides -> {"none", "open", "closed"}]]
       /\ managed' \in [Conns -> [Sides -> BOOLEAN]]
       /\ wire' \in [Conns -> [Sides -> Seq(Messages)]]
       /\ \A d \in Conns \ {c} : /\ socket'[d]["client"] = socket[d]["client"]
                                 /\ managed'[d]["client"] = managed[d]["client"]
       /\ managed'[c]["client"] => socket'[c]["client"] = "open"
       /\ \A d \in Conns : socket[d]["client"] = "closed" => socket'[d]["client"] = "closed"
       /\ \A d \in Conns, x \in Sides : wire'[d][x] \in {wire[d][x], <<>>}
  <2>1. CASE SocketsClosed("client", {c})
    <3>1. {c} \in SUBSET Conns  OBVIOUS
    <3>2. /\ socket' \in [Conns -> [Sides -> {"none", "open", "closed"}]]
          /\ managed' \in [Conns -> [Sides -> BOOLEAN]]
          /\ wire' \in [Conns -> [Sides -> Seq(Messages)]]
          /\ \A d \in Conns : IF d \in {c} THEN socket'[d]["client"] = "closed" /\ managed'[d]["client"] = FALSE
                              ELSE /\ socket'[d]["client"] = socket[d]["client"]
                                   /\ managed'[d]["client"] = managed[d]["client"]
          /\ \A d \in Conns, x \in Sides : wire'[d][x] \in {wire[d][x], <<>>}
      BY <2>1, <3>1, ClientSocketsClosed
    <3> QED BY <3>2
  <2>2. CASE managed' = [managed EXCEPT ![c]["client"] = TRUE] /\ UNCHANGED <<socket, wire>>
    BY <1>4, <1>9, <2>2 DEF TypeOK
  <2> QED BY <1>8, <2>1, <2>2
<1>11. \A u \in Threads : thread'[u] = IF u = t THEN Idle ELSE thread[u]
  BY <1>8 DEF TypeOK
<1>12. TypeOK'
  <2>1. queue' \in [Sides -> Seq([do : {"closeAll", "stop", "add", "disconnect", "send"},
                                   conn : Conns \cup {NoConn}, msg : Messages])]
    BY <1>2, QueuesTyped
  <2>2. thread' \in [Threads -> [at : {"idle", "routed", "greeting", "adding", "leaving"},
                                 conn : Conns \cup {NoConn}, of : Requests \cup {NoRequest}]]
    BY <1>8, IdleIs DEF TypeOK
  <2> QED BY <1>8, <1>10, <2>1, <2>2 DEF TypeOK
<1>13. ThreadInv'
  <2>1. ASSUME NEW u \in Threads, thread'[u].at \in {"greeting", "adding"}
        PROVE  /\ socket'[thread[u].conn]["client"] = socket[thread[u].conn]["client"]
               /\ managed'[thread[u].conn]["client"] = managed[thread[u].conn]["client"]
    <3>1. u # t  BY <1>11, <2>1, IdleIs
    <3>2. thread[u].conn \in Conns /\ thread[u].conn # c
      BY <1>4, <1>6, <1>11, <2>1, <3>1 DEF ThreadInv
    <3> QED BY <1>10, <3>2
  <2> QED BY <1>8, <1>11, <2>1, ThreadsGoOn
<1>14. ConnInv'
  <2>1. pending[c] = {}  BY <1>9 DEF ConnInv
  <2> QED BY <1>8, <1>10, <2>1 DEF ConnInv
<1>15. QueueInv' /\ StopInv'
  <2>1. ASSUME NEW u \in Threads, thread[u].at = "adding",
               Places(queue'["client"], Add(thread[u].conn)) # {}
        PROVE  thread'[u] = thread[u]
    BY <1>5, <1>6, <1>11, <2>1
  <2> QED BY <1>1, <1>8, <2>1, ClientRan
<1>16. \A r \in Requests : InQueue(r)' <=> InQueue(r)
  <2>1. ASSUME NEW u \in Threads, thread[u].at = "adding",
               Places(queue'["client"], Add(thread[u].conn)) # {}
        PROVE  thread'[u] = thread[u]
    BY <1>5, <1>6, <1>11, <2>1
  <2>2. \A r : Add(c) # Post(r)  BY Distinct
  <2> QED BY <1>1, <1>3, <1>8, <2>1, <2>2, ClientRan
<1>17. PlaceInv' /\ WireInv' /\ \A r \in Requests, d \in Conns : UnderWay(r, d)' => UnderWay(r, d)
  BY <1>2, <1>8, <1>10, MessagesLost
<1>18. WayInv' /\ RequestInv'  BY <1>8, <1>10, <1>16, <1>17, WaitingGoesOn
<1>19. KeptInv'  BY <1>8, <1>16, NothingForgotten
<1> QED BY <1>12, <1>13, <1>14, <1>15, <1>17, <1>18, <1>19

(* A callback that sends a request: the request leaves the queue.          *)
LEMMA RequestLeavesQueue ==
  ASSUME RouterInv, Runs("client", "send"), Popped("client"),
         UNCHANGED <<manager, stopping, loop, thread>>,
         \A r \in Requests : sent'[r] = "posted" => sent[r] = "posted"
  PROVE  /\ queue' = [x \in Sides |-> queue'[x]]
         /\ queue'["client"] \in Seq(ClientCallbacks) /\ queue'["server"] \in Seq(ServerCallbacks)
         /\ queue'["server"] = queue["server"]
         /\ QueueInv' /\ StopInv'
         /\ \E r \in Requests :
              /\ Head(queue["client"]) = Post(r) /\ InQueue(r) /\ ~InQueue(r)'
              /\ Untouched(r) /\ sent[r] # "no"
              /\ \A x \in Requests \ {r} : InQueue(x)' <=> InQueue(x)
<1>1. /\ queue' = [x \in Sides |-> queue'[x]]
      /\ queue'["client"] \in Seq(ClientCallbacks) /\ queue'["server"] \in Seq(ServerCallbacks)
      /\ queue'["server"] = queue["server"]
      /\ Head(queue["client"]) \in ClientCallbacks /\ Head(queue["client"]).do = "send"
      /\ 1 \in Places(queue["client"], Head(queue["client"]))
      /\ \A m : Head(queue["client"]) = m /\ AtMostOne(Places(queue["client"], m))
                  => Places(queue'["client"], m) = {}
  BY ClientRuns
<1>2. PICK r \in Requests : Head(queue["client"]) = Post(r)
  BY <1>1 DEF ClientCallbacks, CloseAll, StopLoop, Add, Callback
<1>3. InQueue(r) /\ ~InQueue(r)'  BY <1>1, <1>2 DEF InQueue, RouterInv, QueueInv
<1>4. Untouched(r) /\ sent[r] # "no"  BY <1>3 DEF RouterInv, RequestInv
<1>5. /\ QueueInv' /\ StopInv'
      /\ \A x \in Requests : InQueue(x)' => InQueue(x)
      /\ \A x \in Requests : InQueue(x) /\ Head(queue["client"]) # Post(x) => InQueue(x)'
  BY ClientRan
<1>6. \A x \in Requests \ {r} : InQueue(x)' <=> InQueue(x)
  BY <1>2, <1>5, Distinct
<1> QED BY <1>1, <1>2, <1>3, <1>4, <1>5, <1>6

LEMMA RunSendUnpicklableStep ==
  ASSUME RouterInv, RunSendUnpicklable PROVE RouterInv'
<1> USE DEF RouterInv
<1> DEFINE q == Head(queue["client"]).msg.of
<1>1. /\ Runs("client", "send") /\ Popped("client")
      /\ q \in Unpicklable /\ sent' = [sent EXCEPT ![q] = "dropped"]
      /\ UNCHANGED <<manager, stopping, loop, listening, socket, managed, known, wire, pending, serving,
                     thread, answers>>
  BY DEF RunSendUnpicklable, connVars
<1>2. \A r \in Requests : sent'[r] = IF r = q THEN "dropped" ELSE sent[r]
  BY <1>1 DEF TypeOK
<1> HIDE DEF q
<1>3. /\ queue' = [x \in Sides |-> queue'[x]]
      /\ queue'["client"] \in Seq(ClientCallbacks) /\ queue'["server"] \in Seq(ServerCallbacks)
      /\ queue'["server"] = queue["server"]
      /\ QueueInv' /\ StopInv'
      /\ \E r \in Requests :
           /\ Head(queue["client"]) = Post(r) /\ InQueue(r) /\ ~InQueue(r)'
           /\ Untouched(r) /\ sent[r] # "no"
           /\ \A x \in Requests \ {r} : InQueue(x)' <=> InQueue(x)
  BY <1>1, <1>2, RequestLeavesQueue
<1>4. PICK r \in Requests :
        /\ Head(queue["client"]) = Post(r) /\ InQueue(r) /\ ~InQueue(r)'
        /\ Untouched(r) /\ sent[r] # "no"
        /\ \A x \in Requests \ {r} : InQueue(x)' <=> InQueue(x)
  BY <1>3
<1>5. q = r  BY <1>4 DEF q, Post, Callback, Request
<1>6. TypeOK'
  <2>1. queue' \in [Sides -> Seq([do : {"closeAll", "stop", "add", "disconnect", "send"},
                                   conn : Conns \cup {NoConn}, msg : Messages])]
    BY <1>3, QueuesTyped
  <2>2. sent' \in [Requests -> {"no", "posted", "late", "dropped"}]  BY <1>1 DEF TypeOK
  <2> QED BY <1>1, <2>1, <2>2 DEF TypeOK
<1>7. ThreadInv'
  <2>1. ASSUME NEW t \in Threads, thread'[t].at = "routed" PROVE sent'[thread[t].of] = sent[thread[t].of]
    <3>1. thread[t].of \in Requests /\ thread[t].of # r  BY <1>1, <1>4, <2>1 DEF ThreadInv
    <3> QED BY <1>2, <1>5, <3>1
  <2> QED BY <1>1, <2>1, ThreadsGoOn
<1>8. ConnInv'  BY <1>1 DEF ConnInv
<1>9. PlaceInv' /\ WireInv' /\ \A x \in Requests, d \in Conns : UnderWay(x, d)' => UnderWay(x, d)
  BY <1>1, <1>3, NothingMoves
<1>10. WayInv' /\ RequestInv'
  <2>1. \A x \in Requests : sent'[x] = "no" => sent[x] = "no"  BY <1>2
  <2>2. \A x \in Requests : InQueue(x)' => InQueue(x)  BY <1>4
  <2> QED BY <1>1, <1>9, <2>1, <2>2, WaitingGoesOn
<1>11. KeptInv'
  <2>1. \A x \in Requests : sent'[x] = "posted" => sent[x] = "posted" /\ x # r  BY <1>2, <1>5
  <2> QED BY <1>1, <1>4, <2>1 DEF KeptInv
<1> QED BY <1>3, <1>6, <1>7, <1>8, <1>9, <1>10, <1>11

(* A request that cannot be sent is answered at once; one that is sent     *)
(* enters the table of the connection.                                     *)
LEMMA RunSendRequestStep ==
  ASSUME RouterInv, RunSendRequest PROVE RouterInv'
<1> USE DEF RouterInv
<1>1. /\ Runs("client", "send") /\ Popped("client")
      /\ UNCHANGED <<manager, stopping, loop, listening, socket, managed, known, serving, sent, thread>>
  BY DEF RunSendRequest, callVars
<1>2. /\ queue' = [x \in Sides |-> queue'[x]]
      /\ queue'["client"] \in Seq(ClientCallbacks) /\ queue'["server"] \in Seq(ServerCallbacks)
      /\ queue'["server"] = queue["server"]
      /\ QueueInv' /\ StopInv'
      /\ \E r \in Requests :
           /\ Head(queue["client"]) = Post(r) /\ InQueue(r) /\ ~InQueue(r)'
           /\ Untouched(r) /\ sent[r] # "no"
           /\ \A x \in Requests \ {r} : InQueue(x)' <=> InQueue(x)
  BY <1>1, RequestLeavesQueue
<1>3. PICK r \in Requests :
        /\ Head(queue["client"]) = Post(r) /\ InQueue(r) /\ ~InQueue(r)'
        /\ Untouched(r) /\ sent[r] # "no"
        /\ \A x \in Requests \ {r} : InQueue(x)' <=> InQueue(x)
  BY <1>2
<1>4. Head(queue["client"]).msg.of = r  BY <1>3 DEF Post, Callback, Request
<1>5. queue' \in [Sides -> Seq([do : {"closeAll", "stop", "add", "disconnect", "send"},
                                conn : Conns \cup {NoConn}, msg : Messages])]
  BY <1>2, QueuesTyped
<1>6. ThreadInv'  BY <1>1, ThreadsGoOn
<1>7. \/ answers' = [answers EXCEPT ![r] = @ + 1] /\ UNCHANGED <<wire, pending>>
      \/ \E c \in Connections :
           /\ wire' = wire \/ wire' = [wire EXCEPT ![c]["server"] = Append(@, Request(r))]
           /\ pending' = [pending EXCEPT ![c] = @ \cup {r}]
           /\ UNCHANGED answers
  <2>1. HasPeerContext => Connected \in Connections  BY DEF HasPeerContext, Connected
  <2>2. \/ answers' = [answers EXCEPT ![r] = @ + 1] /\ UNCHANGED <<wire, pending>>
        \/ /\ HasPeerContext
           /\ wire' = [wire EXCEPT ![Connected]["server"] = IF socket[Connected]["server"] = "closed" THEN @
                                                            ELSE Append(@, Request(r))]
           /\ pending' = [pending EXCEPT ![Connected] = @ \cup {r}]
           /\ UNCHANGED answers
    BY <1>4 DEF RunSendRequest
  <2>3. ASSUME NEW c \in Connections,
               wire' = [wire EXCEPT ![c]["server"] = IF socket[c]["server"] = "closed" THEN @
                                                     ELSE Append(@, Request(r))]
        PROVE  wire' = wire \/ wire' = [wire EXCEPT ![c]["server"] = Append(@, Request(r))]
    <3>1. wire = [wire EXCEPT ![c]["server"] = wire[c]["server"]]  BY DEF TypeOK, Sides, Connections
    <3> QED BY <2>3, <3>1
  <2> QED BY <2>1, <2>2, <2>3
<1>8. CASE answers' = [answers EXCEPT ![r] = @ + 1] /\ UNCHANGED <<wire, pending>>
  <2>1. /\ answers' \in [Requests -> Nat]
        /\ \A x \in Requests : answers'[x] = IF x = r THEN 1 ELSE answers[x]
    BY <1>3, <1>8 DEF TypeOK, Untouched
  <2>2. TypeOK'  BY <1>1, <1>5, <1>8, <2>1 DEF TypeOK
  <2>3. ConnInv'  BY <1>1, <1>8 DEF ConnInv
  <2>4. PlaceInv' /\ WireInv' /\ \A x \in Requests, d \in Conns : UnderWay(x, d)' => UnderWay(x, d)
    BY <1>1, <1>2, <1>8, NothingMoves
  <2>5. WayInv'  BY <1>1, <1>8, <2>4 DEF WayInv
  <2>6. RequestInv'
    <3> SUFFICES ASSUME NEW x \in Requests
                 PROVE  /\ sent'[x] = "no" => Untouched(x)' /\ ~InQueue(x)'
                        /\ InQueue(x)' => Untouched(x)'
                        /\ \A c \in Conns : x \in pending'[c] =>
                             answers'[x] = 0 /\ \A d \in Conns : x \in pending'[d] => d = c
                        /\ answers'[x] <= 1
      BY DEF RequestInv
    <3>1. CASE x = r  BY <1>1, <1>3, <1>8, <2>1, <3>1 DEF Untouched
    <3>2. CASE x # r
      <4>1. Untouched(x) => Untouched(x)'  BY <1>8, <2>1, <2>4, <3>2 DEF Untouched
      <4> QED BY <1>1, <1>3, <1>8, <2>1, <3>2, <4>1 DEF RequestInv
    <3> QED BY <3>1, <3>2
  <2>7. KeptInv'  BY <1>1, <1>3, <1>8, <2>1 DEF KeptInv
  <2> QED BY <1>2, <1>6, <2>2, <2>3, <2>4, <2>5, <2>6, <2>7
<1>9. ASSUME NEW c \in Connections,
             wire' = wire \/ wire' = [wire EXCEPT ![c]["server"] = Append(@, Request(r))],
             pending' = [pending EXCEPT ![c] = @ \cup {r}],
             UNCHANGED answers
      PROVE  RouterInv'
  <2>1. c \in Conns /\ managed[c]["client"] /\ "server" \in Sides /\ "client" # "server"
    BY DEF Connections, Sides
  <2>2. PICK q \in Seq(Messages) : q = wire[c]["server"]  BY <2>1 DEF TypeOK
  <2>3. Request(r) \in Messages  BY DEF Messages
  <2>4. /\ Append(q, Request(r)) \in Seq(Messages)
        /\ \A m : m # Request(r) => Places(Append(q, Request(r)), m) = Places(q, m)
        /\ Places(Append(q, Request(r)), Request(r)) = Places(q, Request(r)) \cup {Len(q) + 1}
    BY <2>3, PlacesOfAppend
  <2>5. /\ wire' \in [Conns -> [Sides -> Seq(Messages)]]
        /\ wire'[c]["server"] \in {q, Append(q, Request(r))}
        /\ \A d \in Conns : wire'[d]["client"] = wire[d]["client"]
        /\ \A d \in Conns \ {c} : wire'[d]["server"] = wire[d]["server"]
    <3>1. CASE wire' = wire  BY <2>2, <3>1 DEF TypeOK
    <3>2. CASE wire' = [wire EXCEPT ![c]["server"] = Append(@, Request(r))]
      <4>1. wire' = [wire EXCEPT ![c]["server"] = Append(q, Request(r))]
        BY <2>1, <2>2, <3>2 DEF TypeOK
      <4>2. /\ wire' \in [Conns -> [Sides -> Seq(Messages)]]
            /\ \A d \in Conns, x \in Sides :
                 wire'[d][x] = IF d = c /\ x = "server" THEN Append(q, Request(r)) ELSE wire[d][x]
        BY <2>1, <2>4, <4>1, Rewired DEF TypeOK
      <4> QED BY <2>1, <4>2 DEF Sides
    <3> QED BY <1>9, <3>1, <3>2
  <2>6. /\ pending' \in [Conns -> SUBSET Requests]
        /\ \A d \in Conns : pending'[d] = IF d = c THEN pending[c] \cup {r} ELSE pending[d]
    BY <1>9, <2>1 DEF TypeOK
  <2>7. TypeOK'  BY <1>1, <1>5, <1>9, <2>5, <2>6 DEF TypeOK
  <2>8. ConnInv'  BY <1>1, <2>1, <2>6 DEF ConnInv
  <2>9. WireInv'  BY <2>5 DEF WireInv
  <2>10. \A d \in Conns : /\ Asked(r, d) = {} /\ <<r, d>> \notin serving
                          /\ Replying(r, d) = {} /\ Replied(r, d) = {}
    BY <1>3 DEF Untouched, UnderWay
  <2>11. /\ Replying(r, c)' = {} /\ Replied(r, c)' = {} /\ <<r, c>> \notin serving'
         /\ Asked(r, c)' \subseteq {Len(q) + 1}
    <3>1. Places(q, Request(r)) = {}  BY <2>1, <2>2, <2>10 DEF Asked
    <3>2. Replying(r, c)' = {}  BY <1>2, <2>1, <2>10 DEF Replying
    <3>3. Replied(r, c)' = {}  BY <2>1, <2>5, <2>10 DEF Replied
    <3>4. Asked(r, c)' \subseteq {Len(q) + 1}  BY <2>4, <2>5, <3>1 DEF Asked
    <3> QED BY <1>1, <2>1, <2>10, <3>2, <3>3, <3>4
  <2>12. ASSUME NEW x \in Requests, NEW d \in Conns, <<x, d>> # <<r, c>>
         PROVE  InOnePlace(x, d)' /\ (UnderWay(x, d)' => UnderWay(x, d))
    <3>1. Fewer(wire'[d]["server"], wire[d]["server"], Request(x))
      <4>1. CASE d = c
        <5>1. Request(x) # Request(r)  BY <2>12, <4>1, Distinct
        <5>2. Places(wire'[c]["server"], Request(x)) = Places(q, Request(x))  BY <2>4, <2>5, <5>1
        <5> QED BY <2>2, <4>1, <5>2 DEF Fewer
      <4>2. CASE d # c  BY <2>5, <4>2, FewPlaces
      <4> QED BY <4>1, <4>2
    <3> QED BY <1>1, <1>2, <2>5, <3>1, FewPlaces, NotSetUnderWay DEF PlaceInv
  <2>13. PlaceInv'
    <3>1. InOnePlace(r, c)'  BY <2>11 DEF InOnePlace, AtMostOne
    <3> QED BY <2>12, <3>1 DEF PlaceInv
  <2>14. WayInv'
    <3> SUFFICES ASSUME NEW x \in Requests, NEW d \in Conns, UnderWay(x, d)'
                 PROVE  x \in pending'[d] \/ socket'[d]["client"] = "closed"
      BY DEF WayInv
    <3>1. CASE x = r /\ d = c  BY <2>6, <3>1
    <3>2. CASE ~(x = r /\ d = c)
      <4>1. UnderWay(x, d)  BY <2>12, <3>2
      <4>2. x \in pending[d] \/ socket[d]["client"] = "closed"  BY <4>1 DEF WayInv
      <4> QED BY <1>1, <2>6, <4>2
    <3> QED BY <3>1, <3>2
  <2>15. RequestInv'
    <3> SUFFICES ASSUME NEW x \in Requests
                 PROVE  /\ sent'[x] = "no" => Untouched(x)' /\ ~InQueue(x)'
                        /\ InQueue(x)' => Untouched(x)'
                        /\ \A e \in Conns : x \in pending'[e] =>
                             answers'[x] = 0 /\ \A d \in Conns : x \in pending'[d] => d = e
                        /\ answers'[x] <= 1
      BY DEF RequestInv
    <3>1. CASE x = r
      <4>1. answers'[r] = 0 /\ \A d \in Conns : r \in pending'[d] => d = c
        BY <1>3, <1>9, <2>6 DEF Untouched
      <4> QED BY <1>1, <1>3, <3>1, <4>1
    <3>2. CASE x # r
      <4>1. \A d \in Conns : x \in pending'[d] <=> x \in pending[d]  BY <2>6, <3>2
      <4>2. Untouched(x) => Untouched(x)'  BY <1>9, <2>12, <3>2, <4>1 DEF Untouched
      <4> QED BY <1>1, <1>3, <1>9, <3>2, <4>1, <4>2 DEF RequestInv
    <3> QED BY <3>1, <3>2
  <2>16. KeptInv'
    <3> SUFFICES ASSUME NEW x \in Requests, sent'[x] = "posted", answers'[x] = 0
                 PROVE  InQueue(x)' \/ \E d \in Conns : x \in pending'[d]
      BY DEF KeptInv
    <3>1. CASE x = r  BY <2>1, <2>6, <3>1
    <3>2. CASE x # r
      <4>1. InQueue(x) \/ \E d \in Conns : x \in pending[d]  BY <1>1, <1>9 DEF KeptInv
      <4> QED BY <1>3, <2>6, <3>2, <4>1
    <3> QED BY <3>1, <3>2
  <2> QED BY <1>2, <1>6, <2>7, <2>8, <2>9, <2>13, <2>14, <2>15, <2>16
<1> QED BY <1>7, <1>8, <1>9

(* A reply is one for a request that waits for it.                         *)
LEMMA ReadReplyStep ==
  ASSUME RouterInv, NEW c \in Conns, ReadReply(c) PROVE RouterInv'
<1> USE DEF RouterInv
<1>1. "client" \in Sides /\ "server" \in Sides /\ "client" # "server"  BY DEF Sides
<1>2. PICK p \in Seq(ToClient) : p = wire[c]["client"] /\ p \in Seq(Messages)
  BY <1>1 DEF TypeOK, WireInv
<1>3. p # <<>> /\ managed[c]["client"]  BY <1>2 DEF ReadReply, Readable
<1>4. /\ Head(p) \in ToClient /\ 1 \in Places(p, Head(p))
      /\ Tail(p) \in Seq(ToClient)
      /\ \A m : Fewer(Tail(p), p, m)
  BY <1>3, HeadLeaves
<1>5. \A m : Head(p) = m /\ AtMostOne(Places(p, m)) => Places(Tail(p), m) = {}
  BY <1>3, HeadLeaves
<1>6. Tail(p) \in Seq(Messages)  BY <1>2, <1>3, HeadLeaves
<1>7. PICK r \in Requests \cup {NoRequest} : r = Head(p).of /\ Head(p) \in {Hello, Reply(r)} /\ (r = NoRequest => Head(p) = Hello)
  BY <1>4, RequestsAssumption DEF ToClient, Hello, Reply
<1>8. /\ wire' = [wire EXCEPT ![c]["client"] = Tail(p)]
      /\ pending' = [pending EXCEPT ![c] = @ \ {r}]
      /\ answers' = [answers EXCEPT ![r] = @ + 1]
      /\ UNCHANGED <<manager, stopping, loop, queue, listening, socket, managed, known, serving, sent, thread>>
  <2>1. wire' = [wire EXCEPT ![c]["client"] = Tail(@)]  BY DEF ReadReply
  <2>2. wire' = [wire EXCEPT ![c]["client"] = Tail(p)]  BY <1>1, <1>2, <2>1 DEF TypeOK
  <2>3. UNCHANGED <<manager, stopping, loop, queue, listening, socket, managed, known, serving, sent, thread>>
    BY DEF ReadReply, loopVars, callVars
  <2> QED BY <1>2, <1>7, <2>2, <2>3 DEF ReadReply
<1>9. /\ wire' \in [Conns -> [Sides -> Seq(Messages)]]
      /\ \A d \in Conns, x \in Sides :
           wire'[d][x] = IF d = c /\ x = "client" THEN Tail(p) ELSE wire[d][x]
  BY <1>1, <1>6, <1>8, Rewired DEF TypeOK
<1>10. /\ pending' \in [Conns -> SUBSET Requests]
       /\ \A d \in Conns : pending'[d] = IF d = c THEN pending[c] \ {r} ELSE pending[d]
       /\ answers' \in [Requests -> Nat]
       /\ \A x \in Requests : answers'[x] = IF x = r THEN answers[x] + 1 ELSE answers[x]
  <2>1. pending \in [Conns -> SUBSET Requests] /\ answers \in [Requests -> Nat]  BY DEF TypeOK
  <2>2. \A d \in Conns : pending'[d] = IF d = c THEN pending[c] \ {r} ELSE pending[d]  BY <1>8, <2>1
  <2>3. pending' \in [Conns -> SUBSET Requests]  BY <1>8, <2>1
  <2>4. \A x \in Requests : answers'[x] = IF x = r THEN answers[x] + 1 ELSE answers[x]  BY <1>8, <2>1
  <2>5. answers' = [x \in Requests |-> answers'[x]]  BY <1>8, <2>1
  <2>6. \A x \in Requests : answers'[x] \in Nat  BY <2>1, <2>4
  <2> QED BY <2>2, <2>3, <2>4, <2>5, <2>6
<1>11. TypeOK'  BY <1>8, <1>9, <1>10 DEF TypeOK
<1>12. ThreadInv'  BY <1>8, ThreadsGoOn
<1>13. ConnInv'  BY <1>8, <1>10 DEF ConnInv
<1>14. QueueInv'  BY <1>8, QueueStays
<1>15. StopInv'  BY <1>8 DEF StopInv
<1>16. WireInv'  BY <1>1, <1>4, <1>9 DEF WireInv
<1>17. PlaceInv' /\ \A x \in Requests, d \in Conns : UnderWay(x, d)' => UnderWay(x, d)
  <2>1. \A d \in Conns, x \in Sides : \A m : Fewer(wire'[d][x], wire[d][x], m)
    BY <1>2, <1>4, <1>9, FewPlaces
  <2> QED BY <1>1, <1>8, <2>1, FewPlaces, NothingSetUnderWay
<1>18. CASE r = NoRequest
  <2>1. r \notin Requests  BY <1>18, RequestsAssumption
  <2>2. \A d \in Conns : pending'[d] = pending[d]
    <3>1. pending[c] \subseteq Requests  BY DEF TypeOK
    <3>2. pending[c] \ {r} = pending[c]  BY <2>1, <3>1
    <3> QED BY <1>10, <3>2
  <2>3. UNCHANGED <<pending, answers>>  BY <1>10, <2>1, <2>2 DEF TypeOK
  <2>4. WayInv' /\ RequestInv'  BY <1>8, <1>17, <2>3, WaitingGoesOn DEF InQueue
  <2>5. KeptInv'  BY <1>8, <2>3, NothingForgotten DEF InQueue
  <2> QED BY <1>11, <1>12, <1>13, <1>14, <1>15, <1>16, <1>17, <2>4, <2>5
<1>19. CASE r \in Requests
  <2>1. Head(p) = Reply(r)
    <3>1. r # NoRequest  BY <1>19, RequestsAssumption
    <3> QED BY <1>7, <3>1 DEF Hello
  <2>2. Replied(r, c) # {} /\ UnderWay(r, c) /\ InOnePlace(r, c)
    BY <1>2, <1>4, <1>19, <2>1 DEF Replied, UnderWay, PlaceInv
  <2>3. r \in pending[c] /\ answers[r] = 0 /\ \A d \in Conns : r \in pending[d] => d = c
    <3>1. socket[c]["client"] # "closed"  BY <1>3 DEF ConnInv
    <3>2. r \in pending[c]  BY <1>19, <2>2, <3>1 DEF WayInv
    <3> QED BY <1>19, <3>2 DEF RequestInv
  <2>4. ~UnderWay(r, c)'
    <3>1. /\ AtMostOne(Replied(r, c)) /\ Asked(r, c) = {} /\ <<r, c>> \notin serving
          /\ Replying(r, c) = {}
      BY <2>2 DEF InOnePlace
    <3>2. Replied(r, c)' = {}  BY <1>1, <1>2, <1>5, <1>9, <2>1, <3>1 DEF Replied
    <3>3. Asked(r, c)' = {}  BY <1>1, <1>9, <3>1 DEF Asked
    <3>4. Replying(r, c)' = {} /\ <<r, c>> \notin serving'  BY <1>8, <3>1 DEF Replying
    <3> QED BY <3>2, <3>3, <3>4 DEF UnderWay
  <2>5. WayInv'
    <3> SUFFICES ASSUME NEW x \in Requests, NEW d \in Conns, UnderWay(x, d)'
                 PROVE  x \in pending'[d] \/ socket'[d]["client"] = "closed"
      BY DEF WayInv
    <3>1. ~(x = r /\ d = c)  BY <2>4
    <3>2. x \in pending[d] \/ socket[d]["client"] = "closed"  BY <1>17 DEF WayInv
    <3> QED BY <1>8, <1>10, <3>1, <3>2
  <2>6. RequestInv'
    <3> SUFFICES ASSUME NEW x \in Requests
                 PROVE  /\ sent'[x] = "no" => Untouched(x)' /\ ~InQueue(x)'
                        /\ InQueue(x)' => Untouched(x)'
                        /\ \A e \in Conns : x \in pending'[e] =>
                             answers'[x] = 0 /\ \A d \in Conns : x \in pending'[d] => d = e
                        /\ answers'[x] <= 1
      BY DEF RequestInv
    <3>1. InQueue(x)' <=> InQueue(x)  BY <1>8 DEF InQueue
    <3>2. CASE x = r
      <4>1. sent[r] # "no" /\ ~InQueue(r)  BY <1>19, <2>3 DEF RequestInv, Untouched
      <4>2. \A d \in Conns : r \notin pending'[d]  BY <1>10, <2>3
      <4>3. answers'[r] = 1  BY <1>10, <1>19, <2>3
      <4> QED BY <1>8, <3>1, <3>2, <4>1, <4>2, <4>3
    <3>3. CASE x # r
      <4>1. /\ answers'[x] = answers[x]
            /\ \A d \in Conns : x \in pending'[d] <=> x \in pending[d]
        BY <1>10, <3>3
      <4>2. Untouched(x) => Untouched(x)'  BY <1>17, <4>1 DEF Untouched
      <4> QED BY <1>8, <3>1, <4>1, <4>2 DEF RequestInv
    <3> QED BY <3>2, <3>3
  <2>7. KeptInv'
    <3> SUFFICES ASSUME NEW x \in Requests, sent'[x] = "posted", answers'[x] = 0
                 PROVE  InQueue(x)' \/ \E d \in Conns : x \in pending'[d]
      BY DEF KeptInv
    <3>1. x # r /\ answers[x] = 0  BY <1>10, <1>19, <2>3
    <3>2. InQueue(x) \/ \E d \in Conns : x \in pending[d]  BY <1>8, <3>1 DEF KeptInv
    <3> QED BY <1>8, <1>10, <3>1, <3>2 DEF InQueue
  <2> QED BY <1>11, <1>12, <1>13, <1>14, <1>15, <1>16, <1>17, <2>5, <2>6, <2>7
<1> QED BY <1>18, <1>19

-----------------------------------------------------------------------------
(* The theorems                                                            *)

LEMMA RouterStarts ==
  Init => RouterInv
<1> SUFFICES ASSUME Init PROVE RouterInv  OBVIOUS
<1> USE DEF Init
<1>1. \A q \in {<<>>} : \A m : Places(q, m) = {}  BY FewPlaces
<1>2. /\ queue["client"] = <<>> /\ queue["server"] = <<>>
      /\ \A c \in Conns : wire[c]["client"] = <<>> /\ wire[c]["server"] = <<>>
  BY DEF Sides
<1>3. TypeOK
  <2>1. thread \in [Threads -> [at : {"idle", "routed", "greeting", "adding", "leaving"},
                                 conn : Conns \cup {NoConn}, of : Requests \cup {NoRequest}]]
    BY IdleIs
  <2>2. queue \in [Sides -> Seq([do : {"closeAll", "stop", "add", "disconnect", "send"},
                                 conn : Conns \cup {NoConn}, msg : Messages])]
    <3>1. <<>> \in Seq([do : {"closeAll", "stop", "add", "disconnect", "send"},
                        conn : Conns \cup {NoConn}, msg : Messages])
      BY EmptySeq
    <3> QED BY <3>1
  <2>3. wire \in [Conns -> [Sides -> Seq(Messages)]]
    <3>1. <<>> \in Seq(Messages)  BY EmptySeq
    <3> QED BY <3>1
  <2> QED BY <2>1, <2>2, <2>3 DEF TypeOK
<1>4. ThreadInv  BY IdleIs DEF ThreadInv
<1>5. ConnInv  BY DEF ConnInv, Sides
<1>6. QueueInv
  <2>1. <<>> \in Seq(ClientCallbacks) /\ <<>> \in Seq(ServerCallbacks)  BY EmptySeq
  <2> QED BY <1>1, <1>2, <2>1 DEF QueueInv, AtMostOne
<1>7. StopInv  BY <1>1, <1>2 DEF StopInv, Sides
<1>8. \A r \in Requests, c \in Conns :
        Asked(r, c) = {} /\ Replying(r, c) = {} /\ Replied(r, c) = {} /\ <<r, c>> \notin serving
  BY <1>1, <1>2 DEF Asked, Replying, Replied
<1>9. PlaceInv /\ WayInv  BY <1>8 DEF PlaceInv, InOnePlace, AtMostOne, WayInv, UnderWay
<1>10. WireInv
  <2>1. <<>> \in Seq(ToClient)  BY EmptySeq
  <2> QED BY <1>2, <2>1 DEF WireInv
<1>11. RequestInv
  <2>1. \A r \in Requests : Untouched(r) /\ ~InQueue(r)
    BY <1>1, <1>2, <1>8 DEF Untouched, InQueue, UnderWay
  <2> QED BY <2>1 DEF RequestInv, Untouched
<1>12. KeptInv  BY DEF KeptInv
<1> QED BY <1>3, <1>4, <1>5, <1>6, <1>7, <1>9, <1>10, <1>11, <1>12 DEF RouterInv

LEMMA RouterStands ==
  RouterInv /\ UNCHANGED vars => RouterInv'
<1> SUFFICES ASSUME RouterInv, UNCHANGED vars PROVE RouterInv'  OBVIOUS
<1>1. UNCHANGED <<manager, stopping, loop, queue, listening, socket, managed, known, wire, pending,
                  serving, sent, thread, answers>>
  BY DEF vars, loopVars, connVars, callVars
<1> USE DEF RouterInv
<1>2. TypeOK'  BY <1>1 DEF TypeOK
<1>3. ThreadInv'  BY <1>1, ThreadsGoOn
<1>4. ConnInv'  BY <1>1 DEF ConnInv
<1>5. QueueInv'  BY <1>1, QueueStays
<1>6. StopInv'  BY <1>1 DEF StopInv
<1>7. PlaceInv' /\ WireInv' /\ \A r \in Requests, d \in Conns : UnderWay(r, d)' => UnderWay(r, d)
  BY <1>1, NothingMoves
<1>8. WayInv' /\ RequestInv'  BY <1>1, <1>7, WaitingGoesOn DEF InQueue
<1>9. KeptInv'  BY <1>1, NothingForgotten DEF InQueue
<1> QED BY <1>2, <1>3, <1>4, <1>5, <1>6, <1>7, <1>8, <1>9

LEMMA RouterStep ==
  RouterInv /\ Next => RouterInv'
<1> SUFFICES ASSUME RouterInv, Next PROVE RouterInv'  OBVIOUS
<1>1. ASSUME NEW t \in Threads, Caller(t) PROVE RouterInv'
  BY <1>1, RouteMessageStep, ConnectToPeerStep, DisconnectFromPeerStep, PostMessageStep,
     ReceiveHandshakeStep, ConnectFailsStep DEF Caller, Continue
<1>2. ASSUME NEW s \in Sides, RunCallback(s) PROVE RouterInv'
  <2>1. CASE RunCloseAll(s)
    <3>1. RunCloseAll("client") \/ RunCloseAll("server")  BY <2>1 DEF Sides
    <3> QED BY <3>1, ClientClosesStep, ServerClosesStep
  <2>2. CASE RunStop(s) \/ FinishLoop(s)  BY <2>2, RunStopStep, FinishLoopStep
  <2>3. CASE RunAdd \/ RunDisconnect \/ RunSendRequest \/ RunSendUnpicklable \/ RunSendReply
    BY <2>3, RunAddStep, ClientClosesStep, RunSendRequestStep, RunSendUnpicklableStep, RunSendReplyStep
  <2> QED BY <1>2, <2>1, <2>2, <2>3 DEF RunCallback
<1>3. ASSUME NEW s \in Sides, NEW c \in Conns, ReadSocket(s, c) PROVE RouterInv'
  <2>1. CASE ReadFails(s, c)
    <3>1. ReadFails("client", c) \/ ReadFails("server", c)  BY <2>1 DEF Sides
    <3> QED BY <3>1, ClientReadFailsStep, ServerClosesStep
  <2>2. CASE ReadReply(c) \/ AcceptConnection(c) \/ ReadHandshake(c) \/ ReadRequest(c)
    BY <2>2, ReadReplyStep, AcceptConnectionStep, ReadHandshakeStep, ReadRequestStep
  <2> QED BY <1>3, <2>1, <2>2 DEF ReadSocket
<1>4. ASSUME NEW s \in Sides, Stop(s) \/ Shutdown(s) PROVE RouterInv'
  <2>1. CASE s = "client"  BY <1>4, <2>1, StopStepClient
  <2>2. CASE s = "server"  BY <1>4, <2>2, StopStepServer
  <2> QED BY <2>1, <2>2 DEF Sides
<1>5. ASSUME NEW s \in Sides, Join(s) PROVE RouterInv'  BY <1>5, JoinStep
<1>6. ASSUME NEW r \in Requests, NEW c \in Conns, Serve(r, c) PROVE RouterInv'  BY <1>6, ServeStep
<1>7. CASE Crash  BY <1>7, CrashStep
<1> QED BY <1>1, <1>2, <1>3, <1>4, <1>5, <1>6, <1>7 DEF Next, EventLoop, StopStep, Objects

LEMMA RouterHolds ==
  Spec => []RouterInv
<1>1. RouterInv /\ [Next]_vars => RouterInv'  BY RouterStep, RouterStands
<1> QED BY <1>1, RouterStarts, PTL DEF Spec

(* Every variable of the two routers has its type.                         *)
THEOREM TypeCorrect ==
  Spec => []TypeOK
<1>1. RouterInv => TypeOK  BY DEF RouterInv
<1> QED BY <1>1, RouterHolds, PTL

(* Whatever the order in which connections are made, lost and closed, and  *)
(* the routers stopped, a request posted to a running router is queued,    *)
(* waited for on a managed connection, or answered (messaging.py,          *)
(* _pending_requests and close).                                           *)
THEOREM RequestsAreKept ==
  Spec => []NoRequestForgotten
<1>1. RouterInv => NoRequestForgotten
  <2> SUFFICES ASSUME RouterInv, NEW r \in Requests, sent[r] = "posted", answers[r] = 0
               PROVE  Queued(r) \/ \E c \in Connections : r \in pending[c]
    BY DEF NoRequestForgotten
  <2>1. InQueue(r) \/ \E c \in Conns : r \in pending[c]  BY DEF RouterInv, KeptInv
  <2>2. InQueue(r) => Queued(r)
    BY DEF InQueue, Queued, Places, Post, Callback, Request
  <2>3. ASSUME NEW c \in Conns, r \in pending[c] PROVE c \in Connections
    BY <2>3 DEF RouterInv, ConnInv, Connections
  <2> QED BY <2>1, <2>2, <2>3
<1> QED BY <1>1, RouterHolds, PTL

(* A request gets one answer: a reply, the error of a send that failed, or *)
(* the error sent for it when its connection closes.                       *)
THEOREM AnswersAreUnique ==
  Spec => []AnsweredAtMostOnce
<1>1. RouterInv => AnsweredAtMostOnce  BY DEF RouterInv, RequestInv, AnsweredAtMostOnce
<1> QED BY <1>1, RouterHolds, PTL

=============================================================================
