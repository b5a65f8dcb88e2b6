---------------------------- MODULE PubSub_proofs ----------------------------
(***************************************************************************)
(* Theorems about PubSub, for any receivers and any number of connections, *)
(* calls, signals and incarnations of the publisher.                       *)
(***************************************************************************)
EXTENDS PubSub, TLAPS

-----------------------------------------------------------------------------
(* The inductive invariant *)

\* Connections: everything that names one names an old one or the present one.
PeerInv ==
  /\ link \in 0 .. lastPeer
  /\ closing => link = NoPeer
  /\ link = NoPeer => down = <<>> /\ subs = {}
  /\ link = NoPeer /\ ~closing => unanswered = {}
  /\ peers \subseteq 1 .. lastPeer
  /\ remoteSubs \subseteq peers
  /\ \A e \in Peer : up[e] # <<>> => e \in peers
  /\ IF Free THEN handling.peer = NoPeer ELSE handling.peer \in peers
  /\ \A i \in DOMAIN posted : posted[i].to \in 1 .. lastPeer

\* Calls: the pending request is with one caller, in the event loop or
\* unanswered, and while there is one nobody is subscribed.
CallInv ==
  /\ pending # NoRequest => pending.id = requests /\ subs = {}
  /\ pending.subscribe => pending.receivers # {}
  /\ \A r \in Receiver : thread[r] \in {"send", "fail"} =>
       /\ pending # NoRequest /\ toSend = <<>> /\ unanswered = {}
       /\ \A q \in Receiver : thread[q] \in {"send", "fail"} => q = r
  /\ toSend # <<>> => /\ pending # NoRequest /\ unanswered = {}
                      /\ toSend = <<[id |-> pending.id, subscribe |-> pending.subscribe]>>
  /\ unanswered # {} => pending # NoRequest /\ unanswered = {pending.id}

PostedReply(i) == i \in DOMAIN posted /\ posted[i].to = link /\ posted[i].msg.kind = "reply"
DownReply(i)   == i \in DOMAIN down /\ down[i].kind = "reply"
PostedRemoved(i) == i \in DOMAIN posted /\ posted[i] = [to |-> link, msg |-> Removed]
DownRemoved(i)   == i \in DOMAIN down /\ down[i] = Removed
InHand == link # NoPeer /\ handling.peer = link

NothingPosted == \A i \in DOMAIN posted : ~PostedReply(i)
NothingDown == \A i \in DOMAIN down : ~DownReply(i)

\* An unanswered request is in one place at most on its way there and back.
WayInv ==
  /\ link # NoPeer /\ up[link] # <<>> =>
       /\ up[link] = <<[id |-> pending.id, subscribe |-> pending.subscribe]>>
       /\ unanswered # {} /\ ~InHand /\ NothingPosted /\ NothingDown
  /\ InHand =>
       /\ handling.id = pending.id
       /\ handling.step # "reply" => pending.subscribe
       /\ unanswered # {} /\ NothingPosted /\ NothingDown
  /\ link # NoPeer => \A i \in DOMAIN posted : PostedReply(i) =>
       /\ posted[i].msg.n = pending.id
       /\ unanswered # {} /\ NothingDown
       /\ \A j \in DOMAIN posted : PostedReply(j) => j = i
  /\ \A i \in DOMAIN down : DownReply(i) =>
       /\ down[i].n = pending.id
       /\ unanswered # {}
       /\ \A j \in DOMAIN down : DownReply(j) => j = i

\* The publisher's context: an entry made after the publisher was dropped is
\* still in the hands of the thread that made it.
TableInv ==
  /\ exists => remover = "idle"
  /\ notify # {} => remover = "notify"
  /\ handling.step # "reply" => ~handling.ok
  /\ ~exists /\ remover # "drop" =>
       /\ \A e \in remoteSubs : handling.peer = e /\ handling.step \in {"recheck", "undo"}
       /\ \A l \in localSubs : local[l] \in {"recheck", "undo"}

\* A subscription that is granted: the subscriber's entry is there, or the
\* notice of its removal is behind the reply.
GrantInv ==
  link \in peers /\ requests \notin overtaken =>
    /\ subs # {} => link \in remoteSubs \/ RemovedIsComing
    /\ pending.subscribe =>
         /\ InHand /\ (handling.step = "recheck" \/ handling.ok) => link \in remoteSubs
         /\ \A i \in DOMAIN posted : PostedReply(i) /\ posted[i].msg.ok =>
              \/ link \in remoteSubs \/ link \in notify
              \/ \E j \in DOMAIN posted : j > i /\ PostedRemoved(j)
         /\ \A i \in DOMAIN down : DownReply(i) /\ down[i].ok =>
              \/ link \in remoteSubs \/ link \in notify
              \/ \E j \in DOMAIN posted : PostedRemoved(j)
              \/ \E j \in DOMAIN down : j > i /\ DownRemoved(j)

\* A subscription that is not there: where the present connection has no entry.
NoEntryInv ==
  link \in remoteSubs =>
    /\ subs # {} \/ pending # NoRequest
    /\ \A r \in Receiver : thread[r] # "fail"
    /\ pending.subscribe =>
         /\ unanswered # {} /\ up[link] = <<>>
         /\ InHand => handling.step \in {"recheck", "undo"} \/ handling.ok
         /\ \A i \in DOMAIN posted : PostedReply(i) => posted[i].msg.ok
         /\ \A i \in DOMAIN down : DownReply(i) => down[i].ok
    /\ pending # NoRequest /\ ~pending.subscribe => ~InHand /\ NothingPosted /\ NothingDown
    /\ RemovedIsComing => pending # NoRequest
    /\ \A i \in DOMAIN posted, j \in DOMAIN posted :
         PostedReply(i) /\ PostedRemoved(j) => j < i
    /\ \A i \in DOMAIN down : DownReply(i) =>
         /\ \A j \in DOMAIN posted : ~PostedRemoved(j)
         /\ \A j \in DOMAIN down : DownRemoved(j) => j < i

PubSubInv == TypeOK /\ PeerInv /\ CallInv /\ WayInv /\ TableInv /\ GrantInv /\ NoEntryInv

-----------------------------------------------------------------------------
(* Sequences *)

LEMMA AppendFacts ==
  ASSUME NEW S, NEW s \in Seq(S), NEW x
  PROVE  /\ DOMAIN Append(s, x) = 1 .. Len(s) + 1
         /\ DOMAIN s = 1 .. Len(s) /\ Len(s) \in Nat
         /\ \A i \in DOMAIN s : Append(s, x)[i] = s[i]
         /\ Append(s, x)[Len(s) + 1] = x
         /\ Append(s, x) # <<>>
         /\ x \in S => Append(s, x) \in Seq(S)
<1>1. Len(Append(s, x)) = Len(s) + 1
  OBVIOUS
<1> QED BY <1>1

LEMMA IndexFacts ==
  ASSUME NEW S, NEW s \in Seq(S)
  PROVE  \A i \in DOMAIN s : i \in Nat \ {0}
  OBVIOUS

LEMMA TailFacts ==
  ASSUME NEW S, NEW s \in Seq(S), s # <<>>
  PROVE  /\ Head(s) \in S /\ Tail(s) \in Seq(S)
         /\ 1 \in DOMAIN s /\ Head(s) = s[1]
         /\ DOMAIN s = 1 .. Len(s) /\ Len(s) \in Nat
         /\ DOMAIN Tail(s) = 1 .. Len(s) - 1
         /\ \A i \in DOMAIN Tail(s) : i + 1 \in DOMAIN s /\ Tail(s)[i] = s[i + 1]
         /\ \A j \in DOMAIN s : j # 1 => j - 1 \in DOMAIN Tail(s) /\ Tail(s)[j - 1] = s[j]
  OBVIOUS

-----------------------------------------------------------------------------
(* Type correctness *)

LEMMA MessageTypes ==
  /\ Removed \in Message
  /\ \A n \in Nat : Signal(n) \in Message
  /\ \A n \in Nat, b \in BOOLEAN : Reply(n, b) \in Message
  /\ NoRequest \in [id : Nat, subscribe : BOOLEAN, receivers : SUBSET Receiver]
  BY DEF Removed, Signal, Reply, Message, NoRequest

LEMMA TypeInit == Init => TypeOK
<1> SUFFICES ASSUME Init PROVE TypeOK
  OBVIOUS
<1>1. closing \in BOOLEAN /\ exists \in BOOLEAN
  BY DEF Init
<1>2. NotHandling \in [step : {"none", "add", "recheck", "undo", "reply"},
                      peer : {NoPeer} \cup Peer, id : Nat, ok : BOOLEAN]
  BY DEF NotHandling
<1>3. NotPublishing \in [signal : Nat, to : SUBSET Peer]
  BY DEF NotPublishing
<1>4. /\ calls \in 0 .. MaxCalls /\ made \in 0 .. MaxMakes
      /\ published \in 0 .. MaxSignals /\ lastPeer \in 0 .. MaxPeers
  BY BoundAssumption DEF Init, NoPeer
<1>5. /\ toSend \in Seq(Request) /\ up \in [Peer -> Seq(Request)]
      /\ down \in Seq(Message) /\ posted \in Seq([to : Peer, msg : Message])
  BY DEF Init
<1> QED BY <1>1, <1>2, <1>3, <1>4, <1>5, MessageTypes DEF Init, TypeOK

\* TypeOK in the parts that the actions leave alone together.
Steps == {"none", "add", "recheck", "undo", "reply"}
Requesting == [id : Nat, subscribe : BOOLEAN, receivers : SUBSET Receiver]
Calling == [Receiver -> {"idle", "send", "fail", "wait"}]
Mail == [to : Peer, msg : Message]
Serving == [step : Steps, peer : {NoPeer} \cup Peer, id : Nat, ok : BOOLEAN]
SubTypes ==
  subs \in SUBSET Receiver /\ pending \in Requesting /\ requests \in Nat /\ thread \in Calling
WireTypes ==
  /\ toSend \in Seq(Request) /\ unanswered \in SUBSET Nat
  /\ up \in [Peer -> Seq(Request)] /\ down \in Seq(Message)
LinkTypes == link \in {NoPeer} \cup Peer /\ closing \in BOOLEAN /\ lastPeer \in 0 .. MaxPeers
ObjTypes ==
  /\ exists \in BOOLEAN /\ remover \in {"idle", "drop", "notify"}
  /\ notify \in SUBSET Peer /\ made \in 0 .. MaxMakes
PubTypes ==
  /\ remoteSubs \in SUBSET Peer /\ localSubs \in SUBSET LocalReceiver
  /\ local \in [LocalReceiver -> {"idle", "add", "recheck", "undo"}]
SockTypes == peers \in SUBSET Peer /\ posted \in Seq(Mail) /\ handling \in Serving
SigTypes == publishing \in [signal : Nat, to : SUBSET Peer] /\ published \in 0 .. MaxSignals
SeenTypes == lastSeen \in [Receiver -> Nat]
RestTypes == calls \in 0 .. MaxCalls /\ overtaken \in SUBSET Nat

LEMMA TypeParts ==
  TypeOK <=> /\ SubTypes /\ WireTypes /\ LinkTypes /\ ObjTypes /\ PubTypes
             /\ SockTypes /\ SigTypes /\ SeenTypes /\ RestTypes
  BY DEF TypeOK, SubTypes, WireTypes, LinkTypes, ObjTypes, PubTypes, SockTypes, SigTypes,
         SeenTypes, RestTypes, Steps, Requesting, Calling, Mail, Serving

LEMMA TypeJoin ==
  ASSUME SubTypes', WireTypes', LinkTypes', ObjTypes', PubTypes', SockTypes', SigTypes',
         SeenTypes', RestTypes'
  PROVE  TypeOK'
  BY DEF TypeOK, SubTypes, WireTypes, LinkTypes, ObjTypes, PubTypes, SockTypes, SigTypes,
         SeenTypes, RestTypes, Steps, Requesting, Calling, Mail, Serving

\* What a step leaves alone keeps its types.
LEMMA TypeFrame ==
  ASSUME TypeOK
  PROVE  /\ UNCHANGED subVars => SubTypes'
         /\ UNCHANGED wireVars => WireTypes'
         /\ UNCHANGED linkVars => LinkTypes'
         /\ UNCHANGED objVars => ObjTypes'
         /\ UNCHANGED pubVars => PubTypes'
         /\ UNCHANGED sockVars => SockTypes'
         /\ UNCHANGED sigVars => SigTypes'
         /\ UNCHANGED lastSeen => SeenTypes'
         /\ UNCHANGED <<calls, overtaken>> => RestTypes'
<1> USE TypeParts
<1>1. UNCHANGED subVars => SubTypes'     BY DEF SubTypes, subVars
<1>2. UNCHANGED wireVars => WireTypes'   BY DEF WireTypes, wireVars
<1>3. UNCHANGED linkVars => LinkTypes'   BY DEF LinkTypes, linkVars
<1>4. UNCHANGED objVars => ObjTypes'     BY DEF ObjTypes, objVars
<1>5. UNCHANGED pubVars => PubTypes'     BY DEF PubTypes, pubVars
<1>6. UNCHANGED sockVars => SockTypes'   BY DEF SockTypes, sockVars
<1>7. UNCHANGED sigVars => SigTypes'     BY DEF SigTypes, sigVars
<1>8. UNCHANGED lastSeen => SeenTypes'   BY DEF SeenTypes
<1>9. UNCHANGED <<calls, overtaken>> => RestTypes'  BY DEF RestTypes
<1> QED BY <1>1, <1>2, <1>3, <1>4, <1>5, <1>6, <1>7, <1>8, <1>9

LEMMA NewRequestType ==
  ASSUME TypeOK, NEW b \in BOOLEAN, NEW R \in SUBSET Receiver, NewRequest(b, R)
  PROVE  requests' \in Nat /\ pending' \in Requesting
<1>1. requests' \in Nat /\ requests + 1 \in Nat
  BY DEF TypeOK, NewRequest
<1> QED BY <1>1 DEF NewRequest, Requesting

LEMMA CallType ==
  ASSUME TypeOK, NEW r \in Receiver,
         JoinSubscribers(r) \/ JoinRequest(r) \/ MakeRequest(r) \/ Unsubscribe(r)
  PROVE  TypeOK'
<1>1. SubTypes /\ SeenTypes /\ RestTypes
  BY TypeParts
<1>2. CallOf(r) /\ UNCHANGED Others
  BY DEF JoinSubscribers, JoinRequest, MakeRequest, Unsubscribe
<1>3. RestTypes'
  <2>1. calls' \in 0 .. MaxCalls
    BY <1>1, <1>2, BoundAssumption DEF CallOf, RestTypes
  <2> QED BY <1>1, <1>2, <2>1 DEF Others, RestTypes
<1>4. SeenTypes'
  <2>1. lastSeen' = lastSeen \/ lastSeen' = [lastSeen EXCEPT ![r] = 0]
    BY DEF JoinSubscribers, JoinRequest, MakeRequest, Unsubscribe
  <2> QED BY <1>1, <2>1 DEF SeenTypes
<1>5. SubTypes'
  <2>1. CASE JoinSubscribers(r)
    BY <1>1, <2>1 DEF JoinSubscribers, SubTypes
  <2>2. CASE JoinRequest(r)
    BY <1>1, <2>2 DEF JoinRequest, SubTypes, Requesting, Calling
  <2>3. CASE MakeRequest(r)
    <3>1. thread' \in Calling BY <1>1, <2>3 DEF MakeRequest, SubTypes, Calling
    <3>2. requests' \in Nat /\ pending' \in Requesting BY <2>3, NewRequestType DEF MakeRequest
    <3> QED BY <1>1, <2>3, <3>1, <3>2 DEF MakeRequest, SubTypes
  <2>4. CASE Unsubscribe(r)
    <3>1. CASE subs = {r} /\ pending = NoRequest
      <4>1. requests' \in Nat /\ pending' \in Requesting
        BY <2>4, <3>1, NewRequestType DEF Unsubscribe
      <4>2. thread' \in Calling
        BY <1>1, <2>4, <3>1 DEF Unsubscribe, SubTypes, Calling
      <4> QED BY <1>1, <2>4, <4>1, <4>2 DEF Unsubscribe, SubTypes
    <3>2. CASE ~(subs = {r} /\ pending = NoRequest)
      BY <1>1, <2>4, <3>2 DEF Unsubscribe, SubTypes
    <3> QED BY <3>1, <3>2
  <2> QED BY <2>1, <2>2, <2>3, <2>4
<1> QED BY <1>2, <1>3, <1>4, <1>5, TypeFrame, TypeJoin DEF Others

LEMMA ServedType ==
  ASSUME TypeOK
  PROVE  Served \in Calling
  BY DEF TypeOK, Served, Calling

LEMMA CallerType ==
  ASSUME TypeOK, NEW r \in Receiver, Caller(r)
  PROVE  TypeOK'
<1>1. SubTypes /\ WireTypes
  BY TypeParts
<1>2. CASE SendRequest(r)
  <2>1. toSend' \in Seq(Request)
    <3>1. toSend \in Seq(Request) /\ [id |-> pending.id, subscribe |-> pending.subscribe] \in Request
      BY <1>1 DEF SubTypes, WireTypes, Requesting, Request
    <3> QED BY <1>2, <3>1 DEF SendRequest
  <2>2. WireTypes'
    BY <1>1, <1>2, <2>1 DEF SendRequest, WireTypes
  <2>3. SubTypes'
    BY <1>1, <1>2 DEF SendRequest, SubTypes, Calling
  <2> QED BY <1>2, <2>2, <2>3, TypeFrame, TypeJoin DEF SendRequest
<1>3. CASE CannotSend(r)
  <2>1. SubTypes'
    BY <1>1, <1>3 DEF CannotSend, SubTypes, Calling
  <2> QED BY <1>3, <2>1, TypeFrame, TypeJoin DEF CannotSend, Others
<1>4. CASE GiveUp(r)
  <2>1. subs' = subs /\ UNCHANGED <<calls, lastSeen, Others>>
    BY <1>4 DEF GiveUp
  <2>2. \/ /\ NewRequest(TRUE, pending.receivers)
           /\ thread' = [thread EXCEPT ![r] = "send"]
        \/ /\ pending' = NoRequest /\ requests' = requests
           /\ thread' = [Served EXCEPT ![r] = "idle"]
    BY <1>4 DEF GiveUp
  <2>3. requests' \in Nat /\ pending' \in Requesting
    <3>1. pending.receivers \in SUBSET Receiver /\ requests \in Nat
      BY <1>1 DEF SubTypes, Requesting
    <3>2. NoRequest \in Requesting
      BY MessageTypes DEF Requesting
    <3> QED BY <2>2, <3>1, <3>2, NewRequestType
  <2>4. thread' \in Calling
    <3>1. thread \in Calling /\ Served \in Calling
      BY <1>1, ServedType DEF SubTypes
    <3> QED BY <2>2, <3>1 DEF Calling
  <2>5. SubTypes'
    BY <1>1, <2>1, <2>3, <2>4 DEF SubTypes
  <2> QED BY <2>1, <2>5, TypeFrame, TypeJoin DEF Others
<1> QED BY <1>2, <1>3, <1>4 DEF Caller

\* What the answer to a request leaves in the subscriber's tables.
LEMMA AnswerType ==
  ASSUME TypeOK, NEW id, NEW ok \in BOOLEAN, NEW queue \in Seq(Request),
         Answer(id, ok, queue)
  PROVE  SubTypes' /\ SeenTypes' /\ toSend' \in Seq(Request)
<1>1. SubTypes /\ SeenTypes
  BY TypeParts
<1>2. CASE pending.id = id
  <2>1. Resolve(ok, queue) BY <1>2 DEF Answer
  <2>2. requests' \in Nat BY <1>1, <2>1 DEF Resolve, SubTypes
  <2>3. subs' \in SUBSET Receiver BY <1>1, <2>1 DEF Resolve, SubTypes, Requesting
  <2>4. SeenTypes' BY <1>1, <2>1 DEF Resolve, SeenTypes
  <2>5. thread' \in Calling
    BY <1>1, <2>1, ServedType DEF Resolve, SubTypes
  <2>6. [id |-> requests', subscribe |-> TRUE] \in Request BY <2>2 DEF Request
  <2>7. toSend' \in Seq(Request) BY <2>1, <2>6 DEF Resolve
  <2>8. pending' \in Requesting
    <3>1. pending' = NoRequest \/ pending' = [pending EXCEPT !.id = requests', !.subscribe = TRUE]
      BY <2>1 DEF Resolve
    <3> QED BY <1>1, <2>2, <3>1, MessageTypes DEF SubTypes, Requesting
  <2> QED BY <2>2, <2>3, <2>4, <2>5, <2>7, <2>8 DEF SubTypes
<1>3. CASE pending.id # id
  BY <1>3, TypeFrame DEF Answer
<1> QED BY <1>2, <1>3

LEMMA SubscriberLoopType ==
  ASSUME TypeOK, TransmitAny \/ ReceiveAny \/ LoseLink \/ CloseLink \/ Connect
  PROVE  TypeOK'
<1>1. SubTypes /\ WireTypes /\ LinkTypes /\ SockTypes /\ SeenTypes
  BY TypeParts
<1>2. toSend # <<>> => Head(toSend) \in Request /\ Tail(toSend) \in Seq(Request)
  BY <1>1 DEF WireTypes
<1>3. down # <<>> => Head(down) \in Message /\ Tail(down) \in Seq(Message)
  BY <1>1 DEF WireTypes
<1>4. CASE Transmit
  <2>1. Head(toSend) \in Request /\ Tail(toSend) \in Seq(Request)
    BY <1>2, <1>4 DEF Transmit
  <2>2. up' \in [Peer -> Seq(Request)]
    <3>1. link \in Peer /\ up[link] \in Seq(Request) /\ up \in [Peer -> Seq(Request)]
      BY <1>1, <1>4 DEF Transmit, SockTypes, WireTypes
    <3>2. Append(up[link], Head(toSend)) \in Seq(Request)
      BY <2>1, <3>1
    <3> QED BY <1>4, <3>1, <3>2 DEF Transmit
  <2>3. unanswered' \in SUBSET Nat
    BY <1>1, <1>4, <2>1 DEF Transmit, WireTypes, Request
  <2>4. WireTypes'
    BY <1>1, <1>4, <2>1, <2>2, <2>3 DEF Transmit, WireTypes
  <2> QED BY <1>4, <2>4, TypeFrame, TypeJoin DEF Transmit
<1>5. CASE TransmitLost
  <2>1. Head(toSend) \in Request /\ Tail(toSend) \in Seq(Request)
    BY <1>2, <1>5 DEF TransmitLost
  <2>2. unanswered' \in SUBSET Nat
    BY <1>1, <1>5, <2>1 DEF TransmitLost, WireTypes, Request
  <2>3. WireTypes'
    BY <1>1, <1>5, <2>1, <2>2 DEF TransmitLost, WireTypes
  <2> QED BY <1>5, <2>3, TypeFrame, TypeJoin DEF TransmitLost
<1>6. CASE TransmitFails
  <2>1. Answer(Head(toSend).id, FALSE, Tail(toSend)) /\ Tail(toSend) \in Seq(Request)
    BY <1>2, <1>6 DEF TransmitFails
  <2>2. SubTypes' /\ SeenTypes' /\ toSend' \in Seq(Request)
    BY <2>1, AnswerType
  <2>3. WireTypes'
    BY <1>1, <1>6, <2>2 DEF TransmitFails, WireTypes
  <2> QED BY <1>6, <2>2, <2>3, TypeFrame, TypeJoin DEF TransmitFails
<1>7. CASE ReceiveSignal
  <2>1. Head(down) \in Message /\ Tail(down) \in Seq(Message)
    BY <1>3, <1>7 DEF ReceiveSignal
  <2>2. Head(down).n \in Nat
    BY <1>7, <2>1 DEF ReceiveSignal, Message, Removed
  <2>3. SeenTypes'
    BY <1>1, <1>7, <2>2 DEF ReceiveSignal, SeenTypes
  <2>4. WireTypes'
    BY <1>1, <1>7, <2>1 DEF ReceiveSignal, WireTypes
  <2> QED BY <1>7, <2>3, <2>4, TypeFrame, TypeJoin DEF ReceiveSignal
<1>8. CASE ReceiveReply
  <2>1. Head(down) \in Message /\ Tail(down) \in Seq(Message)
    BY <1>3, <1>8 DEF ReceiveReply
  <2>2. Head(down).ok \in BOOLEAN
    BY <1>8, <2>1 DEF ReceiveReply, Message, Removed
  <2>3. SubTypes' /\ SeenTypes' /\ toSend' \in Seq(Request)
    <3>1. Answer(Head(down).n, Head(down).ok, toSend) /\ toSend \in Seq(Request)
      BY <1>1, <1>8 DEF ReceiveReply, WireTypes
    <3> QED BY <2>2, <3>1, AnswerType
  <2>4. WireTypes'
    BY <1>1, <1>8, <2>1, <2>3 DEF ReceiveReply, WireTypes
  <2> QED BY <1>8, <2>3, <2>4, TypeFrame, TypeJoin DEF ReceiveReply
<1>9. CASE ReceiveRemoved
  <2>1. WireTypes'
    BY <1>1, <1>3, <1>9 DEF ReceiveRemoved, WireTypes
  <2>2. SubTypes'
    BY <1>1, <1>9 DEF ReceiveRemoved, SubTypes
  <2> QED BY <1>9, <2>1, <2>2, TypeFrame, TypeJoin DEF ReceiveRemoved
<1>10. CASE LoseLink
  <2>1. SubTypes'
    BY <1>1, <1>10 DEF LoseLink, SubTypes
  <2>2. WireTypes'
    <3>1. down' \in Seq(Message)
      BY <1>10 DEF LoseLink
    <3> QED BY <1>1, <1>10, <3>1 DEF LoseLink, WireTypes
  <2>3. LinkTypes'
    BY <1>1, <1>10 DEF LoseLink, LinkTypes
  <2> QED BY <1>10, <2>1, <2>2, <2>3, TypeFrame, TypeJoin DEF LoseLink
<1>11. CASE CloseLink
  <2>1. SubTypes' /\ SeenTypes' /\ toSend' \in Seq(Request)
    <3>1. toSend \in Seq(Request)
      BY <1>1 DEF WireTypes
    <3>2. CASE unanswered = {}
      BY <1>11, <3>1, <3>2, TypeFrame DEF CloseLink
    <3>3. CASE unanswered # {}
      <4>1. PICK id \in unanswered : Answer(id, FALSE, toSend)
        BY <1>11, <3>3 DEF CloseLink
      <4> QED BY <3>1, <4>1, AnswerType
    <3> QED BY <3>2, <3>3
  <2>2. WireTypes'
    BY <1>1, <1>11, <2>1 DEF CloseLink, WireTypes
  <2>3. LinkTypes'
    BY <1>1, <1>11 DEF CloseLink, LinkTypes
  <2> QED BY <1>11, <2>1, <2>2, <2>3, TypeFrame, TypeJoin DEF CloseLink
<1>12. CASE Connect
  <2>1. lastPeer' \in 0 .. MaxPeers /\ lastPeer' \in Peer
    BY <1>1, <1>12, BoundAssumption DEF Connect, LinkTypes, Peer
  <2>2. LinkTypes'
    BY <1>1, <1>12, <2>1 DEF Connect, LinkTypes
  <2>3. SockTypes'
    BY <1>1, <1>12, <2>1 DEF Connect, SockTypes
  <2> QED BY <1>12, <2>2, <2>3, TypeFrame, TypeJoin DEF Connect
<1> QED
  BY <1>4, <1>5, <1>6, <1>7, <1>8, <1>9, <1>10, <1>11, <1>12 DEF TransmitAny, ReceiveAny

LEMMA PostType ==
  ASSUME TypeOK, NEW e \in Peer, NEW m \in Message, Post(e, m)
  PROVE  posted' \in Seq(Mail)
<1>1. posted \in Seq(Mail) /\ [to |-> e, msg |-> m] \in Mail
  BY DEF TypeOK, Mail
<1> QED BY <1>1 DEF Post

LEMMA PublisherLoopType ==
  ASSUME TypeOK, PeerInv,
         DeliverPosted \/ Handle
         \/ \E e \in Peer : ReceiveSubscribe(e) \/ ReceiveUnsubscribe(e) \/ LosePeer(e)
  PROVE  TypeOK'
<1>1. WireTypes /\ PubTypes /\ SockTypes
  BY TypeParts
<1>2. /\ UNCHANGED <<Untouched, overtaken>> => SubTypes' /\ LinkTypes' /\ SigTypes' /\ SeenTypes' /\ RestTypes'
      /\ UNCHANGED <<Untouched, up>> => WireTypes'
  <2>1. UNCHANGED Untouched => UNCHANGED <<subVars, toSend, unanswered, down, linkVars, sigVars, calls, lastSeen>>
    BY DEF Untouched
  <2>2. UNCHANGED <<toSend, unanswered, down, up>> => UNCHANGED wireVars
    BY DEF wireVars
  <2> QED BY <2>1, <2>2, TypeFrame
<1>3. handling.step # "none" => handling.peer \in Peer
  BY DEF PeerInv, Free, TypeOK
<1>4. CASE DeliverPosted
  <2>1. Head(posted) \in Mail /\ Tail(posted) \in Seq(Mail)
    BY <1>1, <1>4, TailFacts DEF DeliverPosted, SockTypes
  <2>2. down' \in Seq(Message)
    <3>1. Head(posted).msg \in Message /\ down \in Seq(Message)
      BY <1>1, <2>1 DEF Mail, WireTypes
    <3>2. down' = down \/ down' = Append(down, Head(posted).msg)
      BY <1>4 DEF DeliverPosted
    <3> QED BY <3>1, <3>2
  <2>3. WireTypes'
    BY <1>1, <1>4, <2>2 DEF DeliverPosted, WireTypes
  <2>4. SockTypes'
    BY <1>1, <1>4, <2>1 DEF DeliverPosted, SockTypes
  <2> QED BY <1>4, <2>3, <2>4, TypeFrame, TypeJoin DEF DeliverPosted
<1>5. CASE Add
  <2>1. PubTypes'
    BY <1>1, <1>3, <1>5 DEF Add, PubTypes
  <2>2. SockTypes'
    BY <1>1, <1>5 DEF Add, SockTypes, Serving, Steps
  <2> QED BY <1>2, <1>5, <2>1, <2>2, TypeFrame, TypeJoin DEF Add
<1>6. CASE Recheck
  <2>1. SockTypes'
    BY <1>1, <1>6 DEF Recheck, SockTypes, Serving, Steps
  <2> QED BY <1>2, <1>6, <2>1, TypeFrame, TypeJoin DEF Recheck
<1>7. CASE Undo
  <2>1. PubTypes'
    BY <1>1, <1>7 DEF Undo, PubTypes
  <2>2. SockTypes'
    BY <1>1, <1>7 DEF Undo, SockTypes, Serving, Steps
  <2> QED BY <1>2, <1>7, <2>1, <2>2, TypeFrame, TypeJoin DEF Undo
<1>8. CASE SendReply
  <2>1. handling.peer \in Peer /\ Reply(handling.id, handling.ok) \in Message
    BY <1>1, <1>3, <1>8, MessageTypes DEF SendReply, SockTypes, Serving
  <2>2. posted' \in Seq(Mail)
    BY <1>8, <2>1, PostType DEF SendReply
  <2>3. handling' \in Serving
    BY <1>8 DEF SendReply, NotHandling, Serving, Steps
  <2>4. SockTypes'
    BY <1>1, <1>8, <2>2, <2>3 DEF SendReply, SockTypes
  <2> QED BY <1>2, <1>8, <2>4, TypeFrame, TypeJoin DEF SendReply
<1>9. ASSUME NEW e \in Peer, ReceiveSubscribe(e) \/ ReceiveUnsubscribe(e)
      PROVE  TypeOK'
  <2>1. up[e] \in Seq(Request) /\ up[e] # <<>>
    BY <1>1, <1>9 DEF ReceiveSubscribe, ReceiveUnsubscribe, WireTypes
  <2>2. Head(up[e]) \in Request /\ Tail(up[e]) \in Seq(Request)
    BY <2>1
  <2>3. up' \in [Peer -> Seq(Request)]
    BY <1>1, <1>9, <2>2 DEF ReceiveSubscribe, ReceiveUnsubscribe, WireTypes
  <2>4. WireTypes'
    BY <1>1, <1>9, <2>3 DEF ReceiveSubscribe, ReceiveUnsubscribe, Untouched, WireTypes
  <2>5. handling' \in Serving
    <3>1. CASE ReceiveSubscribe(e)
      BY <2>2, <3>1 DEF ReceiveSubscribe, Request, Serving, Steps
    <3>2. CASE ReceiveUnsubscribe(e)
      BY <2>2, <3>2 DEF ReceiveUnsubscribe, Request, Serving, Steps
    <3> QED BY <1>9, <3>1, <3>2
  <2>6. SockTypes'
    BY <1>1, <1>9, <2>5 DEF ReceiveSubscribe, ReceiveUnsubscribe, SockTypes
  <2>7. PubTypes'
    BY <1>1, <1>9 DEF ReceiveSubscribe, ReceiveUnsubscribe, PubTypes, pubVars
  <2>8. UNCHANGED <<Untouched, objVars, overtaken>>
    BY <1>9 DEF ReceiveSubscribe, ReceiveUnsubscribe
  <2> QED BY <1>2, <2>4, <2>6, <2>7, <2>8, TypeFrame, TypeJoin
<1>10. ASSUME NEW e \in Peer, LosePeer(e)
       PROVE  TypeOK'
  <2>1. up' \in [Peer -> Seq(Request)]
    <3>1. up \in [Peer -> Seq(Request)] /\ <<>> \in Seq(Request)
      BY <1>1 DEF WireTypes
    <3> QED BY <1>10, <3>1 DEF LosePeer
  <2>2. WireTypes'
    BY <1>1, <1>10, <2>1 DEF LosePeer, Untouched, WireTypes
  <2>3. SockTypes'
    BY <1>1, <1>10 DEF LosePeer, SockTypes
  <2>4. PubTypes'
    BY <1>1, <1>10 DEF LosePeer, PubTypes
  <2> QED BY <1>2, <1>10, <2>2, <2>3, <2>4, TypeFrame, TypeJoin DEF LosePeer
<1> QED BY <1>4, <1>5, <1>6, <1>7, <1>8, <1>9, <1>10 DEF Handle

LEMMA PublisherType ==
  ASSUME TypeOK,
         \/ MakeObject \/ RemoveObject \/ DropSubscribers \/ ReleaseName \/ Publish
         \/ \E e \in Peer : NotifyRemoved(e) \/ PublishTo(e)
  PROVE  TypeOK'
<1>1. ObjTypes /\ PubTypes /\ SockTypes /\ SigTypes /\ RestTypes
  BY TypeParts
<1>2. /\ UNCHANGED <<Elsewhere, overtaken>> => RestTypes'
      /\ UNCHANGED Elsewhere => SubTypes' /\ WireTypes' /\ LinkTypes' /\ SigTypes' /\ SeenTypes'
      /\ UNCHANGED <<Elsewhere, posted>> => SockTypes'
  <2>1. UNCHANGED Elsewhere =>
          UNCHANGED <<subVars, toSend, unanswered, down, linkVars, sigVars, calls, lastSeen,
                      up, peers, handling>>
    BY DEF Elsewhere, Untouched
  <2>2. /\ UNCHANGED <<toSend, unanswered, down, up>> => UNCHANGED wireVars
        /\ UNCHANGED <<peers, posted, handling>> => UNCHANGED sockVars
    BY DEF wireVars, sockVars
  <2> QED BY <2>1, <2>2, TypeFrame
<1>3. CASE MakeObject
  <2>1. ObjTypes'
    BY <1>1, <1>3, BoundAssumption DEF MakeObject, ObjTypes
  <2> QED BY <1>2, <1>3, <2>1, TypeFrame, TypeJoin DEF MakeObject
<1>4. CASE RemoveObject
  <2>1. ObjTypes'
    BY <1>1, <1>4 DEF RemoveObject, ObjTypes
  <2> QED BY <1>2, <1>4, <2>1, TypeFrame, TypeJoin DEF RemoveObject
<1>5. CASE DropSubscribers
  <2>1. ObjTypes' /\ PubTypes'
    BY <1>1, <1>5 DEF DropSubscribers, ObjTypes, PubTypes
  <2>2. RestTypes'
    <3>1. overtaken' \in SUBSET Nat
      BY <1>1, <1>5 DEF DropSubscribers, RestTypes, SockTypes, Serving
    <3> QED BY <1>1, <1>5, <3>1 DEF DropSubscribers, Elsewhere, Untouched, RestTypes
  <2> QED BY <1>2, <1>5, <2>1, <2>2, TypeJoin DEF DropSubscribers
<1>6. CASE ReleaseName
  <2>1. ObjTypes'
    BY <1>1, <1>6 DEF ReleaseName, ObjTypes
  <2> QED BY <1>2, <1>6, <2>1, TypeFrame, TypeJoin DEF ReleaseName
<1>7. CASE Publish
  <2>1. published' \in 0 .. MaxSignals /\ published + 1 \in Nat
    BY <1>1, <1>7, BoundAssumption DEF Publish, SigTypes
  <2>2. SigTypes'
    BY <1>1, <1>7, <2>1 DEF Publish, SigTypes, PubTypes
  <2> QED BY <1>7, <2>2, TypeFrame, TypeJoin DEF Publish
<1>8. ASSUME NEW e \in Peer, NotifyRemoved(e)
      PROVE  TypeOK'
  <2>1. posted' \in Seq(Mail)
    BY <1>1, <1>8, PostType, MessageTypes DEF NotifyRemoved, SockTypes
  <2>2. SockTypes'
    BY <1>1, <1>8, <2>1 DEF NotifyRemoved, Elsewhere, SockTypes
  <2>3. ObjTypes'
    BY <1>1, <1>8 DEF NotifyRemoved, ObjTypes
  <2> QED BY <1>2, <1>8, <2>2, <2>3, TypeFrame, TypeJoin DEF NotifyRemoved
<1>9. ASSUME NEW e \in Peer, PublishTo(e)
      PROVE  TypeOK'
  <2>1. Signal(publishing.signal) \in Message
    BY <1>1, MessageTypes DEF SigTypes
  <2>2. posted' \in Seq(Mail)
    BY <1>1, <1>9, <2>1, PostType DEF PublishTo, SockTypes
  <2>3. SockTypes'
    BY <1>1, <1>9, <2>2 DEF PublishTo, SockTypes
  <2>4. SigTypes'
    BY <1>1, <1>9 DEF PublishTo, SigTypes
  <2> QED BY <1>9, <2>3, <2>4, TypeFrame, TypeJoin DEF PublishTo
<1> QED BY <1>3, <1>4, <1>5, <1>6, <1>7, <1>8, <1>9

LocalAny(l) ==
  LocalCheck(l) \/ LocalAdd(l) \/ LocalRecheck(l) \/ LocalUndo(l) \/ LocalUnsubscribe(l)

LEMMA LocalType ==
  ASSUME TypeOK, NEW l \in LocalReceiver, LocalAny(l)
  PROVE  TypeOK'
<1>1. PubTypes /\ RestTypes
  BY TypeParts
<1>2. PICK from, to \in {"idle", "add", "recheck", "undo"} : LocalStep(l, from, to)
  BY DEF LocalAny, LocalCheck, LocalAdd, LocalRecheck, LocalUndo, LocalUnsubscribe
<1>3. localSubs' \in SUBSET LocalReceiver
  BY <1>1 DEF LocalAny, LocalCheck, LocalAdd, LocalRecheck, LocalUndo, LocalUnsubscribe, PubTypes
<1>4. PubTypes'
  BY <1>1, <1>2, <1>3 DEF LocalStep, PubTypes
<1>5. calls' \in 0 .. MaxCalls
  BY <1>1, BoundAssumption
  DEF LocalAny, LocalCheck, LocalAdd, LocalRecheck, LocalUndo, LocalUnsubscribe, RestTypes
<1>6. RestTypes'
  BY <1>1, <1>2, <1>5 DEF LocalStep, RestTypes
<1> QED BY <1>2, <1>4, <1>6, TypeFrame, TypeJoin DEF LocalStep

LEMMA StutterType ==
  ASSUME TypeOK, UNCHANGED vars
  PROVE  TypeOK'
  BY TypeFrame, TypeJoin DEF vars

LEMMA TypeStep == TypeOK /\ PeerInv /\ [Next]_vars => TypeOK'
  BY CallType, CallerType, SubscriberLoopType, PublisherLoopType, PublisherType, LocalType,
     StutterType
  DEF Next, LocalAny

-----------------------------------------------------------------------------
(* Connections *)

LEMMA PeerInit == Init => PeerInv
  BY BoundAssumption DEF Init, PeerInv, NoPeer, Free, NotHandling

\* What the answer to a request does not touch, and what it may add.
LEMMA AnswerFacts ==
  ASSUME TypeOK, NEW id, NEW ok \in BOOLEAN, NEW queue, Answer(id, ok, queue)
  PROVE  subs' = subs \/ (ok /\ pending.subscribe /\ subs' = subs \cup pending.receivers)
  BY DEF Answer, Resolve, subVars

LEMMA SubscriberPeer ==
  ASSUME TypeOK, PeerInv,
         \/ \E r \in Receiver : \/ JoinSubscribers(r) \/ JoinRequest(r) \/ MakeRequest(r)
                               \/ Unsubscribe(r) \/ Caller(r)
         \/ TransmitAny \/ ReceiveAny \/ LoseLink \/ CloseLink \/ Connect
  PROVE  PeerInv'
<1> USE DEF Others, subVars, wireVars, linkVars, objVars, pubVars, sockVars, sigVars
<1>1. ASSUME NEW r \in Receiver,
             JoinSubscribers(r) \/ JoinRequest(r) \/ MakeRequest(r) \/ Unsubscribe(r) \/ Caller(r)
      PROVE  PeerInv'
  <2>1. link = NoPeer => subs' = {}
    BY <1>1 DEF JoinSubscribers, JoinRequest, MakeRequest, Unsubscribe, Caller, SendRequest,
                CannotSend, GiveUp, PeerInv
  <2>2. UNCHANGED <<link, closing, lastPeer, down, unanswered, peers, remoteSubs, up, handling, posted>>
    BY <1>1 DEF JoinSubscribers, JoinRequest, MakeRequest, Unsubscribe, Caller, SendRequest,
                CannotSend, GiveUp
  <2> QED BY <2>1, <2>2 DEF PeerInv, Free
<1>2. CASE Transmit
  <2>1. /\ link \in peers /\ up' = [up EXCEPT ![link] = Append(@, Head(toSend))]
        /\ unanswered' = unanswered \cup {Head(toSend).id}
        /\ UNCHANGED <<subs, down, link, closing, lastPeer, peers, remoteSubs, posted, handling>>
        /\ ~closing
    BY <1>2 DEF Transmit
  <2>2. link # NoPeer
    BY <2>1 DEF TypeOK, Peer, NoPeer
  <2>3. \A e \in Peer : e # link => up'[e] = up[e]
    BY <2>1 DEF TypeOK
  <2> QED BY <2>1, <2>2, <2>3 DEF PeerInv, Free
<1>3. CASE TransmitLost
  BY <1>3 DEF TransmitLost, PeerInv, Free
<1>4. CASE TransmitFails
  BY <1>4, AnswerFacts DEF TransmitFails, PeerInv, Free
<1>5. CASE ReceiveSignal \/ ReceiveRemoved
  <2>1. link # NoPeer /\ UNCHANGED <<link, closing, lastPeer, peers, remoteSubs, up, handling, posted>>
    BY <1>5 DEF ReceiveSignal, ReceiveRemoved
  <2> QED BY <2>1 DEF PeerInv, Free
<1>6. CASE ReceiveReply
  <2>1. link # NoPeer /\ UNCHANGED <<link, closing, lastPeer, peers, remoteSubs, up, handling, posted>>
    BY <1>6 DEF ReceiveReply
  <2> QED BY <2>1 DEF PeerInv, Free
<1>7. CASE LoseLink
  BY <1>7, BoundAssumption DEF LoseLink, PeerInv, Free, TypeOK, NoPeer
<1>8. CASE CloseLink
  <2>1. link = NoPeer => subs' = {}
    BY <1>8, AnswerFacts DEF CloseLink, PeerInv
  <2> QED BY <1>8, <2>1 DEF CloseLink, PeerInv, Free
<1>9. CASE Connect
  <2>1. lastPeer' = lastPeer + 1 /\ lastPeer \in Nat
    BY <1>9, BoundAssumption DEF Connect, TypeOK
  <2>2. link' = lastPeer' /\ link' # NoPeer /\ closing' = FALSE
    BY <1>9, <2>1 DEF Connect, NoPeer, TypeOK
  <2>3. peers' \subseteq 1 .. lastPeer' /\ peers \subseteq peers'
    <3>1. peers' = peers \cup {lastPeer'} BY <1>9 DEF Connect
    <3>2. lastPeer' \in 1 .. lastPeer' /\ 1 .. lastPeer \subseteq 1 .. lastPeer' BY <2>1
    <3>3. peers \subseteq 1 .. lastPeer BY DEF PeerInv
    <3> QED BY <3>1, <3>2, <3>3
  <2>4. \A i \in DOMAIN posted : posted[i].to \in 1 .. lastPeer'
    BY <2>1 DEF PeerInv
  <2> QED BY <1>9, <2>1, <2>2, <2>3, <2>4 DEF Connect, PeerInv, Free
<1> QED
  BY <1>1, <1>2, <1>3, <1>4, <1>5, <1>6, <1>7, <1>8, <1>9 DEF TransmitAny, ReceiveAny

\* A message for a connected peer keeps the posted messages in order.
LEMMA PostFacts ==
  ASSUME TypeOK, NEW e, NEW m, Post(e, m)
  PROVE  /\ DOMAIN posted' = 1 .. Len(posted) + 1
         /\ DOMAIN posted = 1 .. Len(posted) /\ Len(posted) \in Nat
         /\ \A i \in DOMAIN posted : posted'[i] = posted[i]
         /\ posted'[Len(posted) + 1] = [to |-> e, msg |-> m]
<1>1. posted \in Seq([to : Peer, msg : Message])
  BY DEF TypeOK
<1> QED BY <1>1, AppendFacts DEF Post

LEMMA PostPeer ==
  ASSUME TypeOK, PeerInv, NEW e \in peers, NEW m, Post(e, m), UNCHANGED lastPeer
  PROVE  \A i \in DOMAIN posted' : posted'[i].to \in 1 .. lastPeer'
<1>0. /\ DOMAIN posted' = 1 .. Len(posted) + 1
      /\ DOMAIN posted = 1 .. Len(posted) /\ Len(posted) \in Nat
      /\ \A i \in DOMAIN posted : posted'[i] = posted[i]
      /\ posted'[Len(posted) + 1] = [to |-> e, msg |-> m]
  BY PostFacts
<1>1. posted'[Len(posted) + 1].to \in 1 .. lastPeer'
  <2>1. e \in 1 .. lastPeer' BY DEF PeerInv
  <2>2. posted'[Len(posted) + 1].to = e BY <1>0
  <2> QED BY <2>1, <2>2
<1>2. \A i \in DOMAIN posted : posted'[i].to \in 1 .. lastPeer'
  BY <1>0 DEF PeerInv
<1>3. \A i \in DOMAIN posted' : i \in DOMAIN posted \/ i = Len(posted) + 1
  BY <1>0
<1> QED BY <1>1, <1>2, <1>3

LEMMA PublisherPeer ==
  ASSUME TypeOK, PeerInv,
         \/ DeliverPosted \/ Handle
         \/ \E e \in Peer : \/ ReceiveSubscribe(e) \/ ReceiveUnsubscribe(e) \/ LosePeer(e)
                            \/ NotifyRemoved(e) \/ PublishTo(e)
         \/ MakeObject \/ RemoveObject \/ DropSubscribers \/ ReleaseName \/ Publish
         \/ \E l \in LocalReceiver : LocalAny(l)
  PROVE  PeerInv'
<1> USE DEF Elsewhere, Untouched, subVars, wireVars, linkVars, objVars, pubVars, sockVars, sigVars
<1>1. CASE DeliverPosted
  <2>1. posted \in Seq([to : Peer, msg : Message]) /\ posted # <<>>
    BY <1>1 DEF DeliverPosted, TypeOK
  <2>2. \A i \in DOMAIN posted' : posted'[i].to \in 1 .. lastPeer
    BY <1>1, <2>1, TailFacts DEF DeliverPosted, PeerInv
  <2>3. link = NoPeer => down' = <<>>
    BY <1>1, <2>1, TailFacts DEF DeliverPosted, PeerInv, NoPeer
  <2> QED BY <1>1, <2>2, <2>3 DEF DeliverPosted, PeerInv, Free
<1>2. CASE Add BY <1>2 DEF Add, PeerInv, Free
<1>3. CASE Recheck BY <1>3 DEF Recheck, PeerInv, Free
<1>4. CASE Undo BY <1>4 DEF Undo, PeerInv, Free
<1>5. CASE SendReply
  <2>1. handling.peer \in peers BY <1>5 DEF SendReply, PeerInv, Free
  <2>2. \A i \in DOMAIN posted' : posted'[i].to \in 1 .. lastPeer'
    BY <1>5, <2>1, PostPeer DEF SendReply
  <2> QED BY <1>5, <2>2 DEF SendReply, PeerInv, Free, NotHandling
<1>6. ASSUME NEW e \in Peer, ReceiveSubscribe(e) \/ ReceiveUnsubscribe(e)
      PROVE  PeerInv'
  <2>1. up[e] # <<>> /\ e \in peers /\ \A d \in Peer : d # e => up'[d] = up[d]
    BY <1>6 DEF ReceiveSubscribe, ReceiveUnsubscribe, TypeOK
  <2>2. handling'.peer = e /\ handling'.step # "none"
    BY <1>6 DEF ReceiveSubscribe, ReceiveUnsubscribe
  <2>3. remoteSubs' \subseteq peers
    BY <1>6 DEF ReceiveSubscribe, ReceiveUnsubscribe, PeerInv
  <2>4. UNCHANGED <<link, closing, lastPeer, down, subs, unanswered, peers, posted>>
    BY <1>6 DEF ReceiveSubscribe, ReceiveUnsubscribe
  <2> QED BY <2>1, <2>2, <2>3, <2>4 DEF PeerInv, Free
<1>7. ASSUME NEW e \in Peer, LosePeer(e)
      PROVE  PeerInv'
  BY <1>7 DEF LosePeer, PeerInv, Free, TypeOK
<1>8. ASSUME NEW e \in Peer, NotifyRemoved(e) \/ PublishTo(e)
      PROVE  PeerInv'
  <2>1. \A i \in DOMAIN posted' : posted'[i].to \in 1 .. lastPeer'
    <3>1. CASE e \in peers
      BY <1>8, <3>1, PostPeer DEF NotifyRemoved, PublishTo
    <3>2. CASE e \notin peers
      BY <1>8, <3>2 DEF NotifyRemoved, PublishTo, PeerInv
    <3> QED BY <3>1, <3>2
  <2> QED BY <1>8, <2>1 DEF NotifyRemoved, PublishTo, PeerInv, Free
<1>9. CASE MakeObject \/ RemoveObject \/ ReleaseName
  <2>1. UNCHANGED <<link, closing, lastPeer, down, subs, unanswered, up, peers, remoteSubs, posted,
                    handling>>
    BY <1>9 DEF MakeObject, RemoveObject, ReleaseName
  <2> QED BY <2>1 DEF PeerInv, Free
<1>10. CASE DropSubscribers BY <1>10 DEF DropSubscribers, PeerInv, Free
<1>11. CASE Publish BY <1>11 DEF Publish, PeerInv, Free
<1>12. ASSUME NEW l \in LocalReceiver, LocalAny(l)
       PROVE  PeerInv'
  <2>1. UNCHANGED <<link, closing, lastPeer, down, subs, unanswered, up, peers, remoteSubs, posted,
                    handling>>
    BY <1>12 DEF LocalAny, LocalStep, LocalCheck, LocalAdd, LocalRecheck, LocalUndo,
                 LocalUnsubscribe
  <2> QED BY <2>1 DEF PeerInv, Free
<1> QED
  BY <1>1, <1>2, <1>3, <1>4, <1>5, <1>6, <1>7, <1>8, <1>9, <1>10, <1>11, <1>12 DEF Handle

LEMMA PeerStep == TypeOK /\ PeerInv /\ [Next]_vars => PeerInv'
<1>1. PeerInv /\ UNCHANGED vars => PeerInv'
  BY DEF PeerInv, Free, vars, subVars, wireVars, linkVars, pubVars, sockVars
<1> QED BY <1>1, SubscriberPeer, PublisherPeer DEF Next, LocalAny

-----------------------------------------------------------------------------
(* Calls *)

LEMMA CallInit == Init => CallInv
  BY DEF Init, CallInv, NoRequest

\* The pending request is answered: it leaves the tables, or a new one takes
\* its place.
LEMMA AnswerCall ==
  ASSUME TypeOK, CallInv, toSend # <<>> \/ unanswered # {},
         NEW ok \in BOOLEAN, Answer(pending.id, ok, <<>>), unanswered' = {}
  PROVE  CallInv'
<1>1. Resolve(ok, <<>>)
  BY DEF Answer
<1>2. pending # NoRequest /\ pending.id = requests /\ subs = {}
      /\ \A r \in Receiver : thread[r] \notin {"send", "fail"}
  BY DEF CallInv
<1>3. \A r \in Receiver : thread'[r] \notin {"send", "fail"}
  BY <1>1, <1>2 DEF Resolve, Served, TypeOK
<1>4. CASE ~pending.subscribe /\ pending.receivers # {} /\ link # NoPeer
  <2>1. /\ pending' = [pending EXCEPT !.id = requests', !.subscribe = TRUE]
        /\ toSend' = Append(<<>>, [id |-> requests', subscribe |-> TRUE])
        /\ subs' = subs
    BY <1>1, <1>4 DEF Resolve
  <2>2. /\ pending'.id = requests' /\ pending'.subscribe = TRUE
        /\ pending'.receivers = pending.receivers
    BY <2>1 DEF TypeOK
  <2>3. pending' # NoRequest BY <2>2 DEF NoRequest
  <2>4. toSend' = <<[id |-> pending'.id, subscribe |-> pending'.subscribe]>>
    BY <2>1, <2>2
  <2> QED BY <1>2, <1>3, <1>4, <2>1, <2>2, <2>3, <2>4 DEF CallInv
<1>5. CASE ~(~pending.subscribe /\ pending.receivers # {} /\ link # NoPeer)
  <2>1. pending' = NoRequest /\ toSend' = <<>>
    BY <1>1, <1>5 DEF Resolve
  <2> QED BY <1>3, <2>1 DEF CallInv, NoRequest
<1> QED BY <1>4, <1>5

\* A new request of a caller that is about to send it.
LEMMA NewRequestCall ==
  ASSUME TypeOK, CallInv, NEW r \in Receiver, NEW b \in BOOLEAN, NEW R \in SUBSET Receiver,
         NewRequest(b, R), b => R # {}, subs' = {}, toSend = <<>>, unanswered = {},
         \A q \in Receiver : thread[q] \in {"send", "fail"} => q = r,
         thread' = [thread EXCEPT ![r] = "send"], UNCHANGED <<toSend, unanswered>>
  PROVE  CallInv'
<1>1. pending' = [id |-> requests + 1, subscribe |-> b, receivers |-> R] /\ requests' = requests + 1
  BY DEF NewRequest
<1>2. pending'.id = requests' /\ pending'.subscribe = b /\ pending'.receivers = R
  BY <1>1
<1>3. requests' # 0 BY <1>1 DEF TypeOK
<1>4. pending' # NoRequest BY <1>2, <1>3 DEF NoRequest
<1>5. \A q \in Receiver : thread'[q] \in {"send", "fail"} => q = r
  BY DEF TypeOK
<1> QED BY <1>2, <1>4, <1>5 DEF CallInv

LEMMA CallCall ==
  ASSUME TypeOK, CallInv, NEW r \in Receiver,
         JoinSubscribers(r) \/ JoinRequest(r) \/ MakeRequest(r) \/ Unsubscribe(r) \/ Caller(r)
  PROVE  CallInv'
<1> USE DEF Others, wireVars
<1>0. pending = NoRequest => /\ toSend = <<>> /\ unanswered = {}
                             /\ \A q \in Receiver : thread[q] \notin {"send", "fail"}
  BY DEF CallInv
<1>1. CASE JoinSubscribers(r)
  BY <1>1 DEF JoinSubscribers, CallInv
<1>2. CASE JoinRequest(r)
  <2>1. /\ pending'.id = pending.id /\ pending'.subscribe = pending.subscribe
        /\ pending'.receivers = pending.receivers \cup {r}
    BY <1>2 DEF JoinRequest, TypeOK
  <2>2. pending' # NoRequest BY <2>1 DEF NoRequest
  <2>3. \A q \in Receiver : thread'[q] \in {"send", "fail"} => thread[q] \in {"send", "fail"}
    BY <1>2 DEF JoinRequest, TypeOK
  <2>4. UNCHANGED <<subs, requests, toSend, unanswered>> /\ pending # NoRequest
    BY <1>2 DEF JoinRequest
  <2> QED BY <2>1, <2>2, <2>3, <2>4 DEF CallInv
<1>3. CASE MakeRequest(r)
  BY <1>0, <1>3, NewRequestCall DEF MakeRequest
<1>4. CASE Unsubscribe(r)
  <2>1. CASE subs = {r} /\ pending = NoRequest
    <3>1. subs' = {} BY <1>4, <2>1 DEF Unsubscribe
    <3>2. NewRequest(FALSE, {}) /\ thread' = [thread EXCEPT ![r] = "send"]
      BY <1>4, <2>1 DEF Unsubscribe
    <3>3. UNCHANGED <<toSend, unanswered>> BY <1>4 DEF Unsubscribe
    <3> QED BY <1>0, <2>1, <3>1, <3>2, <3>3, NewRequestCall
  <2>2. CASE ~(subs = {r} /\ pending = NoRequest)
    <3>1. UNCHANGED <<pending, requests, thread, toSend, unanswered>> /\ subs' \subseteq subs
      BY <1>4, <2>2 DEF Unsubscribe
    <3> QED BY <3>1 DEF CallInv
  <2> QED BY <2>1, <2>2
<1>5. CASE SendRequest(r)
  <2>0. toSend = <<>> /\ unanswered = {} /\ pending # NoRequest
    BY <1>5 DEF SendRequest, CallInv
  <2>1. toSend' = <<[id |-> pending.id, subscribe |-> pending.subscribe]>>
    <3>1. toSend' = Append(<<>>, [id |-> pending.id, subscribe |-> pending.subscribe])
      BY <1>5, <2>0 DEF SendRequest
    <3> QED BY <3>1
  <2>2. \A q \in Receiver : thread'[q] \notin {"send", "fail"}
    BY <1>5 DEF SendRequest, CallInv, TypeOK
  <2>3. UNCHANGED <<pending, requests, subs, unanswered>> /\ thread[r] = "send"
    BY <1>5 DEF SendRequest
  <2> QED BY <2>0, <2>1, <2>2, <2>3 DEF CallInv
<1>6. CASE CannotSend(r)
  <2>1. UNCHANGED <<pending, requests, subs, toSend, unanswered>> /\ thread[r] = "send"
    BY <1>6 DEF CannotSend
  <2>2. \A q \in Receiver : thread'[q] \in {"send", "fail"} <=> thread[q] \in {"send", "fail"}
    BY <1>6 DEF CannotSend, TypeOK
  <2> QED BY <2>1, <2>2 DEF CallInv
<1>7. CASE GiveUp(r)
  <2>1. thread[r] = "fail" /\ subs' = subs /\ UNCHANGED <<toSend, unanswered>>
    BY <1>7 DEF GiveUp
  <2>2. subs = {} /\ toSend = <<>> /\ unanswered = {}
        /\ \A q \in Receiver : thread[q] \in {"send", "fail"} => q = r
    BY <2>1 DEF CallInv
  <2>3. CASE ~pending.subscribe /\ pending.receivers # {}
    <3>1. NewRequest(TRUE, pending.receivers) /\ thread' = [thread EXCEPT ![r] = "send"]
      BY <1>7, <2>3 DEF GiveUp
    <3>2. pending.receivers \in SUBSET Receiver BY DEF TypeOK
    <3> QED BY <2>1, <2>2, <2>3, <3>1, <3>2, NewRequestCall
  <2>4. CASE ~(~pending.subscribe /\ pending.receivers # {})
    <3>1. pending' = NoRequest /\ thread' = [Served EXCEPT ![r] = "idle"]
      BY <1>7, <2>4 DEF GiveUp
    <3>2. \A q \in Receiver : thread'[q] \notin {"send", "fail"}
      BY <2>2, <3>1 DEF Served
    <3> QED BY <2>1, <2>2, <3>1, <3>2 DEF CallInv, NoRequest
  <2> QED BY <2>3, <2>4
<1> QED BY <1>1, <1>2, <1>3, <1>4, <1>5, <1>6, <1>7 DEF Caller

\* The posted request is the pending one, and the only one.
LEMMA ToSendFacts ==
  ASSUME CallInv, toSend # <<>>
  PROVE  /\ Head(toSend).id = pending.id /\ Head(toSend).subscribe = pending.subscribe
         /\ Head(toSend) = [id |-> pending.id, subscribe |-> pending.subscribe]
         /\ Tail(toSend) = <<>> /\ unanswered = {} /\ pending # NoRequest
<1>1. /\ toSend = <<[id |-> pending.id, subscribe |-> pending.subscribe]>>
      /\ unanswered = {} /\ pending # NoRequest
  BY DEF CallInv
<1>2. Tail(<<[id |-> pending.id, subscribe |-> pending.subscribe]>>) = <<>>
  OBVIOUS
<1>3. Head(toSend) = [id |-> pending.id, subscribe |-> pending.subscribe]
  BY <1>1
<1> QED BY <1>1, <1>2, <1>3

LEMMA LoopCall ==
  ASSUME TypeOK, PeerInv, CallInv, WayInv,
         TransmitAny \/ ReceiveAny \/ LoseLink \/ CloseLink \/ Connect
  PROVE  CallInv'
<1> USE DEF subVars, wireVars
<1>1. CASE Transmit \/ TransmitLost
  <2>1. toSend # <<>> /\ toSend' = Tail(toSend) /\ UNCHANGED <<subs, pending, requests, thread>>
        /\ unanswered' = unanswered \cup {Head(toSend).id}
    BY <1>1 DEF Transmit, TransmitLost
  <2>2. toSend' = <<>> /\ unanswered' = {pending.id} /\ pending # NoRequest
    BY <2>1, ToSendFacts
  <2>3. \A r \in Receiver : thread[r] \notin {"send", "fail"}
    BY <2>1 DEF CallInv
  <2> QED BY <2>1, <2>2, <2>3 DEF CallInv
<1>2. CASE TransmitFails
  BY <1>2, ToSendFacts, AnswerCall DEF TransmitFails
<1>3. CASE ReceiveSignal
  BY <1>3 DEF ReceiveSignal, CallInv
<1>4. CASE ReceiveReply
  <2>1. down \in Seq(Message) /\ down # <<>> BY <1>4 DEF ReceiveReply, TypeOK
  <2>2. DownReply(1) /\ Head(down) = down[1] /\ Head(down).ok \in BOOLEAN
    <3>1. Head(down) \in Message /\ 1 \in DOMAIN down /\ Head(down) = down[1]
      BY <2>1, TailFacts
    <3>2. Head(down).kind = "reply" BY <1>4 DEF ReceiveReply
    <3>3. Head(down) \in [kind : {"signal", "reply"}, n : Nat, ok : BOOLEAN]
      BY <3>1, <3>2 DEF Message, Removed
    <3>4. Head(down).ok \in BOOLEAN BY <3>3
    <3>5. DownReply(1) BY <3>1, <3>2 DEF DownReply
    <3> QED BY <3>1, <3>4, <3>5
  <2>3. Head(down).n = pending.id /\ unanswered # {}
    BY <2>1, <2>2, TailFacts DEF WayInv
  <2>4. toSend = <<>> /\ unanswered = {pending.id}
    BY <2>3 DEF CallInv
  <2>5. Answer(pending.id, Head(down).ok, <<>>) /\ unanswered' = {}
    BY <1>4, <2>3, <2>4 DEF ReceiveReply
  <2> QED BY <2>2, <2>3, <2>5, AnswerCall
<1>5. CASE ReceiveRemoved \/ LoseLink
  BY <1>5 DEF ReceiveRemoved, LoseLink, CallInv
<1>6. CASE CloseLink
  <2>1. CASE unanswered = {}
    BY <1>6, <2>1 DEF CloseLink, CallInv
  <2>2. CASE unanswered # {}
    <3>1. toSend = <<>> /\ unanswered = {pending.id}
      BY <2>2 DEF CallInv
    <3>2. Answer(pending.id, FALSE, <<>>) /\ unanswered' = {}
      BY <1>6, <2>2, <3>1 DEF CloseLink
    <3> QED BY <2>2, <3>2, AnswerCall
  <2> QED BY <2>1, <2>2
<1>7. CASE Connect
  BY <1>7 DEF Connect, CallInv
<1> QED BY <1>1, <1>2, <1>3, <1>4, <1>5, <1>6, <1>7 DEF TransmitAny, ReceiveAny

\* The steps of the publisher's context do not touch the subscriber's tables.
PublisherNext ==
  \/ DeliverPosted \/ Handle
  \/ \E e \in Peer : \/ ReceiveSubscribe(e) \/ ReceiveUnsubscribe(e) \/ LosePeer(e)
                     \/ NotifyRemoved(e) \/ PublishTo(e)
  \/ MakeObject \/ RemoveObject \/ DropSubscribers \/ ReleaseName \/ Publish
  \/ \E l \in LocalReceiver : LocalAny(l)

LEMMA PublisherFrame ==
  ASSUME PublisherNext
  PROVE  UNCHANGED <<subVars, toSend, unanswered, link, closing>>
<1> USE DEF Elsewhere, Untouched, subVars, wireVars, linkVars
<1>1. CASE DeliverPosted BY <1>1 DEF DeliverPosted
<1>2. CASE Handle BY <1>2 DEF Handle, Add, Recheck, Undo, SendReply
<1>3. ASSUME NEW e \in Peer, ReceiveSubscribe(e) \/ ReceiveUnsubscribe(e) \/ LosePeer(e)
                             \/ NotifyRemoved(e) \/ PublishTo(e)
      PROVE  UNCHANGED <<subVars, toSend, unanswered, link, closing>>
  BY <1>3 DEF ReceiveSubscribe, ReceiveUnsubscribe, LosePeer, NotifyRemoved, PublishTo
<1>4. CASE MakeObject \/ RemoveObject \/ DropSubscribers \/ ReleaseName \/ Publish
  BY <1>4 DEF MakeObject, RemoveObject, DropSubscribers, ReleaseName, Publish
<1>5. ASSUME NEW l \in LocalReceiver, LocalAny(l)
      PROVE  UNCHANGED <<subVars, toSend, unanswered, link, closing>>
  BY <1>5 DEF LocalAny, LocalStep, LocalCheck, LocalAdd, LocalRecheck, LocalUndo, LocalUnsubscribe
<1> QED BY <1>1, <1>2, <1>3, <1>4, <1>5 DEF PublisherNext

SubscriberNext ==
  \/ \E r \in Receiver : \/ JoinSubscribers(r) \/ JoinRequest(r) \/ MakeRequest(r)
                         \/ Unsubscribe(r) \/ Caller(r)
  \/ TransmitAny \/ ReceiveAny \/ LoseLink \/ CloseLink \/ Connect

LEMMA NextSplit == Next <=> SubscriberNext \/ PublisherNext
  BY DEF Next, SubscriberNext, PublisherNext, LocalAny

LEMMA CallStep == TypeOK /\ PeerInv /\ CallInv /\ WayInv /\ [Next]_vars => CallInv'
<1> SUFFICES ASSUME TypeOK, PeerInv, CallInv, WayInv, [Next]_vars PROVE CallInv'
  OBVIOUS
<1>1. CASE SubscriberNext BY <1>1, CallCall, LoopCall DEF SubscriberNext
<1>2. CASE UNCHANGED <<subVars, toSend, unanswered>>
  BY <1>2 DEF CallInv, subVars
<1> QED BY <1>1, <1>2, NextSplit, PublisherFrame DEF vars, wireVars

-----------------------------------------------------------------------------
(* The way of a request *)

\* Nothing of a request is on its way to the publisher or back.
NothingOnTheWay ==
  /\ link # NoPeer => up[link] = <<>> /\ NothingPosted
  /\ ~InHand /\ NothingDown

LEMMA WayInit == Init => WayInv
  BY DEF Init, WayInv, PostedReply, DownReply, InHand, NotHandling, NoPeer

\* Without an unanswered request nothing is on the way.
LEMMA NoneUnanswered == WayInv /\ unanswered = {} => NothingOnTheWay
  BY DEF WayInv, NothingOnTheWay, NothingPosted, NothingDown

LEMMA NothingIsFine == ASSUME NothingOnTheWay' PROVE WayInv'
  BY DEF WayInv, NothingOnTheWay, NothingPosted, NothingDown

\* The step moves no request on, though posted messages and those on the
\* connection may move up by one, and a request may be lost.
LEMMA WayKept ==
  ASSUME WayInv, NEW j \in {0, 1}, NEW k \in {0, 1},
         UNCHANGED <<link, unanswered>>,
         pending'.id = pending.id, pending'.subscribe = pending.subscribe,
         link # NoPeer => up'[link] = up[link] \/ up'[link] = <<>>,
         InHand' => InHand /\ handling'.id = handling.id
                    /\ (handling'.step # "reply" => handling.step # "reply"),
         \A i \in DOMAIN posted' : PostedReply(i)' =>
           i \in Nat /\ PostedReply(i + j) /\ posted'[i] = posted[i + j],
         \A i \in DOMAIN down' : DownReply(i)' =>
           i \in Nat /\ DownReply(i + k) /\ down'[i] = down[i + k]
  PROVE  WayInv'
<1>1. NothingPosted => NothingPosted'
  BY DEF NothingPosted, PostedReply
<1>2. NothingDown => NothingDown'
  BY DEF NothingDown, DownReply
<1>3. (link # NoPeer /\ up[link] # <<>> =>
         /\ up[link] = <<[id |-> pending.id, subscribe |-> pending.subscribe]>>
         /\ unanswered # {} /\ ~InHand /\ NothingPosted /\ NothingDown)'
  BY <1>1, <1>2 DEF WayInv
<1>4. (InHand => /\ handling.id = pending.id
                 /\ handling.step # "reply" => pending.subscribe
                 /\ unanswered # {} /\ NothingPosted /\ NothingDown)'
  BY <1>1, <1>2 DEF WayInv
<1>5. ASSUME NEW i \in DOMAIN posted', PostedReply(i)', link # NoPeer
      PROVE  /\ posted'[i].msg.n = pending'.id
             /\ unanswered' # {} /\ NothingDown'
             /\ \A q \in DOMAIN posted' : PostedReply(q)' => q = i
  <2>1. i \in Nat /\ PostedReply(i + j) /\ posted'[i] = posted[i + j] /\ i + j \in DOMAIN posted
    BY <1>5 DEF PostedReply
  <2>2. /\ posted[i + j].msg.n = pending.id
        /\ unanswered # {} /\ NothingDown
        /\ \A q \in DOMAIN posted : PostedReply(q) => q = i + j
    BY <1>5, <2>1 DEF WayInv
  <2>3. ASSUME NEW q \in DOMAIN posted', PostedReply(q)' PROVE q = i
    <3>1. q \in Nat /\ PostedReply(q + j) /\ q + j \in DOMAIN posted
      BY <2>3 DEF PostedReply
    <3>2. q + j = i + j BY <2>2, <3>1
    <3> QED BY <2>1, <3>1, <3>2
  <2> QED BY <1>2, <2>1, <2>2, <2>3
<1>6. ASSUME NEW i \in DOMAIN down', DownReply(i)'
      PROVE  /\ down'[i].n = pending'.id
             /\ unanswered' # {}
             /\ \A q \in DOMAIN down' : DownReply(q)' => q = i
  <2>1. i \in Nat /\ DownReply(i + k) /\ down'[i] = down[i + k] /\ i + k \in DOMAIN down
    BY <1>6 DEF DownReply
  <2>2. /\ down[i + k].n = pending.id
        /\ unanswered # {}
        /\ \A q \in DOMAIN down : DownReply(q) => q = i + k
    BY <2>1 DEF WayInv
  <2>3. ASSUME NEW q \in DOMAIN down', DownReply(q)' PROVE q = i
    <3>1. q \in Nat /\ DownReply(q + k) /\ q + k \in DOMAIN down
      BY <2>3 DEF DownReply
    <3>2. q + k = i + k BY <2>2, <3>1
    <3> QED BY <2>1, <3>1, <3>2
  <2> QED BY <2>1, <2>2, <2>3
<1> QED BY <1>3, <1>4, <1>5, <1>6 DEF WayInv

\* A message, other than a reply on the present connection, is posted.
LEMMA PostOther ==
  ASSUME TypeOK, NEW e, NEW m, Post(e, m), m.kind # "reply" \/ e # link, UNCHANGED link
  PROVE  \A i \in DOMAIN posted' : PostedReply(i)' =>
           i \in Nat /\ PostedReply(i + 0) /\ posted'[i] = posted[i + 0]
<1>1. /\ DOMAIN posted' = 1 .. Len(posted) + 1
      /\ DOMAIN posted = 1 .. Len(posted) /\ Len(posted) \in Nat
      /\ \A i \in DOMAIN posted : posted'[i] = posted[i]
      /\ posted'[Len(posted) + 1] = [to |-> e, msg |-> m]
  BY PostFacts
<1>2. SUFFICES ASSUME NEW i \in DOMAIN posted', PostedReply(i)'
               PROVE  i \in Nat /\ PostedReply(i + 0) /\ posted'[i] = posted[i + 0]
  OBVIOUS
<1>3. i # Len(posted) + 1
  BY <1>1, <1>2 DEF PostedReply
<1>4. i \in Nat /\ i + 0 = i /\ i \in DOMAIN posted
  BY <1>1, <1>3
<1> QED BY <1>1, <1>2, <1>4 DEF PostedReply

\* Posted messages, and messages on the connection, that stay where they are.
LEMMA StayFacts ==
  ASSUME TypeOK
  PROVE  /\ UNCHANGED <<link, posted>> =>
              \A i \in DOMAIN posted' : PostedReply(i)' =>
                i \in Nat /\ PostedReply(i + 0) /\ posted'[i] = posted[i + 0]
         /\ UNCHANGED down =>
              \A i \in DOMAIN down' : DownReply(i)' =>
                i \in Nat /\ DownReply(i + 0) /\ down'[i] = down[i + 0]
<1>1. DOMAIN posted = 1 .. Len(posted) /\ Len(posted) \in Nat
      /\ DOMAIN down = 1 .. Len(down) /\ Len(down) \in Nat
  <2>1. posted \in Seq([to : Peer, msg : Message]) /\ down \in Seq(Message)
    BY DEF TypeOK
  <2> QED BY <2>1
<1>2. \A i \in DOMAIN posted : i \in Nat /\ i + 0 = i
  BY <1>1
<1>3. \A i \in DOMAIN down : i \in Nat /\ i + 0 = i
  BY <1>1
<1> QED BY <1>2, <1>3 DEF PostedReply, DownReply

LEMMA CallWay ==
  ASSUME TypeOK, CallInv, WayInv, NEW r \in Receiver,
         JoinSubscribers(r) \/ JoinRequest(r) \/ MakeRequest(r) \/ Unsubscribe(r) \/ Caller(r)
  PROVE  WayInv'
<1>1. UNCHANGED <<link, up, unanswered, handling, posted, down>>
  BY DEF JoinSubscribers, JoinRequest, MakeRequest, Unsubscribe, Caller, SendRequest, CannotSend,
         GiveUp, Others, wireVars, linkVars, sockVars
<1>2. CASE pending'.id = pending.id /\ pending'.subscribe = pending.subscribe
  BY <1>1, <1>2 DEF WayInv, PostedReply, DownReply, InHand, NothingPosted, NothingDown
<1>3. CASE ~(pending'.id = pending.id /\ pending'.subscribe = pending.subscribe)
  <2>1. pending = NoRequest \/ thread[r] = "fail"
    <3>1. CASE JoinRequest(r) BY <1>3, <3>1 DEF JoinRequest, TypeOK
    <3>2. CASE ~JoinRequest(r)
      BY <1>3, <3>2 DEF JoinSubscribers, MakeRequest, Unsubscribe, Caller, SendRequest, CannotSend,
                         GiveUp
    <3> QED BY <3>1, <3>2
  <2>2. unanswered = {} BY <2>1 DEF CallInv
  <2>3. NothingOnTheWay BY <2>2, NoneUnanswered
  <2>4. NothingOnTheWay'
    BY <1>1, <2>3 DEF NothingOnTheWay, NothingPosted, NothingDown, PostedReply, DownReply, InHand
  <2> QED BY <2>4, NothingIsFine
<1> QED BY <1>2, <1>3

LEMMA LoopWay ==
  ASSUME TypeOK, PeerInv, CallInv, WayInv,
         TransmitAny \/ ReceiveAny \/ LoseLink \/ CloseLink \/ Connect
  PROVE  WayInv'
<1> USE DEF subVars, wireVars, linkVars, sockVars
<1>1. CASE TransmitAny
  <2>1. toSend # <<>> /\ UNCHANGED <<link, handling, posted, down>>
    BY <1>1 DEF TransmitAny, Transmit, TransmitLost, TransmitFails
  <2>2. unanswered = {} /\ pending # NoRequest
        /\ Head(toSend) = [id |-> pending.id, subscribe |-> pending.subscribe]
    BY <2>1, ToSendFacts
  <2>3. NothingOnTheWay BY <2>2, NoneUnanswered
  <2>4. ~InHand' /\ NothingDown' /\ (link # NoPeer => NothingPosted')
    BY <2>1, <2>3 DEF NothingOnTheWay, NothingPosted, NothingDown, PostedReply, DownReply, InHand
  <2>5. CASE TransmitLost \/ TransmitFails
    <3>1. up' = up BY <2>5 DEF TransmitLost, TransmitFails
    <3>2. NothingOnTheWay' BY <2>1, <2>3, <2>4, <3>1 DEF NothingOnTheWay
    <3> QED BY <3>2, NothingIsFine
  <2>6. CASE Transmit
    <3>1. link \in Peer /\ link # NoPeer /\ up[link] = <<>>
      BY <2>3, <2>6 DEF Transmit, TypeOK, NothingOnTheWay, Peer, NoPeer
    <3>2. up'[link] = Append(<<>>, Head(toSend)) BY <2>6, <3>1 DEF Transmit, TypeOK
    <3>3. up'[link] = <<[id |-> pending.id, subscribe |-> pending.subscribe]>> BY <2>2, <3>2
    <3>4. unanswered' # {} /\ pending' = pending BY <2>6 DEF Transmit
    <3> QED BY <2>1, <2>4, <3>1, <3>3, <3>4 DEF WayInv, NothingPosted, NothingDown
  <2> QED BY <1>1, <2>5, <2>6 DEF TransmitAny
<1>2. CASE ReceiveSignal \/ ReceiveRemoved
  <2>1. /\ UNCHANGED <<link, unanswered, pending, up, handling, posted>>
        /\ down # <<>> /\ down' = Tail(down)
    BY <1>2 DEF ReceiveSignal, ReceiveRemoved
  <2>2. down \in Seq(Message) BY DEF TypeOK
  <2>3. /\ DOMAIN down = 1 .. Len(down) /\ Len(down) \in Nat
        /\ DOMAIN Tail(down) = 1 .. Len(down) - 1
        /\ \A i \in DOMAIN Tail(down) : i + 1 \in DOMAIN down /\ Tail(down)[i] = down[i + 1]
    BY <2>1, <2>2, TailFacts
  <2>4. \A i \in DOMAIN down' : DownReply(i)' =>
          i \in Nat /\ DownReply(i + 1) /\ down'[i] = down[i + 1]
    BY <2>1, <2>3 DEF DownReply
  <2>5. \A i \in DOMAIN posted' : PostedReply(i)' =>
          i \in Nat /\ PostedReply(i + 0) /\ posted'[i] = posted[i + 0]
    BY <2>1, StayFacts
  <2>6. InHand' => InHand /\ handling' = handling BY <2>1 DEF InHand
  <2> QED BY <2>1, <2>4, <2>5, <2>6, WayKept
<1>3. CASE ReceiveReply
  <2>1. down \in Seq(Message) /\ down # <<>> BY <1>3 DEF ReceiveReply, TypeOK
  <2>2. /\ Head(down) \in Message /\ 1 \in DOMAIN down /\ Head(down) = down[1]
        /\ DOMAIN down = 1 .. Len(down) /\ Len(down) \in Nat
        /\ DOMAIN Tail(down) = 1 .. Len(down) - 1
        /\ \A i \in DOMAIN Tail(down) : i + 1 \in DOMAIN down /\ Tail(down)[i] = down[i + 1]
    BY <2>1, TailFacts
  <2>3. DownReply(1) BY <1>3, <2>2 DEF ReceiveReply, DownReply
  <2>4. \A i \in DOMAIN down : DownReply(i) => i = 1 BY <2>2, <2>3 DEF WayInv
  <2>5. UNCHANGED <<link, up, handling, posted>> /\ down' = Tail(down)
    BY <1>3 DEF ReceiveReply
  <2>6. NothingDown'
    <3>1. ASSUME NEW i \in DOMAIN down', DownReply(i)' PROVE FALSE
      <4>1. i \in 1 .. Len(down) - 1 /\ i + 1 \in DOMAIN down /\ DownReply(i + 1)
        BY <2>2, <2>5, <3>1 DEF DownReply
      <4>2. i + 1 = 1 BY <2>4, <4>1
      <4> QED BY <4>1, <4>2
    <3> QED BY <3>1 DEF NothingDown
  <2>7. ~NothingDown BY <2>2, <2>3 DEF NothingDown
  <2>8. (link # NoPeer => up[link] = <<>> /\ NothingPosted) /\ ~InHand
    BY <2>7 DEF WayInv, NothingPosted
  <2>9. NothingOnTheWay'
    BY <2>5, <2>6, <2>8 DEF NothingOnTheWay, NothingPosted, PostedReply, InHand
  <2> QED BY <2>9, NothingIsFine
<1>4. CASE LoseLink
  <2>1. link' = NoPeer /\ down' = <<>> BY <1>4 DEF LoseLink
  <2>2. NothingOnTheWay' BY <2>1 DEF NothingOnTheWay, NothingDown, DownReply, InHand
  <2> QED BY <2>2, NothingIsFine
<1>5. CASE CloseLink
  <2>1. link' = NoPeer /\ down' = <<>> BY <1>5 DEF CloseLink, PeerInv
  <2>2. NothingOnTheWay' BY <2>1 DEF NothingOnTheWay, NothingDown, DownReply, InHand
  <2> QED BY <2>2, NothingIsFine
<1>6. CASE Connect
  <2>1. link = NoPeer /\ lastPeer \in Nat /\ link' = lastPeer + 1 /\ link' \in Peer
        /\ UNCHANGED <<up, down, handling, posted>>
    BY <1>6, BoundAssumption DEF Connect, TypeOK, Peer
  <2>2. link' \notin 1 .. lastPeer /\ link' # NoPeer BY <2>1 DEF NoPeer
  <2>3. up'[link'] = <<>> BY <2>1, <2>2 DEF PeerInv
  <2>4. NothingPosted' BY <2>1, <2>2 DEF PeerInv, NothingPosted, PostedReply
  <2>5. ~InHand' BY <2>1, <2>2 DEF PeerInv, InHand
  <2>6. NothingDown' BY <2>1 DEF PeerInv, NothingDown, DownReply
  <2>7. NothingOnTheWay' BY <2>3, <2>4, <2>5, <2>6 DEF NothingOnTheWay
  <2> QED BY <2>7, NothingIsFine
<1> QED BY <1>1, <1>2, <1>3, <1>4, <1>5, <1>6 DEF ReceiveAny

\* The steps of the publisher's context in which requests and replies move on.
LEMMA DeliverWay ==
  ASSUME TypeOK, PeerInv, WayInv, DeliverPosted
  PROVE  WayInv'
<1>1. /\ posted \in Seq([to : Peer, msg : Message]) /\ posted # <<>>
      /\ posted' = Tail(posted)
      /\ UNCHANGED <<link, unanswered, pending, up, handling>>
  BY DEF DeliverPosted, TypeOK, subVars, linkVars
<1>2. /\ 1 \in DOMAIN posted /\ Head(posted) = posted[1]
      /\ DOMAIN posted = 1 .. Len(posted) /\ Len(posted) \in Nat
      /\ DOMAIN posted' = 1 .. Len(posted) - 1
      /\ \A i \in DOMAIN posted' : i + 1 \in DOMAIN posted /\ posted'[i] = posted[i + 1]
      /\ Head(posted) \in [to : Peer, msg : Message]
  BY <1>1, TailFacts
<1>3. ~InHand /\ ~InHand'
  BY <1>1 DEF DeliverPosted, Free, PeerInv, InHand
<1>4. \A i \in DOMAIN posted' : PostedReply(i)' =>
        i \in Nat /\ PostedReply(i + 1) /\ posted'[i] = posted[i + 1]
  BY <1>1, <1>2 DEF PostedReply
<1>5. CASE PostedReply(1)
  <2>1. link # NoPeer
    <3>1. posted[1].to = link /\ posted[1].to \in 1 .. lastPeer
      BY <1>2, <1>5 DEF PostedReply, PeerInv
    <3> QED BY <3>1 DEF NoPeer
  <2>2. /\ posted[1].msg.n = pending.id /\ unanswered # {} /\ NothingDown
        /\ \A q \in DOMAIN posted : PostedReply(q) => q = 1
    BY <1>5, <2>1 DEF WayInv, PostedReply
  <2>3. NothingPosted'
    <3>1. ASSUME NEW i \in DOMAIN posted', PostedReply(i)' PROVE FALSE
      <4>1. i \in 1 .. Len(posted) - 1 /\ PostedReply(i + 1) /\ i + 1 \in DOMAIN posted
        BY <1>2, <1>4, <3>1
      <4>2. i + 1 = 1 BY <2>2, <4>1
      <4> QED BY <4>1, <4>2
    <3> QED BY <3>1 DEF NothingPosted
  <2>4. up[link] = <<>>
    BY <1>2, <1>5, <2>1 DEF WayInv, NothingPosted
  <2>5. CASE Head(posted).to = link /\ link \in peers
    <3>1. down' = Append(down, Head(posted).msg) BY <2>5 DEF DeliverPosted
    <3>2. down \in Seq(Message) BY DEF TypeOK
    <3>3. /\ DOMAIN down' = 1 .. Len(down) + 1
          /\ DOMAIN down = 1 .. Len(down) /\ Len(down) \in Nat
          /\ \A i \in DOMAIN down : down'[i] = down[i]
          /\ down'[Len(down) + 1] = Head(posted).msg
      BY <3>1, <3>2, AppendFacts
    <3>4. ASSUME NEW i \in DOMAIN down', DownReply(i)' PROVE i = Len(down) + 1
      <4>1. CASE i \in DOMAIN down BY <2>2, <3>3, <3>4, <4>1 DEF NothingDown, DownReply
      <4>2. CASE i \notin DOMAIN down BY <3>3, <3>4, <4>2
      <4> QED BY <4>1, <4>2
    <3>5. ASSUME NEW i \in DOMAIN down', DownReply(i)'
          PROVE  /\ down'[i].n = pending'.id /\ unanswered' # {}
                 /\ \A q \in DOMAIN down' : DownReply(q)' => q = i
      <4>1. i = Len(down) + 1 BY <3>4, <3>5
      <4>2. down'[i].n = pending.id BY <1>2, <2>2, <3>3, <4>1
      <4> QED BY <1>1, <2>2, <3>4, <4>1, <4>2
    <3> QED BY <1>1, <1>3, <2>3, <2>4, <3>5 DEF WayInv, NothingPosted
  <2>6. CASE ~(Head(posted).to = link /\ link \in peers)
    <3>1. down' = down BY <2>6 DEF DeliverPosted
    <3>2. NothingDown' BY <2>2, <3>1 DEF NothingDown, DownReply
    <3>3. NothingOnTheWay' BY <1>1, <1>3, <2>3, <2>4, <3>2 DEF NothingOnTheWay
    <3> QED BY <3>3, NothingIsFine
  <2> QED BY <2>5, <2>6
<1>6. CASE ~PostedReply(1)
  <2>1. \A i \in DOMAIN down' : DownReply(i)' =>
          i \in Nat /\ DownReply(i + 0) /\ down'[i] = down[i + 0]
    <3>1. CASE Head(posted).to = link /\ link \in peers
      <4>1. down' = Append(down, Head(posted).msg) BY <3>1 DEF DeliverPosted
      <4>2. down \in Seq(Message) BY DEF TypeOK
      <4>3. /\ DOMAIN down' = 1 .. Len(down) + 1
            /\ DOMAIN down = 1 .. Len(down) /\ Len(down) \in Nat
            /\ \A i \in DOMAIN down : down'[i] = down[i]
            /\ down'[Len(down) + 1] = Head(posted).msg
        BY <4>1, <4>2, AppendFacts
      <4>4. Head(posted).msg.kind # "reply" BY <1>2, <1>6, <3>1 DEF PostedReply
      <4>5. ASSUME NEW i \in DOMAIN down', DownReply(i)'
            PROVE  i \in Nat /\ DownReply(i + 0) /\ down'[i] = down[i + 0]
        <5>1. i # Len(down) + 1 BY <4>3, <4>4, <4>5 DEF DownReply
        <5>2. i \in DOMAIN down /\ i \in Nat /\ i + 0 = i BY <4>3, <5>1
        <5> QED BY <4>3, <4>5, <5>2 DEF DownReply
      <4> QED BY <4>5
    <3>2. CASE ~(Head(posted).to = link /\ link \in peers)
      <4>1. UNCHANGED down BY <3>2 DEF DeliverPosted
      <4> QED BY <4>1, StayFacts
    <3> QED BY <3>1, <3>2
  <2> QED BY <1>1, <1>3, <1>4, <2>1, WayKept
<1> QED BY <1>5, <1>6

LEMMA ReceiveWay ==
  ASSUME TypeOK, PeerInv, WayInv, NEW e \in Peer, ReceiveSubscribe(e) \/ ReceiveUnsubscribe(e)
  PROVE  WayInv'
<1>1. /\ UNCHANGED <<link, unanswered, pending, down, posted>>
      /\ up[e] # <<>> /\ up' = [up EXCEPT ![e] = Tail(@)]
      /\ handling'.peer = e /\ handling'.id = Head(up[e]).id
      /\ handling'.step # "reply" => Head(up[e]).subscribe
  BY DEF ReceiveSubscribe, ReceiveUnsubscribe, Untouched, subVars, linkVars
<1>2. e # NoPeer /\ ~InHand
  BY DEF ReceiveSubscribe, ReceiveUnsubscribe, Peer, NoPeer, PeerInv, Free, InHand
<1>3. CASE e = link
  <2>1. /\ up[e] = <<[id |-> pending.id, subscribe |-> pending.subscribe]>>
        /\ unanswered # {} /\ NothingPosted /\ NothingDown
    BY <1>1, <1>2, <1>3 DEF WayInv
  <2>2. up'[e] = <<>>
    <3>1. up'[e] = Tail(up[e]) BY <1>1 DEF TypeOK
    <3>2. Tail(<<[id |-> pending.id, subscribe |-> pending.subscribe]>>) = <<>> OBVIOUS
    <3> QED BY <2>1, <3>1, <3>2
  <2>3. Head(up[e]) = [id |-> pending.id, subscribe |-> pending.subscribe] BY <2>1
  <2>4. handling'.id = pending.id /\ (handling'.step # "reply" => pending.subscribe)
    BY <1>1, <2>3
  <2>5. NothingPosted' /\ NothingDown'
    BY <1>1, <2>1 DEF NothingPosted, NothingDown, PostedReply, DownReply
  <2>6. unanswered' # {} /\ link' = e /\ pending' = pending BY <1>1, <1>3, <2>1
  <2> QED BY <2>2, <2>4, <2>5, <2>6 DEF WayInv, NothingPosted, NothingDown
<1>4. CASE e # link
  <2>1. ~InHand' BY <1>1, <1>4 DEF InHand
  <2>2. link # NoPeer => up'[link] = up[link]
    BY <1>1, <1>4 DEF TypeOK
  <2> QED BY <1>1, <2>1, <2>2, StayFacts, WayKept
<1> QED BY <1>3, <1>4

LEMMA ReplyWay ==
  ASSUME TypeOK, PeerInv, WayInv, SendReply
  PROVE  WayInv'
<1>1. /\ Post(handling.peer, Reply(handling.id, handling.ok))
      /\ handling' = NotHandling
      /\ UNCHANGED <<link, unanswered, pending, down, up>>
  BY DEF SendReply, Untouched, subVars, linkVars
<1>2. ~InHand' BY <1>1 DEF InHand, NotHandling
<1>3. CASE InHand
  <2>1. /\ handling.id = pending.id /\ unanswered # {} /\ NothingPosted /\ NothingDown
        /\ link # NoPeer /\ handling.peer = link
    BY <1>3 DEF WayInv, InHand
  <2>2. up[link] = <<>> BY <1>3, <2>1 DEF WayInv
  <2>3. NothingDown' BY <1>1, <2>1 DEF NothingDown, DownReply
  <2>4. /\ DOMAIN posted' = 1 .. Len(posted) + 1
        /\ DOMAIN posted = 1 .. Len(posted) /\ Len(posted) \in Nat
        /\ \A i \in DOMAIN posted : posted'[i] = posted[i]
        /\ posted'[Len(posted) + 1] = [to |-> handling.peer, msg |-> Reply(handling.id, handling.ok)]
    BY <1>1, PostFacts
  <2>5. ASSUME NEW i \in DOMAIN posted', PostedReply(i)' PROVE i = Len(posted) + 1
    <3>1. CASE i \in DOMAIN posted
      BY <1>1, <2>1, <2>4, <2>5, <3>1 DEF NothingPosted, PostedReply
    <3>2. CASE i \notin DOMAIN posted BY <2>4, <2>5, <3>2
    <3> QED BY <3>1, <3>2
  <2>6. posted'[Len(posted) + 1].msg.n = pending.id BY <2>1, <2>4 DEF Reply
  <2>7. ASSUME NEW i \in DOMAIN posted', PostedReply(i)'
        PROVE  /\ posted'[i].msg.n = pending'.id
               /\ unanswered' # {} /\ NothingDown'
               /\ \A q \in DOMAIN posted' : PostedReply(q)' => q = i
    BY <1>1, <2>1, <2>3, <2>5, <2>6, <2>7
  <2> QED BY <1>1, <1>2, <2>2, <2>3, <2>7 DEF WayInv, NothingDown
<1>4. CASE ~InHand
  <2>1. CASE link = NoPeer
    <3>1. ASSUME NEW i \in DOMAIN down', DownReply(i)' PROVE FALSE
      BY <1>1, <2>1, <3>1 DEF PeerInv, DownReply
    <3>2. NothingOnTheWay' BY <1>1, <1>2, <2>1, <3>1 DEF NothingOnTheWay, NothingDown
    <3> QED BY <3>2, NothingIsFine
  <2>2. CASE link # NoPeer
    <3>1. handling.peer # link BY <1>4, <2>2 DEF InHand
    <3>2. \A i \in DOMAIN posted' : PostedReply(i)' =>
            i \in Nat /\ PostedReply(i + 0) /\ posted'[i] = posted[i + 0]
      BY <1>1, <3>1, PostOther
    <3> QED BY <1>1, <1>2, <3>2, StayFacts, WayKept
  <2> QED BY <2>1, <2>2
<1> QED BY <1>3, <1>4

LEMMA PublisherWay ==
  ASSUME TypeOK, PeerInv, WayInv, PublisherNext
  PROVE  WayInv'
<1> USE DEF Elsewhere, Untouched, subVars, wireVars, linkVars, sockVars
<1>1. CASE DeliverPosted BY <1>1, DeliverWay
<1>2. CASE Add \/ Recheck \/ Undo
  <2>1. /\ UNCHANGED <<link, unanswered, pending, down, posted, up>>
        /\ handling'.peer = handling.peer /\ handling'.id = handling.id /\ handling.step # "reply"
    BY <1>2 DEF Add, Recheck, Undo, TypeOK
  <2>2. InHand' => InHand BY <2>1 DEF InHand
  <2> QED BY <2>1, <2>2, StayFacts, WayKept
<1>3. CASE SendReply BY <1>3, ReplyWay
<1>4. ASSUME NEW e \in Peer, ReceiveSubscribe(e) \/ ReceiveUnsubscribe(e) PROVE WayInv'
  BY <1>4, ReceiveWay
<1>5. ASSUME NEW e \in Peer, LosePeer(e) PROVE WayInv'
  <2>1. /\ UNCHANGED <<link, unanswered, pending, down, posted, handling>>
        /\ up' = [up EXCEPT ![e] = <<>>]
    BY <1>5 DEF LosePeer
  <2>2. link # NoPeer => link \in Peer BY DEF TypeOK
  <2>3. link # NoPeer => up'[link] = up[link] \/ up'[link] = <<>> BY <2>1, <2>2 DEF TypeOK
  <2>4. InHand' => InHand BY <2>1 DEF InHand
  <2> QED BY <2>1, <2>3, <2>4, StayFacts, WayKept
<1>6. ASSUME NEW e \in Peer, NotifyRemoved(e) \/ PublishTo(e) PROVE WayInv'
  <2>1. /\ UNCHANGED <<link, unanswered, pending, down, up, handling>>
        /\ UNCHANGED posted \/ Post(e, Removed) \/ Post(e, Signal(publishing.signal))
    BY <1>6 DEF NotifyRemoved, PublishTo
  <2>2. Removed.kind # "reply" /\ Signal(publishing.signal).kind # "reply"
    BY DEF Removed, Signal
  <2>3. \A i \in DOMAIN posted' : PostedReply(i)' =>
          i \in Nat /\ PostedReply(i + 0) /\ posted'[i] = posted[i + 0]
    <3>1. CASE UNCHANGED posted BY <2>1, <3>1, StayFacts
    <3>2. CASE Post(e, Removed) BY <2>1, <2>2, <3>2, PostOther
    <3>3. CASE Post(e, Signal(publishing.signal)) BY <2>1, <2>2, <3>3, PostOther
    <3> QED BY <2>1, <3>1, <3>2, <3>3
  <2>4. InHand' => InHand BY <2>1 DEF InHand
  <2> QED BY <2>1, <2>3, <2>4, StayFacts, WayKept
<1>7. CASE \/ MakeObject \/ RemoveObject \/ DropSubscribers \/ ReleaseName \/ Publish
           \/ \E l \in LocalReceiver : LocalAny(l)
  <2>1. UNCHANGED <<link, unanswered, pending, down, up, handling, posted>>
    BY <1>7 DEF MakeObject, RemoveObject, DropSubscribers, ReleaseName, Publish, LocalAny, LocalStep,
                LocalCheck, LocalAdd, LocalRecheck, LocalUndo, LocalUnsubscribe
  <2>2. InHand' => InHand BY <2>1 DEF InHand
  <2> QED BY <2>1, <2>2, StayFacts, WayKept
<1> QED BY <1>1, <1>2, <1>3, <1>4, <1>5, <1>6, <1>7 DEF PublisherNext, Handle

LEMMA WayStep == TypeOK /\ PeerInv /\ CallInv /\ WayInv /\ [Next]_vars => WayInv'
<1> SUFFICES ASSUME TypeOK, PeerInv, CallInv, WayInv, [Next]_vars PROVE WayInv'
  OBVIOUS
<1>1. CASE SubscriberNext BY <1>1, CallWay, LoopWay DEF SubscriberNext
<1>2. CASE PublisherNext BY <1>2, PublisherWay
<1>3. CASE UNCHANGED vars
  BY <1>3 DEF WayInv, PostedReply, DownReply, NothingPosted, NothingDown, InHand, vars, subVars,
              wireVars, linkVars, sockVars
<1> QED BY <1>1, <1>2, <1>3, NextSplit

-----------------------------------------------------------------------------
(* The tables of the publisher's context *)

\* The steps of the subscriber context do not touch them.
LEMMA SubscriberFrame ==
  ASSUME SubscriberNext
  PROVE  UNCHANGED <<objVars, pubVars, posted, handling, overtaken>>
<1> USE DEF Others, objVars, pubVars, sockVars
<1>1. ASSUME NEW r \in Receiver,
             JoinSubscribers(r) \/ JoinRequest(r) \/ MakeRequest(r) \/ Unsubscribe(r) \/ Caller(r)
      PROVE  UNCHANGED <<objVars, pubVars, posted, handling, overtaken>>
  BY <1>1 DEF JoinSubscribers, JoinRequest, MakeRequest, Unsubscribe, Caller, SendRequest,
              CannotSend, GiveUp
<1>2. CASE TransmitAny BY <1>2 DEF TransmitAny, Transmit, TransmitLost, TransmitFails
<1>3. CASE ReceiveAny BY <1>3 DEF ReceiveAny, ReceiveSignal, ReceiveReply, ReceiveRemoved
<1>4. CASE LoseLink \/ CloseLink \/ Connect BY <1>4 DEF LoseLink, CloseLink, Connect
<1> QED BY <1>1, <1>2, <1>3, <1>4 DEF SubscriberNext

LEMMA TableInit == Init => TableInv
  BY DEF Init, TableInv, NotHandling

LEMMA PublisherTable ==
  ASSUME TypeOK, PeerInv, TableInv, PublisherNext
  PROVE  TableInv'
<1> USE DEF Elsewhere, Untouched, objVars, pubVars
<1>1. CASE DeliverPosted
  BY <1>1 DEF DeliverPosted, TableInv
<1>2. CASE Add
  <2>1. /\ handling.step = "add" /\ handling'.step = "recheck" /\ handling'.peer = handling.peer
        /\ handling'.ok = handling.ok /\ remoteSubs' = remoteSubs \cup {handling.peer}
        /\ UNCHANGED <<exists, remover, notify, localSubs, local>>
    BY <1>2 DEF Add, TypeOK
  <2> QED BY <2>1 DEF TableInv
<1>3. CASE Recheck
  <2>1. UNCHANGED <<exists, remover, notify, remoteSubs, localSubs, local>>
    BY <1>3 DEF Recheck
  <2>2. CASE exists
    <3>1. handling'.step = "reply" BY <1>3, <2>2 DEF Recheck, TypeOK
    <3> QED BY <2>1, <2>2, <3>1 DEF TableInv
  <2>3. CASE ~exists
    <3>1. handling'.step = "undo" /\ handling'.peer = handling.peer /\ handling'.ok = handling.ok
          /\ handling.step = "recheck"
      BY <1>3, <2>3 DEF Recheck, TypeOK
    <3> QED BY <2>1, <2>3, <3>1 DEF TableInv
  <2> QED BY <2>2, <2>3
<1>4. CASE Undo
  <2>1. /\ handling'.step = "reply" /\ remoteSubs' = remoteSubs \ {handling.peer}
        /\ UNCHANGED <<exists, remover, notify, localSubs, local>>
    BY <1>4 DEF Undo, TypeOK
  <2> QED BY <2>1 DEF TableInv
<1>5. CASE SendReply
  BY <1>5 DEF SendReply, TableInv, NotHandling
<1>6. ASSUME NEW e \in Peer, ReceiveSubscribe(e) \/ ReceiveUnsubscribe(e) PROVE TableInv'
  <2>1. /\ handling.step = "none" /\ remoteSubs' \subseteq remoteSubs
        /\ handling'.step # "reply" => ~handling'.ok
        /\ UNCHANGED <<exists, remover, notify, localSubs, local>>
    BY <1>6 DEF ReceiveSubscribe, ReceiveUnsubscribe, Free
  <2> QED BY <2>1 DEF TableInv
<1>7. ASSUME NEW e \in Peer, LosePeer(e) PROVE TableInv'
  BY <1>7 DEF LosePeer, TableInv
<1>8. ASSUME NEW e \in Peer, NotifyRemoved(e) PROVE TableInv'
  BY <1>8 DEF NotifyRemoved, TableInv
<1>9. ASSUME NEW e \in Peer, PublishTo(e) PROVE TableInv'
  BY <1>9 DEF PublishTo, TableInv
<1>10. CASE MakeObject BY <1>10 DEF MakeObject, TableInv
<1>11. CASE RemoveObject BY <1>11 DEF RemoveObject, TableInv
<1>12. CASE DropSubscribers BY <1>12 DEF DropSubscribers, TableInv
<1>13. CASE ReleaseName BY <1>13 DEF ReleaseName, TableInv
<1>14. CASE Publish BY <1>14 DEF Publish, TableInv, sockVars
<1>15. ASSUME NEW l \in LocalReceiver, LocalAny(l) PROVE TableInv'
  <2>1. UNCHANGED <<exists, remover, notify, remoteSubs, handling>>
    BY <1>15 DEF LocalAny, LocalStep, LocalCheck, LocalAdd, LocalRecheck, LocalUndo,
                 LocalUnsubscribe, sockVars
  <2>2. \A m \in LocalReceiver : m # l => local'[m] = local[m]
    BY <1>15 DEF LocalAny, LocalStep, LocalCheck, LocalAdd, LocalRecheck, LocalUndo,
                 LocalUnsubscribe, TypeOK
  <2>3. \A m \in localSubs' : m # l => m \in localSubs
    BY <1>15 DEF LocalAny, LocalCheck, LocalAdd, LocalRecheck, LocalUndo, LocalUnsubscribe
  <2>4. ~exists /\ remover # "drop" /\ l \in localSubs' => local'[l] \in {"recheck", "undo"}
    BY <1>15 DEF LocalAny, LocalStep, LocalCheck, LocalAdd, LocalRecheck, LocalUndo,
                 LocalUnsubscribe, TypeOK, TableInv
  <2>5. localSubs \subseteq LocalReceiver /\ localSubs' \subseteq LocalReceiver
    BY <1>15, <2>3 DEF TypeOK
  <2> QED BY <2>1, <2>2, <2>3, <2>4, <2>5 DEF TableInv
<1> QED
  BY <1>1, <1>2, <1>3, <1>4, <1>5, <1>6, <1>7, <1>8, <1>9, <1>10, <1>11, <1>12, <1>13, <1>14, <1>15
  DEF PublisherNext, Handle

LEMMA TableStep == TypeOK /\ PeerInv /\ TableInv /\ [Next]_vars => TableInv'
<1> SUFFICES ASSUME TypeOK, PeerInv, TableInv, [Next]_vars PROVE TableInv'
  OBVIOUS
<1>1. CASE PublisherNext BY <1>1, PublisherTable
<1>2. CASE UNCHANGED <<objVars, pubVars, handling>>
  BY <1>2 DEF TableInv, objVars, pubVars
<1> QED BY <1>1, <1>2, NextSplit, SubscriberFrame DEF vars, sockVars

-----------------------------------------------------------------------------
(* Replies and notices of removal, posted and on the connection *)

\* The replies and notices for the present connection that are posted are those
\* of before, in the same order; they moved up by j.
PostedKept(j) ==
  /\ \A i \in DOMAIN posted' : PostedReply(i)' =>
       i \in Nat /\ PostedReply(i + j) /\ posted'[i] = posted[i + j]
  /\ \A i \in DOMAIN posted : PostedRemoved(i) =>
       i \in Nat /\ i > j /\ PostedRemoved(i - j)'
  /\ \A i \in DOMAIN posted' : PostedRemoved(i)' => i \in Nat /\ PostedRemoved(i + j)

\* The same for what is on the connection, but for the first k messages.
DownKept(k) ==
  /\ \A i \in DOMAIN down' : DownReply(i)' =>
       i \in Nat /\ DownReply(i + k) /\ down'[i] = down[i + k]
  /\ \A i \in DOMAIN down : DownRemoved(i) =>
       i \in Nat \ {0} /\ (i > k => DownRemoved(i - k)')
  /\ \A i \in DOMAIN down' : DownRemoved(i)' => i \in Nat /\ DownRemoved(i + k)

LEMMA StayKept ==
  ASSUME TypeOK
  PROVE  /\ UNCHANGED <<link, posted>> => PostedKept(0)
         /\ UNCHANGED down => DownKept(0)
<1>1. DOMAIN posted = 1 .. Len(posted) /\ Len(posted) \in Nat
      /\ DOMAIN down = 1 .. Len(down) /\ Len(down) \in Nat
  <2>1. posted \in Seq([to : Peer, msg : Message]) /\ down \in Seq(Message)
    BY DEF TypeOK
  <2> QED BY <2>1
<1>2. \A i \in DOMAIN posted : i \in Nat /\ i > 0 /\ i + 0 = i /\ i - 0 = i
  BY <1>1
<1>3. \A i \in DOMAIN down : i \in Nat \ {0} /\ i + 0 = i /\ i - 0 = i
  BY <1>1
<1>4. UNCHANGED <<link, posted>> => PostedKept(0)
  BY <1>2 DEF PostedKept, PostedReply, PostedRemoved
<1>5. UNCHANGED down => DownKept(0)
  BY <1>3 DEF DownKept, DownReply, DownRemoved
<1> QED BY <1>4, <1>5

\* A message for another connection, or a signal, is posted.
LEMMA PostKept ==
  ASSUME TypeOK, NEW e, NEW m, Post(e, m), UNCHANGED link,
         e # link \/ m.kind = "signal"
  PROVE  PostedKept(0)
<1>1. /\ DOMAIN posted' = 1 .. Len(posted) + 1
      /\ DOMAIN posted = 1 .. Len(posted) /\ Len(posted) \in Nat
      /\ \A i \in DOMAIN posted : posted'[i] = posted[i]
      /\ posted'[Len(posted) + 1] = [to |-> e, msg |-> m]
  BY PostFacts
<1>2. \A i \in DOMAIN posted' : PostedReply(i)' \/ PostedRemoved(i)' => i # Len(posted) + 1
  BY <1>1 DEF PostedReply, PostedRemoved, Removed
<1>3. \A i \in DOMAIN posted' : i # Len(posted) + 1 => i \in DOMAIN posted
  BY <1>1
<1>4. \A i \in DOMAIN posted : i \in Nat /\ i > 0 /\ i + 0 = i /\ i - 0 = i /\ i \in DOMAIN posted'
  BY <1>1
<1>5. \A i \in DOMAIN posted' : PostedReply(i)' =>
        i \in Nat /\ PostedReply(i + 0) /\ posted'[i] = posted[i + 0]
  BY <1>1, <1>2, <1>3, <1>4 DEF PostedReply
<1>6. \A i \in DOMAIN posted : PostedRemoved(i) => i \in Nat /\ i > 0 /\ PostedRemoved(i - 0)'
  BY <1>1, <1>4 DEF PostedRemoved
<1>7. \A i \in DOMAIN posted' : PostedRemoved(i)' => i \in Nat /\ PostedRemoved(i + 0)
  BY <1>1, <1>2, <1>3, <1>4 DEF PostedRemoved
<1> QED BY <1>5, <1>6, <1>7 DEF PostedKept

\* The first message on the connection is received.
LEMMA TailKept ==
  ASSUME TypeOK, down # <<>>, down' = Tail(down)
  PROVE  DownKept(1)
<1>1. down \in Seq(Message) BY DEF TypeOK
<1>2. /\ DOMAIN down = 1 .. Len(down) /\ Len(down) \in Nat
      /\ DOMAIN down' = 1 .. Len(down) - 1
      /\ \A i \in DOMAIN down' : i + 1 \in DOMAIN down /\ down'[i] = down[i + 1]
      /\ \A i \in DOMAIN down : i # 1 => i - 1 \in DOMAIN down' /\ down'[i - 1] = down[i]
  BY <1>1, TailFacts
<1>3. \A i \in DOMAIN down' : DownReply(i)' =>
        i \in Nat /\ DownReply(i + 1) /\ down'[i] = down[i + 1]
  BY <1>2 DEF DownReply
<1>4. \A i \in DOMAIN down : DownRemoved(i) => i \in Nat \ {0} /\ (i > 1 => DownRemoved(i - 1)')
  BY <1>2 DEF DownRemoved
<1>5. \A i \in DOMAIN down' : DownRemoved(i)' => i \in Nat /\ DownRemoved(i + 1)
  BY <1>2 DEF DownRemoved
<1> QED BY <1>3, <1>4, <1>5 DEF DownKept

\* The first posted message is sent on another connection.
LEMMA DeliverOtherKept ==
  ASSUME TypeOK, DeliverPosted, Head(posted).to # link
  PROVE  PostedKept(1) /\ DownKept(0)
<1>1. posted \in Seq([to : Peer, msg : Message]) /\ posted # <<>> /\ posted' = Tail(posted)
      /\ UNCHANGED <<link, down>>
  BY DEF DeliverPosted, TypeOK, linkVars
<1>2. /\ Head(posted) = posted[1]
      /\ DOMAIN posted = 1 .. Len(posted) /\ Len(posted) \in Nat
      /\ DOMAIN posted' = 1 .. Len(posted) - 1
      /\ \A i \in DOMAIN posted' : i + 1 \in DOMAIN posted /\ posted'[i] = posted[i + 1]
      /\ \A i \in DOMAIN posted : i # 1 => i - 1 \in DOMAIN posted' /\ posted'[i - 1] = posted[i]
  BY <1>1, TailFacts
<1>3. \A i \in DOMAIN posted' : PostedReply(i)' =>
        i \in Nat /\ PostedReply(i + 1) /\ posted'[i] = posted[i + 1]
  BY <1>1, <1>2 DEF PostedReply
<1>4. ~PostedRemoved(1)
  BY <1>2 DEF PostedRemoved
<1>5. \A i \in DOMAIN posted : PostedRemoved(i) => i \in Nat /\ i > 1 /\ PostedRemoved(i - 1)'
  <2>1. SUFFICES ASSUME NEW i \in DOMAIN posted, PostedRemoved(i)
                 PROVE  i \in Nat /\ i > 1 /\ PostedRemoved(i - 1)'
    OBVIOUS
  <2>2. i # 1 BY <1>4, <2>1
  <2>3. i \in Nat /\ i > 1 /\ i - 1 \in DOMAIN posted' /\ posted'[i - 1] = posted[i]
    BY <1>2, <2>2
  <2> QED BY <1>1, <2>1, <2>3 DEF PostedRemoved
<1>6. \A i \in DOMAIN posted' : PostedRemoved(i)' => i \in Nat /\ PostedRemoved(i + 1)
  BY <1>1, <1>2 DEF PostedRemoved
<1> QED BY <1>1, <1>3, <1>5, <1>6, StayKept DEF PostedKept

\* The first posted message is sent on the present connection.
LEMMA DeliverFacts ==
  ASSUME TypeOK, DeliverPosted, Head(posted).to = link, link \in peers
  PROVE  /\ UNCHANGED <<link, peers, subs, pending, requests, thread, unanswered, up, handling,
                        remoteSubs, notify, overtaken>>
         /\ 1 \in DOMAIN posted /\ posted[1].to = link
         /\ DOMAIN posted = 1 .. Len(posted) /\ Len(posted) \in Nat
         /\ DOMAIN posted' = 1 .. Len(posted) - 1
         /\ \A i \in DOMAIN posted' : i + 1 \in DOMAIN posted /\ posted'[i] = posted[i + 1]
         /\ \A i \in DOMAIN posted : i # 1 => i - 1 \in DOMAIN posted' /\ posted'[i - 1] = posted[i]
         /\ DOMAIN down' = 1 .. Len(down) + 1
         /\ DOMAIN down = 1 .. Len(down) /\ Len(down) \in Nat
         /\ \A i \in DOMAIN down : down'[i] = down[i]
         /\ down'[Len(down) + 1] = posted[1].msg
         /\ posted[1].msg = Removed <=> PostedRemoved(1)
<1>1. posted \in Seq([to : Peer, msg : Message]) /\ posted # <<>> /\ posted' = Tail(posted)
      /\ down \in Seq(Message) /\ down' = Append(down, Head(posted).msg)
  BY DEF DeliverPosted, TypeOK
<1>2. /\ Head(posted) = posted[1] /\ 1 \in DOMAIN posted
      /\ Head(posted) \in [to : Peer, msg : Message]
      /\ DOMAIN posted = 1 .. Len(posted) /\ Len(posted) \in Nat
      /\ DOMAIN posted' = 1 .. Len(posted) - 1
      /\ \A i \in DOMAIN posted' : i + 1 \in DOMAIN posted /\ posted'[i] = posted[i + 1]
      /\ \A i \in DOMAIN posted : i # 1 => i - 1 \in DOMAIN posted' /\ posted'[i - 1] = posted[i]
  BY <1>1, TailFacts
<1>3. /\ DOMAIN down' = 1 .. Len(down) + 1
      /\ DOMAIN down = 1 .. Len(down) /\ Len(down) \in Nat
      /\ \A i \in DOMAIN down : down'[i] = down[i]
      /\ down'[Len(down) + 1] = Head(posted).msg
  BY <1>1, AppendFacts
<1>4. UNCHANGED <<link, peers, subs, pending, requests, thread, unanswered, up, handling,
                  remoteSubs, notify, overtaken>>
  BY DEF DeliverPosted, subVars, linkVars, objVars, pubVars
<1>5. posted[1].msg = Removed <=> PostedRemoved(1)
  <2>1. posted[1] \in [to : Peer, msg : Message] /\ posted[1].to = link
    BY <1>2
  <2>2. posted[1] = [to |-> link, msg |-> posted[1].msg]
    BY <2>1
  <2>3. PostedRemoved(1) => posted[1].msg = Removed
    BY DEF PostedRemoved
  <2> QED BY <1>2, <2>2, <2>3 DEF PostedRemoved
<1> QED BY <1>2, <1>3, <1>4, <1>5

-----------------------------------------------------------------------------
(* Granted subscriptions *)

LEMMA GrantInit == Init => GrantInv
  BY DEF Init, GrantInv

LEMMA NothingAgain == ASSUME WayInv', unanswered' = {} PROVE NothingOnTheWay'
  BY DEF WayInv, NothingOnTheWay, NothingPosted, NothingDown

\* There is no connection, or nothing is subscribed or about to be.
LEMMA NothingGranted ==
  ASSUME \/ link' \notin peers'
         \/ subs' = {} /\ ~pending'.subscribe
         \/ subs' = {} /\ link' # NoPeer /\ NothingOnTheWay'
  PROVE  GrantInv'
  BY DEF GrantInv, NothingOnTheWay, NothingPosted, NothingDown

\* The step neither subscribes nor takes a subscription away.
LEMMA GrantKept ==
  ASSUME GrantInv, NEW j \in {0, 1}, NEW k \in {0, 1}, UNCHANGED link,
         link \in peers' /\ requests' \notin overtaken' => link \in peers /\ requests \notin overtaken,
         PostedKept(j), DownKept(k),
         link \in remoteSubs => link \in remoteSubs',
         link \in notify => link \in notify',
         subs' # {} => subs # {} /\ (k = 1 => ~DownRemoved(1)),
         pending'.subscribe => pending.subscribe,
         InHand' /\ (handling'.step = "recheck" \/ handling'.ok) =>
           \/ link \in remoteSubs'
           \/ InHand /\ (handling.step = "recheck" \/ handling.ok)
  PROVE  GrantInv'
<1> SUFFICES ASSUME link \in peers', requests' \notin overtaken' PROVE GrantInv'
  BY DEF GrantInv
<1>0. link \in peers /\ requests \notin overtaken
  OBVIOUS
<1>1. ASSUME subs' # {} PROVE link \in remoteSubs' \/ RemovedIsComing'
  <2>1. link \in remoteSubs \/ RemovedIsComing BY <1>0, <1>1 DEF GrantInv
  <2>2. CASE link \in remoteSubs \/ link \in notify BY <2>2 DEF RemovedIsComing
  <2>3. CASE ToLink(Removed)
    <3>1. PICK i \in DOMAIN posted : PostedRemoved(i)
      BY <2>3 DEF ToLink, PostedRemoved
    <3>2. PostedRemoved(i - j)' BY <3>1 DEF PostedKept
    <3>3. ToLink(Removed)' BY <3>2 DEF ToLink, PostedRemoved
    <3> QED BY <3>3 DEF RemovedIsComing
  <2>4. CASE OnLink(Removed)
    <3>1. PICK i \in DOMAIN down : DownRemoved(i)
      BY <2>4 DEF OnLink, DownRemoved
    <3>2. i \in Nat \ {0} /\ (i > k => DownRemoved(i - k)') BY <3>1 DEF DownKept
    <3>3. i # 1 \/ k # 1 BY <1>1, <3>1
    <3>4. DownRemoved(i - k)' BY <3>2, <3>3
    <3>5. OnLink(Removed)' BY <3>4 DEF OnLink, DownRemoved
    <3> QED BY <3>5 DEF RemovedIsComing
  <2> QED BY <2>1, <2>2, <2>3, <2>4 DEF RemovedIsComing
<1>2. ASSUME pending'.subscribe, NEW i \in DOMAIN posted', PostedReply(i)', posted'[i].msg.ok
      PROVE  \/ link \in remoteSubs' \/ link \in notify'
             \/ \E q \in DOMAIN posted' : q > i /\ PostedRemoved(q)'
  <2>1. i \in Nat /\ PostedReply(i + j) /\ posted'[i] = posted[i + j] BY <1>2 DEF PostedKept
  <2>2. i + j \in DOMAIN posted /\ posted[i + j].msg.ok BY <1>2, <2>1 DEF PostedReply
  <2>3. \/ link \in remoteSubs \/ link \in notify
        \/ \E q \in DOMAIN posted : q > i + j /\ PostedRemoved(q)
    BY <1>0, <1>2, <2>1, <2>2 DEF GrantInv
  <2>4. ASSUME NEW q \in DOMAIN posted, q > i + j, PostedRemoved(q)
        PROVE  \E p \in DOMAIN posted' : p > i /\ PostedRemoved(p)'
    <3>1. q \in Nat /\ PostedRemoved(q - j)' BY <2>4 DEF PostedKept
    <3>2. q - j > i /\ q - j \in DOMAIN posted' BY <2>1, <2>4, <3>1 DEF PostedRemoved
    <3> QED BY <3>1, <3>2
  <2> QED BY <2>3, <2>4
<1>3. ASSUME pending'.subscribe, NEW i \in DOMAIN down', DownReply(i)', down'[i].ok
      PROVE  \/ link \in remoteSubs' \/ link \in notify'
             \/ \E q \in DOMAIN posted' : PostedRemoved(q)'
             \/ \E q \in DOMAIN down' : q > i /\ DownRemoved(q)'
  <2>1. i \in Nat /\ DownReply(i + k) /\ down'[i] = down[i + k] BY <1>3 DEF DownKept
  <2>2. i + k \in DOMAIN down /\ down[i + k].ok BY <1>3, <2>1 DEF DownReply
  <2>3. \/ link \in remoteSubs \/ link \in notify
        \/ \E q \in DOMAIN posted : PostedRemoved(q)
        \/ \E q \in DOMAIN down : q > i + k /\ DownRemoved(q)
    BY <1>0, <1>3, <2>1, <2>2 DEF GrantInv
  <2>4. ASSUME NEW q \in DOMAIN posted, PostedRemoved(q)
        PROVE  \E p \in DOMAIN posted' : PostedRemoved(p)'
    <3>1. PostedRemoved(q - j)' BY <2>4 DEF PostedKept
    <3>2. q - j \in DOMAIN posted' BY <3>1 DEF PostedRemoved
    <3> QED BY <3>1, <3>2
  <2>5. ASSUME NEW q \in DOMAIN down, q > i + k, DownRemoved(q)
        PROVE  \E p \in DOMAIN down' : p > i /\ DownRemoved(p)'
    <3>1. q \in Nat \ {0} /\ (q > k => DownRemoved(q - k)') BY <2>5 DEF DownKept
    <3>2. q > k BY <2>1, <2>5, <3>1
    <3>3. DownRemoved(q - k)' BY <3>1, <3>2
    <3>4. q - k > i /\ q - k \in DOMAIN down' BY <2>1, <2>5, <3>1, <3>3 DEF DownRemoved
    <3> QED BY <3>3, <3>4
  <2> QED BY <2>3, <2>4, <2>5
<1>4. pending'.subscribe /\ InHand' /\ (handling'.step = "recheck" \/ handling'.ok) => link \in remoteSubs'
  BY <1>0 DEF GrantInv
<1> QED BY <1>1, <1>2, <1>3, <1>4 DEF GrantInv

LEMMA CallGrant ==
  ASSUME TypeOK, CallInv, WayInv', GrantInv, NEW r \in Receiver,
         JoinSubscribers(r) \/ JoinRequest(r) \/ MakeRequest(r) \/ Unsubscribe(r) \/ Caller(r)
  PROVE  GrantInv'
<1>1. UNCHANGED <<link, peers, remoteSubs, notify, overtaken, handling, posted, down, unanswered>>
  BY DEF JoinSubscribers, JoinRequest, MakeRequest, Unsubscribe, Caller, SendRequest, CannotSend,
         GiveUp, Others, wireVars, linkVars, objVars, pubVars, sockVars
<1>2. PostedKept(0) /\ DownKept(0)
  BY <1>1, StayKept
<1>3. CASE requests' = requests /\ (subs' # {} => subs # {}) /\ (pending'.subscribe => pending.subscribe)
  <2>1. InHand' => InHand /\ handling' = handling BY <1>1 DEF InHand
  <2> QED BY <1>1, <1>2, <1>3, <2>1, GrantKept
<1>4. CASE unanswered = {} /\ subs' = {}
  <2>1. NothingOnTheWay' BY <1>1, <1>4, NothingAgain
  <2>2. link' = NoPeer => link' \notin peers' BY <1>1 DEF TypeOK, Peer, NoPeer
  <2> QED BY <1>4, <2>1, <2>2, NothingGranted
<1>5. JoinSubscribers(r) => requests' = requests /\ subs # {} /\ pending' = pending
  BY DEF JoinSubscribers
<1>6. JoinRequest(r) => requests' = requests /\ subs' = subs /\ pending'.subscribe = pending.subscribe
  BY DEF JoinRequest, TypeOK
<1>7. MakeRequest(r) => unanswered = {} /\ subs' = {}
  BY DEF MakeRequest, CallInv
<1>8. Unsubscribe(r) => (unanswered = {} /\ subs' = {})
                        \/ (requests' = requests /\ subs # {} /\ pending' = pending)
  BY DEF Unsubscribe, CallInv
<1>9. SendRequest(r) \/ CannotSend(r) => UNCHANGED <<requests, subs, pending>>
  BY DEF SendRequest, CannotSend
<1>10. GiveUp(r) => unanswered = {} /\ subs' = {}
  BY DEF GiveUp, CallInv
<1> QED BY <1>3, <1>4, <1>5, <1>6, <1>7, <1>8, <1>9, <1>10 DEF Caller

LEMMA LoopGrant ==
  ASSUME TypeOK, PeerInv, CallInv, WayInv, WayInv', GrantInv,
         TransmitAny \/ ReceiveAny \/ LoseLink \/ CloseLink \/ Connect
  PROVE  GrantInv'
<1> USE DEF subVars, wireVars, linkVars, objVars, pubVars, sockVars
<1>0. NoPeer \notin peers
  BY DEF TypeOK, Peer, NoPeer
<1>1. CASE Transmit \/ TransmitLost
  <2>1. UNCHANGED <<link, peers, subs, pending, requests, remoteSubs, notify, overtaken, handling,
                    posted, down>>
    BY <1>1 DEF Transmit, TransmitLost
  <2>2. InHand' => InHand BY <2>1 DEF InHand
  <2>3. PostedKept(0) /\ DownKept(0) BY <2>1, StayKept
  <2> QED BY <2>1, <2>2, <2>3, GrantKept
<1>2. CASE TransmitFails
  <2>1. unanswered = {} /\ subs = {} BY <1>2, ToSendFacts DEF TransmitFails, CallInv
  <2>2. subs' = {} /\ unanswered' = {}
    BY <1>2, <2>1, AnswerFacts DEF TransmitFails
  <2>3. NothingOnTheWay' BY <2>2, NothingAgain
  <2>4. peers' = peers BY <1>2 DEF TransmitFails
  <2> QED BY <1>0, <2>2, <2>3, <2>4, NothingGranted
<1>3. CASE ReceiveSignal \/ ReceiveRemoved
  <2>1. /\ UNCHANGED <<link, peers, pending, requests, remoteSubs, notify, overtaken, handling, posted>>
        /\ down # <<>> /\ down' = Tail(down)
    BY <1>3 DEF ReceiveSignal, ReceiveRemoved
  <2>2. down \in Seq(Message) BY DEF TypeOK
  <2>3. Head(down) = down[1] BY <2>1, <2>2, TailFacts
  <2>4. subs' # {} => subs # {} /\ ~DownRemoved(1)
    BY <1>3, <2>3 DEF ReceiveSignal, ReceiveRemoved, DownRemoved, Removed
  <2>5. InHand' => InHand BY <2>1 DEF InHand
  <2>6. PostedKept(0) /\ DownKept(1) BY <2>1, StayKept, TailKept
  <2> QED BY <2>1, <2>4, <2>5, <2>6, GrantKept
<1>4. CASE ReceiveReply
  <2>1. /\ down \in Seq(Message) /\ down # <<>> /\ Head(down).kind = "reply" /\ down' = Tail(down)
        /\ Answer(Head(down).n, Head(down).ok, toSend)
        /\ UNCHANGED <<link, peers, remoteSubs, notify, overtaken, handling, posted>>
    BY <1>4 DEF ReceiveReply, TypeOK
  <2>2. 1 \in DOMAIN down /\ Head(down) = down[1] /\ Head(down) \in Message
    BY <2>1, TailFacts
  <2>3. DownReply(1) BY <2>1, <2>2 DEF DownReply
  <2>4. down[1].n = pending.id /\ unanswered # {} BY <2>2, <2>3 DEF WayInv
  <2>5. pending # NoRequest /\ subs = {} /\ unanswered = {pending.id} BY <2>4 DEF CallInv
  <2>6. unanswered' = {} BY <1>4, <2>2, <2>4, <2>5 DEF ReceiveReply
  <2>7. NothingOnTheWay' BY <2>6, NothingAgain
  <2>8. Resolve(Head(down).ok, toSend) BY <2>1, <2>2, <2>4 DEF Answer
  <2>9. CASE subs' = {}
    BY <1>0, <2>1, <2>7, <2>9, NothingGranted
  <2>10. CASE subs' # {}
    <3>1. pending.subscribe /\ down[1].ok BY <2>2, <2>5, <2>8, <2>10 DEF Resolve
    <3>2. pending' = NoRequest /\ requests' = requests BY <2>8, <3>1 DEF Resolve
    <3>3. ASSUME link \in peers, requests \notin overtaken
          PROVE  link \in remoteSubs' \/ RemovedIsComing'
      <4>1. \/ link \in remoteSubs \/ link \in notify
            \/ \E q \in DOMAIN posted : PostedRemoved(q)
            \/ \E q \in DOMAIN down : q > 1 /\ DownRemoved(q)
        BY <2>2, <2>3, <3>1, <3>3 DEF GrantInv
      <4>2. ASSUME NEW q \in DOMAIN down, q > 1, DownRemoved(q) PROVE OnLink(Removed)'
        <5>1. DownRemoved(q - 1)' BY <2>1, <4>2, TailKept DEF DownKept
        <5> QED BY <5>1 DEF OnLink, DownRemoved
      <4>3. ASSUME NEW q \in DOMAIN posted, PostedRemoved(q) PROVE ToLink(Removed)'
        BY <2>1, <4>3 DEF ToLink, PostedRemoved
      <4> QED BY <2>1, <4>1, <4>2, <4>3 DEF RemovedIsComing
    <3>4. ~pending'.subscribe BY <3>2 DEF NoRequest
    <3> QED BY <2>1, <3>2, <3>3, <3>4 DEF GrantInv
  <2> QED BY <2>9, <2>10
<1>5. CASE LoseLink
  <2>1. link' = NoPeer /\ peers' = peers BY <1>5 DEF LoseLink
  <2> QED BY <1>0, <2>1, NothingGranted
<1>6. CASE CloseLink
  <2>1. link' = NoPeer /\ peers' = peers BY <1>6 DEF CloseLink, PeerInv
  <2> QED BY <1>0, <2>1, NothingGranted
<1>7. CASE Connect
  <2>1. subs' = {} /\ unanswered' = {} /\ link' # NoPeer
    BY <1>7, BoundAssumption DEF Connect, PeerInv, TypeOK, NoPeer
  <2>2. NothingOnTheWay' BY <2>1, NothingAgain
  <2> QED BY <2>1, <2>2, NothingGranted
<1> QED BY <1>1, <1>2, <1>3, <1>4, <1>5, <1>6, <1>7 DEF TransmitAny, ReceiveAny

LEMMA DeliverGrant ==
  ASSUME TypeOK, PeerInv, GrantInv, DeliverPosted, Head(posted).to = link, link \in peers
  PROVE  GrantInv'
<1>0. /\ UNCHANGED <<link, peers, subs, pending, requests, thread, unanswered, up, handling,
                     remoteSubs, notify, overtaken>>
      /\ 1 \in DOMAIN posted /\ posted[1].to = link
      /\ DOMAIN posted = 1 .. Len(posted) /\ Len(posted) \in Nat
      /\ DOMAIN posted' = 1 .. Len(posted) - 1
      /\ \A i \in DOMAIN posted' : i + 1 \in DOMAIN posted /\ posted'[i] = posted[i + 1]
      /\ \A i \in DOMAIN posted : i # 1 => i - 1 \in DOMAIN posted' /\ posted'[i - 1] = posted[i]
      /\ DOMAIN down' = 1 .. Len(down) + 1
      /\ DOMAIN down = 1 .. Len(down) /\ Len(down) \in Nat
      /\ \A i \in DOMAIN down : down'[i] = down[i]
      /\ down'[Len(down) + 1] = posted[1].msg
      /\ posted[1].msg = Removed <=> PostedRemoved(1)
  BY DeliverFacts
<1> SUFFICES ASSUME requests \notin overtaken PROVE GrantInv'
  BY <1>0 DEF GrantInv
\* A posted notice is sent, or stays posted in front of what was behind it.
<1>1. ASSUME NEW q \in DOMAIN posted, PostedRemoved(q)
      PROVE  \/ q = 1 /\ \E p \in DOMAIN down' : p = Len(down) + 1 /\ DownRemoved(p)'
             \/ q > 1 /\ q - 1 \in DOMAIN posted' /\ PostedRemoved(q - 1)'
  <2>1. CASE q = 1
    <3>1. down'[Len(down) + 1] = Removed /\ Len(down) + 1 \in DOMAIN down'
      BY <1>0, <1>1, <2>1
    <3> QED BY <2>1, <3>1 DEF DownRemoved
  <2>2. CASE q # 1
    <3>1. q > 1 /\ q - 1 \in DOMAIN posted' /\ posted'[q - 1] = posted[q]
      BY <1>0, <2>2
    <3> QED BY <1>0, <1>1, <3>1 DEF PostedRemoved
  <2> QED BY <2>1, <2>2
<1>2. ASSUME NEW q \in DOMAIN down, DownRemoved(q) PROVE q \in DOMAIN down' /\ DownRemoved(q)'
  BY <1>0, <1>2 DEF DownRemoved
<1>3. ~InHand'
  BY <1>0 DEF DeliverPosted, PeerInv, InHand, Free
<1>4. ASSUME subs' # {} PROVE link \in remoteSubs' \/ RemovedIsComing'
  <2>1. \/ link \in remoteSubs \/ link \in notify
        \/ \E q \in DOMAIN posted : PostedRemoved(q)
        \/ \E q \in DOMAIN down : DownRemoved(q)
    BY <1>0, <1>4 DEF GrantInv, RemovedIsComing, ToLink, OnLink, PostedRemoved, DownRemoved
  <2>2. (\E q \in DOMAIN posted : PostedRemoved(q)) \/ (\E q \in DOMAIN down : DownRemoved(q)) =>
          (\E q \in DOMAIN posted' : PostedRemoved(q)') \/ (\E q \in DOMAIN down' : DownRemoved(q)')
    BY <1>0, <1>1, <1>2
  <2> QED BY <1>0, <2>1, <2>2 DEF RemovedIsComing, ToLink, OnLink, PostedRemoved, DownRemoved
<1>5. ASSUME pending'.subscribe, NEW i \in DOMAIN posted', PostedReply(i)', posted'[i].msg.ok
      PROVE  \/ link' \in remoteSubs' \/ link' \in notify'
             \/ \E q \in DOMAIN posted' : q > i /\ PostedRemoved(q)'
  <2>1. i \in Nat /\ PostedReply(i + 1) /\ i + 1 \in DOMAIN posted /\ posted[i + 1].msg.ok
    BY <1>0, <1>5 DEF PostedReply
  <2>2. \/ link \in remoteSubs \/ link \in notify
        \/ \E q \in DOMAIN posted : q > i + 1 /\ PostedRemoved(q)
    BY <1>0, <1>5, <2>1 DEF GrantInv
  <2>3. ASSUME NEW q \in DOMAIN posted, q > i + 1, PostedRemoved(q)
        PROVE  q - 1 \in DOMAIN posted' /\ q - 1 > i /\ PostedRemoved(q - 1)'
    BY <1>0, <1>1, <2>1, <2>3
  <2> QED BY <1>0, <2>2, <2>3
<1>6. ASSUME pending'.subscribe, NEW i \in DOMAIN down', DownReply(i)', down'[i].ok
      PROVE  \/ link' \in remoteSubs' \/ link' \in notify'
             \/ \E q \in DOMAIN posted' : PostedRemoved(q)'
             \/ \E q \in DOMAIN down' : q > i /\ DownRemoved(q)'
  <2>1. CASE i \in DOMAIN down
    <3>1. DownReply(i) /\ down[i].ok BY <1>0, <1>6, <2>1 DEF DownReply
    <3>2. \/ link \in remoteSubs \/ link \in notify
          \/ \E q \in DOMAIN posted : PostedRemoved(q)
          \/ \E q \in DOMAIN down : q > i /\ DownRemoved(q)
      BY <1>0, <1>6, <2>1, <3>1 DEF GrantInv
    <3>3. ASSUME NEW q \in DOMAIN posted, PostedRemoved(q)
          PROVE  \/ \E p \in DOMAIN posted' : PostedRemoved(p)'
                 \/ \E p \in DOMAIN down' : p > i /\ DownRemoved(p)'
      <4>1. Len(down) + 1 > i BY <1>0, <2>1
      <4> QED BY <1>1, <3>3, <4>1
    <3> QED BY <1>0, <1>2, <3>2, <3>3
  <2>2. CASE i \notin DOMAIN down
    <3>1. i = Len(down) + 1 BY <1>0, <1>6, <2>2
    <3>2. PostedReply(1) /\ posted[1].msg.ok BY <1>0, <1>6, <3>1 DEF DownReply, PostedReply
    <3>3. \/ link \in remoteSubs \/ link \in notify
          \/ \E q \in DOMAIN posted : q > 1 /\ PostedRemoved(q)
      BY <1>0, <1>6, <3>2 DEF GrantInv
    <3>4. ASSUME NEW q \in DOMAIN posted, q > 1, PostedRemoved(q)
          PROVE  q - 1 \in DOMAIN posted' /\ PostedRemoved(q - 1)'
      BY <1>0, <1>1, <3>4
    <3> QED BY <1>0, <3>3, <3>4
  <2> QED BY <2>1, <2>2
<1>7. link' = link BY <1>0
<1> QED BY <1>3, <1>4, <1>5, <1>6, <1>7 DEF GrantInv

\* The notice for the present connection is posted: it is behind every reply.
LEMMA NotifyGrant ==
  ASSUME TypeOK, GrantInv, NotifyRemoved(link), link \in peers
  PROVE  GrantInv'
<1>1. /\ Post(link, Removed)
      /\ UNCHANGED <<link, peers, subs, pending, requests, remoteSubs, handling, overtaken, down>>
  BY DEF NotifyRemoved, Elsewhere, Untouched, subVars, linkVars, pubVars
<1>2. /\ DOMAIN posted' = 1 .. Len(posted) + 1
      /\ DOMAIN posted = 1 .. Len(posted) /\ Len(posted) \in Nat
      /\ \A i \in DOMAIN posted : posted'[i] = posted[i]
      /\ posted'[Len(posted) + 1] = [to |-> link, msg |-> Removed]
  BY <1>1, PostFacts
<1>3. PICK n \in DOMAIN posted' : n = Len(posted) + 1 /\ PostedRemoved(n)'
  BY <1>1, <1>2 DEF PostedRemoved
<1>4. RemovedIsComing'
  BY <1>3 DEF RemovedIsComing, ToLink, PostedRemoved
<1>5. ASSUME NEW i \in DOMAIN posted', PostedReply(i)'
      PROVE  \E q \in DOMAIN posted' : q > i /\ PostedRemoved(q)'
  <2>1. i # Len(posted) + 1 BY <1>2, <1>5 DEF PostedReply, Removed
  <2>2. n > i BY <1>2, <1>3, <2>1
  <2> QED BY <1>3, <2>2
<1>6. InHand' => InHand BY <1>1 DEF InHand
<1> QED BY <1>1, <1>3, <1>4, <1>5, <1>6 DEF GrantInv

LEMMA PublisherGrant ==
  ASSUME TypeOK, PeerInv, CallInv, WayInv, WayInv', TableInv, GrantInv, PublisherNext
  PROVE  GrantInv'
<1> USE DEF Elsewhere, Untouched, subVars, wireVars, linkVars, objVars, pubVars, sockVars
<1>0. UNCHANGED <<link, unanswered, subs, pending, requests>>
  BY PublisherFrame
<1>1. CASE DeliverPosted
  <2>1. CASE Head(posted).to = link /\ link \in peers BY <1>1, <2>1, DeliverGrant
  <2>2. CASE link \notin peers
    <3>1. link' \notin peers' BY <1>1, <2>2 DEF DeliverPosted
    <3> QED BY <3>1, NothingGranted
  <2>3. CASE Head(posted).to # link
    <3>1. PostedKept(1) /\ DownKept(0) BY <1>1, <2>3, DeliverOtherKept
    <3>2. UNCHANGED <<link, peers, subs, pending, requests, remoteSubs, notify, overtaken, handling>>
      BY <1>1 DEF DeliverPosted
    <3>3. InHand' => InHand BY <3>2 DEF InHand
    <3> QED BY <3>1, <3>2, <3>3, GrantKept
  <2> QED BY <2>1, <2>2, <2>3
<1>2. CASE Add
  <2>1. UNCHANGED <<link, peers, subs, pending, requests, notify, overtaken, posted, down>>
        /\ remoteSubs' = remoteSubs \cup {handling.peer} /\ handling'.peer = handling.peer
    BY <1>2 DEF Add, TypeOK
  <2>2. InHand' => link \in remoteSubs' BY <2>1 DEF InHand
  <2>3. PostedKept(0) /\ DownKept(0) BY <2>1, StayKept
  <2> QED BY <2>1, <2>2, <2>3, GrantKept
<1>3. CASE Recheck
  <2>1. UNCHANGED <<link, peers, subs, pending, requests, remoteSubs, notify, overtaken, posted, down>>
        /\ handling.step = "recheck" /\ handling'.peer = handling.peer
    BY <1>3 DEF Recheck, TypeOK
  <2>2. InHand' => InHand BY <2>1 DEF InHand
  <2>3. PostedKept(0) /\ DownKept(0) BY <2>1, StayKept
  <2> QED BY <2>1, <2>2, <2>3, GrantKept
<1>4. CASE Undo
  <2>1. UNCHANGED <<link, peers, subs, pending, requests, notify, overtaken, posted, down>>
        /\ remoteSubs' = remoteSubs \ {handling.peer}
        /\ handling'.peer = handling.peer /\ handling'.step = "reply" /\ ~handling'.ok
    BY <1>4 DEF Undo, TypeOK, TableInv
  <2>2. CASE InHand
    <3>1. unanswered # {} /\ NothingPosted /\ NothingDown BY <2>2 DEF WayInv
    <3>2. subs' = {} BY <2>1, <3>1 DEF CallInv
    <3>3. \A i \in DOMAIN posted' : ~PostedReply(i)' BY <2>1, <3>1 DEF NothingPosted, PostedReply
    <3>4. \A i \in DOMAIN down' : ~DownReply(i)' BY <2>1, <3>1 DEF NothingDown, DownReply
    <3> QED BY <2>1, <3>2, <3>3, <3>4 DEF GrantInv
  <2>3. CASE ~InHand
    <3>1. ~InHand' BY <2>1, <2>3 DEF InHand
    <3>2. CASE link = NoPeer
      <4>1. link' \notin peers' BY <2>1, <3>2 DEF TypeOK, Peer, NoPeer
      <4> QED BY <4>1, NothingGranted
    <3>3. CASE link # NoPeer
      <4>1. link \in remoteSubs => link \in remoteSubs' BY <2>1, <2>3, <3>3 DEF InHand
      <4>2. PostedKept(0) /\ DownKept(0) BY <2>1, StayKept
      <4> QED BY <2>1, <3>1, <4>1, <4>2, GrantKept
    <3> QED BY <3>2, <3>3
  <2> QED BY <2>2, <2>3
<1>5. CASE SendReply
  <2>1. /\ Post(handling.peer, Reply(handling.id, handling.ok)) /\ handling'.peer = NoPeer
        /\ UNCHANGED <<link, peers, subs, pending, requests, remoteSubs, notify, overtaken, down>>
    BY <1>5 DEF SendReply, NotHandling
  <2>2. ~InHand' BY <2>1 DEF InHand
  <2>3. CASE link \notin peers BY <2>1, <2>3, NothingGranted
  <2>4. CASE link \in peers /\ handling.peer # link
    <3>1. PostedKept(0) /\ DownKept(0) BY <2>1, <2>4, PostKept, StayKept
    <3> QED BY <2>1, <2>2, <3>1, GrantKept
  <2>5. CASE link \in peers /\ handling.peer = link
    <3>1. InHand BY <2>5 DEF InHand, TypeOK, Peer, NoPeer
    <3>2. unanswered # {} /\ NothingPosted /\ NothingDown BY <3>1 DEF WayInv
    <3>3. subs' = {} BY <2>1, <3>2 DEF CallInv
    <3>4. \A i \in DOMAIN down' : ~DownReply(i)' BY <2>1, <3>2 DEF NothingDown, DownReply
    <3>5. /\ DOMAIN posted' = 1 .. Len(posted) + 1
          /\ DOMAIN posted = 1 .. Len(posted) /\ Len(posted) \in Nat
          /\ \A i \in DOMAIN posted : posted'[i] = posted[i]
          /\ posted'[Len(posted) + 1] = [to |-> handling.peer, msg |-> Reply(handling.id, handling.ok)]
      BY <2>1, PostFacts
    <3>6. ASSUME NEW i \in DOMAIN posted', PostedReply(i)' PROVE posted'[i].msg.ok = handling.ok
      <4>1. CASE i \in DOMAIN posted BY <2>1, <3>2, <3>5, <3>6, <4>1 DEF NothingPosted, PostedReply
      <4>2. CASE i \notin DOMAIN posted
        <5>1. i = Len(posted) + 1 BY <3>5, <3>6, <4>2
        <5> QED BY <3>5, <5>1 DEF Reply
      <4> QED BY <4>1, <4>2
    <3>7. link \in peers /\ requests \notin overtaken /\ pending.subscribe /\ handling.ok =>
            link \in remoteSubs
      BY <3>1 DEF GrantInv
    <3> QED BY <2>1, <2>2, <3>3, <3>4, <3>6, <3>7 DEF GrantInv
  <2> QED BY <2>3, <2>4, <2>5
<1>6. ASSUME NEW e \in Peer, ReceiveSubscribe(e) \/ ReceiveUnsubscribe(e) PROVE GrantInv'
  <2>1. /\ UNCHANGED <<link, peers, subs, pending, requests, notify, overtaken, posted, down>>
        /\ up[e] # <<>> /\ remoteSubs \ {e} \subseteq remoteSubs'
        /\ handling'.peer = e /\ handling'.step # "recheck"
        /\ Head(up[e]).subscribe => ~handling'.ok /\ remoteSubs' = remoteSubs
    BY <1>6 DEF ReceiveSubscribe, ReceiveUnsubscribe
  <2>2. CASE e # link
    <3>1. ~InHand' BY <2>1, <2>2 DEF InHand
    <3>2. link \in remoteSubs => link \in remoteSubs' BY <2>1, <2>2
    <3>3. PostedKept(0) /\ DownKept(0) BY <2>1, StayKept
    <3> QED BY <2>1, <3>1, <3>2, <3>3, GrantKept
  <2>3. CASE e = link
    <3>1. /\ up[e] = <<[id |-> pending.id, subscribe |-> pending.subscribe]>>
          /\ unanswered # {} /\ NothingPosted /\ NothingDown
      BY <2>1, <2>3 DEF WayInv, Peer, NoPeer
    <3>2. Head(up[e]).subscribe = pending.subscribe BY <3>1
    <3>3. subs' = {} BY <2>1, <3>1 DEF CallInv
    <3>4. \A i \in DOMAIN posted' : ~PostedReply(i)' BY <2>1, <3>1 DEF NothingPosted, PostedReply
    <3>5. \A i \in DOMAIN down' : ~DownReply(i)' BY <2>1, <3>1 DEF NothingDown, DownReply
    <3> QED BY <2>1, <3>2, <3>3, <3>4, <3>5 DEF GrantInv
  <2> QED BY <2>2, <2>3
<1>7. ASSUME NEW e \in Peer, LosePeer(e) PROVE GrantInv'
  <2>1. /\ UNCHANGED <<link, subs, pending, requests, notify, overtaken, handling, posted, down>>
        /\ peers' = peers \ {e} /\ remoteSubs' = remoteSubs \ {e}
    BY <1>7 DEF LosePeer
  <2>2. CASE e = link BY <2>1, <2>2, NothingGranted
  <2>3. CASE e # link
    <3>1. link \in remoteSubs => link \in remoteSubs' BY <2>1, <2>3
    <3>2. InHand' => InHand BY <2>1 DEF InHand
    <3>3. PostedKept(0) /\ DownKept(0) BY <2>1, StayKept
    <3> QED BY <2>1, <3>1, <3>2, <3>3, GrantKept
  <2> QED BY <2>2, <2>3
<1>8. ASSUME NEW e \in Peer, NotifyRemoved(e) PROVE GrantInv'
  <2>1. /\ UNCHANGED <<link, peers, subs, pending, requests, remoteSubs, overtaken, handling, down>>
        /\ notify' = notify \ {e}
        /\ IF e \in peers THEN Post(e, Removed) ELSE UNCHANGED posted
    BY <1>8 DEF NotifyRemoved
  <2>2. CASE link \notin peers BY <2>1, <2>2, NothingGranted
  <2>3. CASE link \in peers /\ e = link BY <1>8, <2>3, NotifyGrant
  <2>4. CASE link \in peers /\ e # link
    <3>1. link \in notify => link \in notify' BY <2>1, <2>4
    <3>2. InHand' => InHand BY <2>1 DEF InHand
    <3>3. PostedKept(0) /\ DownKept(0) BY <2>1, <2>4, PostKept, StayKept
    <3> QED BY <2>1, <3>1, <3>2, <3>3, GrantKept
  <2> QED BY <2>2, <2>3, <2>4
<1>9. ASSUME NEW e \in Peer, PublishTo(e) PROVE GrantInv'
  <2>1. /\ UNCHANGED <<link, peers, subs, pending, requests, remoteSubs, notify, overtaken, handling, down>>
        /\ UNCHANGED posted \/ Post(e, Signal(publishing.signal))
    BY <1>9 DEF PublishTo
  <2>2. InHand' => InHand BY <2>1 DEF InHand
  <2>3. Signal(publishing.signal).kind = "signal" BY DEF Signal
  <2>4. PostedKept(0) /\ DownKept(0) BY <2>1, <2>3, PostKept, StayKept
  <2> QED BY <2>1, <2>2, <2>4, GrantKept
<1>10. CASE DropSubscribers
  <2>1. /\ UNCHANGED <<link, peers, subs, pending, requests, handling, posted, down>>
        /\ notify' = remoteSubs /\ remoteSubs' = {}
        /\ overtaken' = IF handling.peer \in remoteSubs THEN overtaken \cup {handling.id} ELSE overtaken
        /\ link \notin notify
    BY <1>10 DEF DropSubscribers, TableInv
  <2>2. SUFFICES ASSUME link \in peers, requests \notin overtaken' PROVE GrantInv'
    BY <2>1 DEF GrantInv
  <2>3. requests \notin overtaken BY <2>1, <2>2
  <2>4. InHand /\ link \in remoteSubs => ~pending.subscribe
    <3>1. InHand => handling.id = pending.id /\ unanswered # {} /\ handling.peer = link
      BY DEF WayInv, InHand
    <3>2. unanswered # {} => pending.id = requests BY DEF CallInv
    <3> QED BY <2>1, <2>2, <3>1, <3>2
  <2>5. pending'.subscribe /\ InHand' => ~(handling'.step = "recheck" \/ handling'.ok)
    BY <2>1, <2>2, <2>3, <2>4 DEF GrantInv, InHand
  <2>6. subs' # {} => link \in remoteSubs' \/ RemovedIsComing'
    BY <2>1, <2>2, <2>3 DEF GrantInv, RemovedIsComing, ToLink, OnLink
  <2>7. ASSUME pending'.subscribe, NEW i \in DOMAIN posted', PostedReply(i)', posted'[i].msg.ok
        PROVE  \/ link' \in remoteSubs' \/ link' \in notify'
               \/ \E q \in DOMAIN posted' : q > i /\ PostedRemoved(q)'
    BY <2>1, <2>2, <2>3, <2>7 DEF GrantInv, PostedReply, PostedRemoved
  <2>8. ASSUME pending'.subscribe, NEW i \in DOMAIN down', DownReply(i)', down'[i].ok
        PROVE  \/ link' \in remoteSubs' \/ link' \in notify'
               \/ \E q \in DOMAIN posted' : PostedRemoved(q)'
               \/ \E q \in DOMAIN down' : q > i /\ DownRemoved(q)'
    BY <2>1, <2>2, <2>3, <2>8 DEF GrantInv, DownReply, PostedRemoved, DownRemoved
  <2> QED BY <2>1, <2>5, <2>6, <2>7, <2>8 DEF GrantInv
<1>11. CASE MakeObject \/ RemoveObject \/ ReleaseName \/ Publish \/ \E l \in LocalReceiver : LocalAny(l)
  <2>1. UNCHANGED <<link, peers, subs, pending, requests, remoteSubs, notify, overtaken, handling,
                    posted, down>>
    BY <1>11 DEF MakeObject, RemoveObject, ReleaseName, Publish, LocalAny, LocalStep, LocalCheck,
                 LocalAdd, LocalRecheck, LocalUndo, LocalUnsubscribe
  <2>2. InHand' => InHand BY <2>1 DEF InHand
  <2>3. PostedKept(0) /\ DownKept(0) BY <2>1, StayKept
  <2> QED BY <2>1, <2>2, <2>3, GrantKept
<1> QED
  BY <1>1, <1>2, <1>3, <1>4, <1>5, <1>6, <1>7, <1>8, <1>9, <1>10, <1>11 DEF PublisherNext, Handle

LEMMA GrantStep ==
  TypeOK /\ PeerInv /\ CallInv /\ WayInv /\ TableInv /\ GrantInv /\ WayInv' /\ [Next]_vars => GrantInv'
<1> SUFFICES ASSUME TypeOK, PeerInv, CallInv, WayInv, TableInv, GrantInv, WayInv', [Next]_vars
             PROVE  GrantInv'
  OBVIOUS
<1>1. CASE SubscriberNext BY <1>1, CallGrant, LoopGrant DEF SubscriberNext
<1>2. CASE PublisherNext BY <1>2, PublisherGrant
<1>3. CASE UNCHANGED vars
  BY <1>3 DEF GrantInv, InHand, PostedReply, DownReply, PostedRemoved, DownRemoved, RemovedIsComing,
              ToLink, OnLink, vars, subVars, wireVars, linkVars, objVars, pubVars, sockVars
<1> QED BY <1>1, <1>2, <1>3, NextSplit

-----------------------------------------------------------------------------
(* Subscriptions that are given up *)

LEMMA NoEntryInit == Init => NoEntryInv
  BY DEF Init, NoEntryInv

LEMMA NoEntry == ASSUME link' \notin remoteSubs' PROVE NoEntryInv'
  BY DEF NoEntryInv

\* The step makes no entry, and gives up nothing that an entry stands for.
LEMMA NoEntryKept ==
  ASSUME NoEntryInv, NEW j \in {0, 1}, NEW k \in {0, 1}, UNCHANGED link,
         link \in remoteSubs' => link \in remoteSubs,
         PostedKept(j), DownKept(k),
         link \in notify' => link \in notify,
         link \in remoteSubs => subs' # {} \/ pending' # NoRequest,
         \A r \in Receiver : thread'[r] = "fail" => thread[r] = "fail",
         pending # NoRequest => pending' # NoRequest,
         pending'.subscribe =>
           /\ pending.subscribe
           /\ unanswered # {} /\ up[link] = <<>> => unanswered' # {} /\ up'[link] = <<>>,
         pending' # NoRequest /\ ~pending'.subscribe => pending # NoRequest /\ ~pending.subscribe,
         InHand' => InHand /\ (handling.step \in {"recheck", "undo"} \/ handling.ok =>
                                 handling'.step \in {"recheck", "undo"} \/ handling'.ok)
  PROVE  NoEntryInv'
<1> SUFFICES ASSUME link \in remoteSubs' PROVE NoEntryInv'
  BY DEF NoEntryInv
<1>0. link \in remoteSubs
  OBVIOUS
<1>1. pending'.subscribe =>
        /\ unanswered' # {} /\ up'[link] = <<>>
        /\ InHand' => handling'.step \in {"recheck", "undo"} \/ handling'.ok
  BY <1>0 DEF NoEntryInv
<1>2. ASSUME NEW i \in DOMAIN posted', PostedReply(i)'
      PROVE  /\ i \in Nat /\ i + j \in DOMAIN posted /\ PostedReply(i + j) /\ posted'[i] = posted[i + j]
             /\ pending'.subscribe => posted'[i].msg.ok
             /\ ~(pending' # NoRequest /\ ~pending'.subscribe)
  <2>1. i \in Nat /\ PostedReply(i + j) /\ posted'[i] = posted[i + j] BY <1>2 DEF PostedKept
  <2>2. i + j \in DOMAIN posted BY <2>1 DEF PostedReply
  <2>3. ~NothingPosted BY <2>1, <2>2 DEF NothingPosted
  <2> QED BY <1>0, <2>1, <2>2, <2>3 DEF NoEntryInv
<1>3. ASSUME NEW i \in DOMAIN down', DownReply(i)'
      PROVE  /\ i \in Nat /\ i + k \in DOMAIN down /\ DownReply(i + k) /\ down'[i] = down[i + k]
             /\ pending'.subscribe => down'[i].ok
             /\ ~(pending' # NoRequest /\ ~pending'.subscribe)
  <2>1. i \in Nat /\ DownReply(i + k) /\ down'[i] = down[i + k] BY <1>3 DEF DownKept
  <2>2. i + k \in DOMAIN down BY <2>1 DEF DownReply
  <2>3. ~NothingDown BY <2>1, <2>2 DEF NothingDown
  <2> QED BY <1>0, <2>1, <2>2, <2>3 DEF NoEntryInv
<1>4. pending' # NoRequest /\ ~pending'.subscribe => ~InHand' /\ NothingPosted' /\ NothingDown'
  BY <1>0, <1>2, <1>3 DEF NoEntryInv, NothingPosted, NothingDown
<1>5. ASSUME NEW q \in DOMAIN posted', PostedRemoved(q)'
      PROVE  q \in Nat /\ q + j \in DOMAIN posted /\ PostedRemoved(q + j)
  BY <1>5 DEF PostedKept, PostedRemoved
<1>6. ASSUME NEW q \in DOMAIN down', DownRemoved(q)'
      PROVE  q \in Nat /\ q + k \in DOMAIN down /\ DownRemoved(q + k)
  BY <1>6 DEF DownKept, DownRemoved
<1>7. RemovedIsComing' => pending' # NoRequest
  <2>1. CASE link \in notify' BY <1>0, <2>1 DEF NoEntryInv, RemovedIsComing
  <2>2. CASE ToLink(Removed)'
    <3>1. PICK q \in DOMAIN posted' : PostedRemoved(q)' BY <2>2 DEF ToLink, PostedRemoved
    <3>2. ToLink(Removed) BY <1>5, <3>1 DEF ToLink, PostedRemoved
    <3> QED BY <1>0, <3>2 DEF NoEntryInv, RemovedIsComing
  <2>3. CASE OnLink(Removed)'
    <3>1. PICK q \in DOMAIN down' : DownRemoved(q)' BY <2>3 DEF OnLink, DownRemoved
    <3>2. OnLink(Removed) BY <1>6, <3>1 DEF OnLink, DownRemoved
    <3> QED BY <1>0, <3>2 DEF NoEntryInv, RemovedIsComing
  <2> QED BY <2>1, <2>2, <2>3 DEF RemovedIsComing
<1>8. ASSUME NEW i \in DOMAIN posted', NEW q \in DOMAIN posted', PostedReply(i)', PostedRemoved(q)'
      PROVE  q < i
  <2>1. q + j < i + j BY <1>0, <1>2, <1>5, <1>8 DEF NoEntryInv
  <2> QED BY <1>2, <1>5, <1>8, <2>1
<1>9. ASSUME NEW i \in DOMAIN down', DownReply(i)'
      PROVE  /\ \A q \in DOMAIN posted' : ~PostedRemoved(q)'
             /\ \A q \in DOMAIN down' : DownRemoved(q)' => q < i
  <2>1. i \in Nat /\ i + k \in DOMAIN down /\ DownReply(i + k) BY <1>3, <1>9
  <2>2. \A q \in DOMAIN posted : ~PostedRemoved(q) BY <1>0, <2>1 DEF NoEntryInv
  <2>3. \A q \in DOMAIN down : DownRemoved(q) => q < i + k BY <1>0, <2>1 DEF NoEntryInv
  <2>4. ASSUME NEW q \in DOMAIN down', DownRemoved(q)' PROVE q < i
    <3>1. q \in Nat /\ q + k < i + k BY <1>6, <2>3, <2>4
    <3> QED BY <2>1, <3>1
  <2> QED BY <1>5, <2>2, <2>4
<1>10. (subs' # {} \/ pending' # NoRequest) /\ \A r \in Receiver : thread'[r] # "fail"
  BY <1>0 DEF NoEntryInv
<1>11. link' \in remoteSubs' =>
         /\ subs' # {} \/ pending' # NoRequest
         /\ \A r \in Receiver : thread'[r] # "fail"
         /\ pending'.subscribe => /\ unanswered' # {} /\ up'[link'] = <<>>
                                  /\ InHand' => handling'.step \in {"recheck", "undo"} \/ handling'.ok
                                  /\ \A i \in DOMAIN posted' : PostedReply(i)' => posted'[i].msg.ok
                                  /\ \A i \in DOMAIN down' : DownReply(i)' => down'[i].ok
  BY <1>1, <1>2, <1>3, <1>10
<1> QED BY <1>4, <1>7, <1>8, <1>9, <1>11 DEF NoEntryInv

LEMMA CallNoEntry ==
  ASSUME TypeOK, PeerInv, CallInv, WayInv', NoEntryInv, NEW r \in Receiver,
         JoinSubscribers(r) \/ JoinRequest(r) \/ MakeRequest(r) \/ Unsubscribe(r) \/ Caller(r)
  PROVE  NoEntryInv'
<1>0. UNCHANGED <<link, peers, remoteSubs, notify, handling, posted, down, unanswered, up>>
  BY DEF JoinSubscribers, JoinRequest, MakeRequest, Unsubscribe, Caller, SendRequest, CannotSend,
         GiveUp, Others, wireVars, linkVars, objVars, pubVars, sockVars
<1>1. PostedKept(0) /\ DownKept(0) /\ (InHand' => InHand)
  BY <1>0, StayKept DEF InHand
<1>2. CASE JoinSubscribers(r) \/ JoinRequest(r) \/ SendRequest(r)
  <2>1. /\ subs \subseteq subs'
        /\ pending'.subscribe = pending.subscribe
        /\ (pending' = NoRequest) <=> (pending = NoRequest)
    <3>1. CASE JoinRequest(r)
      <4>1. pending' = [pending EXCEPT !.receivers = @ \cup {r}] /\ pending # NoRequest /\ subs' = subs
        BY <3>1 DEF JoinRequest
      <4>2. r \in pending'.receivers /\ pending'.subscribe = pending.subscribe BY <4>1 DEF TypeOK
      <4>3. pending' # NoRequest BY <4>2 DEF NoRequest
      <4> QED BY <4>1, <4>2, <4>3
    <3>2. CASE ~JoinRequest(r) BY <1>2, <3>2 DEF JoinSubscribers, SendRequest
    <3> QED BY <3>1, <3>2
  <2>2. \A q \in Receiver : thread'[q] = "fail" => thread[q] = "fail"
    BY <1>2 DEF JoinSubscribers, JoinRequest, SendRequest, TypeOK
  <2>3. link \in remoteSubs => subs' # {} \/ pending' # NoRequest BY <2>1 DEF NoEntryInv
  <2> QED BY <1>0, <1>1, <2>1, <2>2, <2>3, NoEntryKept
<1>3. CASE MakeRequest(r) \/ GiveUp(r)
  <2>1. link \notin remoteSubs BY <1>3 DEF MakeRequest, GiveUp, NoEntryInv
  <2> QED BY <1>0, <2>1, NoEntry
<1>4. CASE CannotSend(r)
  <2>1. link \notin remoteSubs BY <1>4 DEF CannotSend, TypeOK, Peer, NoPeer
  <2> QED BY <1>0, <2>1, NoEntry
<1>5. CASE Unsubscribe(r)
  <2>1. CASE subs = {r} /\ pending = NoRequest
    <3>1. unanswered' = {} BY <1>0, <2>1 DEF CallInv
    <3>2. NothingOnTheWay' BY <3>1, NothingAgain
    <3>3. NewRequest(FALSE, {}) /\ thread' = [thread EXCEPT ![r] = "send"]
      BY <1>5, <2>1 DEF Unsubscribe
    <3>4. pending' # NoRequest /\ ~pending'.subscribe
      <4>1. pending' = [id |-> requests + 1, subscribe |-> FALSE, receivers |-> {}] BY <3>3 DEF NewRequest
      <4>2. pending'.id # 0 /\ ~pending'.subscribe BY <4>1 DEF TypeOK
      <4> QED BY <4>2 DEF NoRequest
    <3>5. \A q \in Receiver : thread'[q] # "fail"
      BY <2>1, <3>3 DEF CallInv, TypeOK
    <3>6. link = NoPeer => link' \notin remoteSubs' BY <1>0 DEF TypeOK, Peer, NoPeer
    <3>7. link # NoPeer => \A i \in DOMAIN posted' : ~PostedReply(i)'
      BY <1>0, <3>2 DEF NothingOnTheWay, NothingPosted
    <3>8. \A i \in DOMAIN down' : ~DownReply(i)'
      BY <3>2 DEF NothingOnTheWay, NothingDown
    <3> QED BY <1>0, <3>2, <3>4, <3>5, <3>6, <3>7, <3>8 DEF NoEntryInv, NothingOnTheWay
  <2>2. CASE ~(subs = {r} /\ pending = NoRequest)
    <3>1. UNCHANGED <<pending, thread>> /\ subs' # {}
      BY <1>5, <2>2 DEF Unsubscribe, CallInv
    <3> QED BY <1>0, <1>1, <3>1, NoEntryKept
  <2> QED BY <2>1, <2>2
<1> QED BY <1>2, <1>3, <1>4, <1>5 DEF Caller

LEMMA LoopNoEntry ==
  ASSUME TypeOK, PeerInv, CallInv, WayInv, WayInv', TableInv, NoEntryInv,
         TransmitAny \/ ReceiveAny \/ LoseLink \/ CloseLink \/ Connect
  PROVE  NoEntryInv'
<1> USE DEF subVars, wireVars, linkVars, objVars, pubVars, sockVars
<1>0. NoPeer \notin remoteSubs /\ (link \notin peers => link \notin remoteSubs)
  BY DEF TypeOK, PeerInv, Peer, NoPeer
<1>1. CASE Transmit
  <2>1. /\ UNCHANGED <<link, subs, pending, thread, remoteSubs, notify, handling, posted, down>>
        /\ toSend # <<>>
    BY <1>1 DEF Transmit
  <2>2. unanswered = {} BY <2>1, ToSendFacts
  <2>3. InHand' => InHand BY <2>1 DEF InHand
  <2>4. PostedKept(0) /\ DownKept(0) BY <2>1, StayKept
  <2>5. link \in remoteSubs => subs' # {} \/ pending' # NoRequest BY <2>1 DEF NoEntryInv
  <2> QED BY <2>1, <2>2, <2>3, <2>4, <2>5, NoEntryKept
<1>2. CASE TransmitLost \/ TransmitFails
  <2>1. link \notin peers /\ UNCHANGED <<link, remoteSubs>> BY <1>2 DEF TransmitLost, TransmitFails
  <2> QED BY <1>0, <2>1, NoEntry
<1>3. CASE ReceiveSignal \/ ReceiveRemoved
  <2>1. /\ UNCHANGED <<link, pending, thread, unanswered, up, remoteSubs, notify, handling, posted>>
        /\ down # <<>> /\ down' = Tail(down)
    BY <1>3 DEF ReceiveSignal, ReceiveRemoved
  <2>2. InHand' => InHand BY <2>1 DEF InHand
  <2>3. PostedKept(0) /\ DownKept(1) BY <2>1, StayKept, TailKept
  <2>4. link \in remoteSubs => subs' # {} \/ pending' # NoRequest
    <3>1. CASE ReceiveSignal BY <3>1 DEF ReceiveSignal, NoEntryInv
    <3>2. CASE ReceiveRemoved
      <4>1. down \in Seq(Message) BY DEF TypeOK
      <4>2. 1 \in DOMAIN down /\ Head(down) = down[1] /\ Head(down) \in Message
        BY <2>1, <4>1, TailFacts
      <4>3. Head(down).kind = "removed" BY <3>2 DEF ReceiveRemoved
      <4>4. down[1] = Removed BY <4>2, <4>3 DEF Message
      <4>5. link \in remoteSubs => pending # NoRequest
        BY <4>2, <4>4 DEF NoEntryInv, RemovedIsComing, OnLink
      <4> QED BY <2>1, <4>5
    <3> QED BY <1>3, <3>1, <3>2
  <2> QED BY <2>1, <2>2, <2>3, <2>4, NoEntryKept
<1>4. CASE ReceiveReply
  <2>1. /\ down \in Seq(Message) /\ down # <<>> /\ Head(down).kind = "reply" /\ down' = Tail(down)
        /\ Answer(Head(down).n, Head(down).ok, toSend)
        /\ UNCHANGED <<link, remoteSubs, notify, handling, posted>>
    BY <1>4 DEF ReceiveReply, TypeOK
  <2>2. 1 \in DOMAIN down /\ Head(down) = down[1] /\ Head(down) \in Message
    BY <2>1, TailFacts
  <2>3. DownReply(1) BY <2>1, <2>2 DEF DownReply
  <2>4. down[1].n = pending.id /\ unanswered # {} /\ (\A i \in DOMAIN down : DownReply(i) => i = 1)
    BY <2>2, <2>3 DEF WayInv
  <2>5. ~NothingDown BY <2>2, <2>3 DEF NothingDown
  <2>6. pending # NoRequest /\ unanswered = {pending.id} /\ (pending.subscribe => pending.receivers # {})
        /\ \A r \in Receiver : thread[r] # "fail"
    BY <2>4 DEF CallInv
  <2>7. SUFFICES ASSUME link \in remoteSubs PROVE NoEntryInv'
    BY <2>1 DEF NoEntryInv
  <2>8. pending.subscribe /\ down[1].ok BY <2>2, <2>3, <2>5, <2>6, <2>7 DEF NoEntryInv
  <2>9. Resolve(down[1].ok, toSend) BY <2>1, <2>2, <2>4 DEF Answer
  <2>10. subs' # {} /\ pending' = NoRequest /\ thread' = Served
    BY <2>6, <2>8, <2>9 DEF Resolve
  <2>11. \A r \in Receiver : thread'[r] # "fail" BY <2>6, <2>10 DEF Served
  <2>12. unanswered' = {} BY <1>4, <2>2, <2>4, <2>6 DEF ReceiveReply
  <2>13. NothingOnTheWay' BY <2>12, NothingAgain
  <2>14. ~RemovedIsComing'
    <3>1. \A q \in DOMAIN posted : ~PostedRemoved(q) BY <2>2, <2>3, <2>7 DEF NoEntryInv
    <3>2. \A q \in DOMAIN down : DownRemoved(q) => q < 1 BY <2>2, <2>3, <2>7 DEF NoEntryInv
    <3>3. link \notin notify
      <4>1. link \in notify => handling.peer = link BY <2>7 DEF TableInv
      <4>2. ~InHand BY <2>5 DEF WayInv
      <4> QED BY <1>0, <2>7, <4>1, <4>2 DEF InHand
    <3>4. ASSUME NEW q \in DOMAIN down', DownRemoved(q)' PROVE FALSE
      <4>1. q \in Nat /\ DownRemoved(q + 1) BY <2>1, <3>4, TailKept DEF DownKept
      <4>2. q + 1 < 1 BY <3>2, <4>1 DEF DownRemoved
      <4> QED BY <4>1, <4>2
    <3> QED BY <2>1, <3>1, <3>3, <3>4 DEF RemovedIsComing, ToLink, OnLink, PostedRemoved, DownRemoved
  <2>15. \A i \in DOMAIN posted' : ~PostedReply(i)'
    BY <1>0, <2>1, <2>7, <2>13 DEF NothingOnTheWay, NothingPosted
  <2>16. \A i \in DOMAIN down' : ~DownReply(i)'
    BY <2>13 DEF NothingOnTheWay, NothingDown
  <2>17. ~pending'.subscribe BY <2>10 DEF NoRequest
  <2> QED BY <2>10, <2>11, <2>14, <2>15, <2>16, <2>17 DEF NoEntryInv
<1>5. CASE LoseLink
  <2>1. link' = NoPeer /\ remoteSubs' = remoteSubs BY <1>5 DEF LoseLink
  <2> QED BY <1>0, <2>1, NoEntry
<1>6. CASE CloseLink
  <2>1. link' = NoPeer /\ remoteSubs' = remoteSubs BY <1>6 DEF CloseLink, PeerInv
  <2> QED BY <1>0, <2>1, NoEntry
<1>7. CASE Connect
  <2>1. link' = lastPeer + 1 /\ lastPeer \in Nat /\ remoteSubs' = remoteSubs
    BY <1>7, BoundAssumption DEF Connect, TypeOK
  <2>2. remoteSubs \subseteq 1 .. lastPeer BY DEF PeerInv
  <2>3. link' \notin remoteSubs' BY <2>1, <2>2
  <2> QED BY <2>3, NoEntry
<1> QED BY <1>1, <1>2, <1>3, <1>4, <1>5, <1>6, <1>7 DEF TransmitAny, ReceiveAny

LEMMA DeliverNoEntry ==
  ASSUME TypeOK, PeerInv, WayInv, WayInv', NoEntryInv, DeliverPosted, Head(posted).to = link,
         link \in peers
  PROVE  NoEntryInv'
<1>0. /\ UNCHANGED <<link, peers, subs, pending, requests, thread, unanswered, up, handling,
                     remoteSubs, notify, overtaken>>
      /\ 1 \in DOMAIN posted /\ posted[1].to = link
      /\ DOMAIN posted = 1 .. Len(posted) /\ Len(posted) \in Nat
      /\ DOMAIN posted' = 1 .. Len(posted) - 1
      /\ \A i \in DOMAIN posted' : i + 1 \in DOMAIN posted /\ posted'[i] = posted[i + 1]
      /\ \A i \in DOMAIN posted : i # 1 => i - 1 \in DOMAIN posted' /\ posted'[i - 1] = posted[i]
      /\ DOMAIN down' = 1 .. Len(down) + 1
      /\ DOMAIN down = 1 .. Len(down) /\ Len(down) \in Nat
      /\ \A i \in DOMAIN down : down'[i] = down[i]
      /\ down'[Len(down) + 1] = posted[1].msg
      /\ posted[1].msg = Removed <=> PostedRemoved(1)
  BY DeliverFacts
<1> SUFFICES ASSUME link \in remoteSubs PROVE NoEntryInv'
  BY <1>0 DEF NoEntryInv
<1>1. ~InHand'
  BY <1>0 DEF DeliverPosted, PeerInv, InHand, Free
<1>2. ASSUME NEW i \in DOMAIN posted', PostedReply(i)'
      PROVE  i + 1 \in DOMAIN posted /\ PostedReply(i + 1) /\ posted'[i] = posted[i + 1]
  BY <1>0, <1>2 DEF PostedReply
<1>3. ASSUME NEW i \in DOMAIN posted', PostedRemoved(i)'
      PROVE  i + 1 \in DOMAIN posted /\ PostedRemoved(i + 1)
  BY <1>0, <1>3 DEF PostedRemoved
<1>4. ASSUME NEW i \in DOMAIN down', DownReply(i)'
      PROVE  \/ i \in DOMAIN down /\ DownReply(i) /\ down'[i] = down[i]
             \/ i = Len(down) + 1 /\ PostedReply(1) /\ down'[i] = posted[1].msg
  BY <1>0, <1>4 DEF DownReply, PostedReply
<1>5. ASSUME NEW i \in DOMAIN down', DownRemoved(i)'
      PROVE  \/ i \in DOMAIN down /\ DownRemoved(i)
             \/ i = Len(down) + 1 /\ PostedRemoved(1)
  BY <1>0, <1>5 DEF DownRemoved
<1>6. pending'.subscribe =>
        /\ \A i \in DOMAIN posted' : PostedReply(i)' => posted'[i].msg.ok
        /\ \A i \in DOMAIN down' : DownReply(i)' => down'[i].ok
  <2>1. SUFFICES ASSUME pending'.subscribe
                 PROVE  /\ \A i \in DOMAIN posted' : PostedReply(i)' => posted'[i].msg.ok
                        /\ \A i \in DOMAIN down' : DownReply(i)' => down'[i].ok
    OBVIOUS
  <2>2. /\ \A i \in DOMAIN posted : PostedReply(i) => posted[i].msg.ok
        /\ \A i \in DOMAIN down : DownReply(i) => down[i].ok
    BY <1>0, <2>1 DEF NoEntryInv
  <2>3. \A i \in DOMAIN posted' : PostedReply(i)' => posted'[i].msg.ok BY <1>2, <2>2
  <2>4. \A i \in DOMAIN down' : DownReply(i)' => down'[i].ok BY <1>0, <1>4, <2>2
  <2> QED BY <2>3, <2>4
<1>7. pending' # NoRequest /\ ~pending'.subscribe => NothingPosted' /\ NothingDown'
  <2>1. SUFFICES ASSUME pending' # NoRequest, ~pending'.subscribe PROVE NothingPosted' /\ NothingDown'
    OBVIOUS
  <2>2. NothingPosted /\ NothingDown BY <1>0, <2>1 DEF NoEntryInv
  <2>3. NothingPosted' BY <1>2, <2>2 DEF NothingPosted
  <2>4. NothingDown' BY <1>0, <1>4, <2>2 DEF NothingPosted, NothingDown
  <2> QED BY <2>3, <2>4
<1>8. RemovedIsComing' => pending' # NoRequest
  <2>1. RemovedIsComing => pending # NoRequest BY DEF NoEntryInv
  <2>2. CASE link \in notify' BY <1>0, <2>1, <2>2 DEF RemovedIsComing
  <2>3. CASE ToLink(Removed)'
    <3>1. PICK q \in DOMAIN posted' : PostedRemoved(q)' BY <2>3 DEF ToLink, PostedRemoved
    <3>2. ToLink(Removed) BY <1>3, <3>1 DEF ToLink, PostedRemoved
    <3> QED BY <1>0, <2>1, <3>2 DEF RemovedIsComing
  <2>4. CASE OnLink(Removed)'
    <3>1. PICK q \in DOMAIN down' : DownRemoved(q)' BY <2>4 DEF OnLink, DownRemoved
    <3>2. ToLink(Removed) \/ OnLink(Removed)
      BY <1>0, <1>5, <3>1 DEF ToLink, OnLink, PostedRemoved, DownRemoved
    <3> QED BY <1>0, <2>1, <3>2 DEF RemovedIsComing
  <2> QED BY <1>0, <2>2, <2>3, <2>4 DEF RemovedIsComing
<1>9. ASSUME NEW i \in DOMAIN posted', NEW q \in DOMAIN posted', PostedReply(i)', PostedRemoved(q)'
      PROVE  q < i
  <2>1. q + 1 < i + 1 BY <1>2, <1>3, <1>9 DEF NoEntryInv
  <2> QED BY <1>0, <1>9, <2>1
<1>10. ASSUME NEW i \in DOMAIN down', DownReply(i)'
       PROVE  /\ \A q \in DOMAIN posted' : ~PostedRemoved(q)'
              /\ \A q \in DOMAIN down' : DownRemoved(q)' => q < i
  <2>1. CASE i \in DOMAIN down /\ DownReply(i)
    <3>1. /\ \A q \in DOMAIN posted : ~PostedRemoved(q)
          /\ \A q \in DOMAIN down : DownRemoved(q) => q < i
      BY <2>1 DEF NoEntryInv
    <3> QED BY <1>0, <1>3, <1>5, <3>1
  <2>2. CASE i = Len(down) + 1 /\ PostedReply(1)
    <3>1. \A q \in DOMAIN posted : PostedRemoved(q) => q < 1
      BY <1>0, <2>2 DEF NoEntryInv
    <3>2. \A q \in DOMAIN posted : ~PostedRemoved(q) BY <1>0, <3>1
    <3>3. ASSUME NEW q \in DOMAIN down', DownRemoved(q)' PROVE q < i
      BY <1>0, <1>5, <2>2, <3>2, <3>3
    <3> QED BY <1>3, <3>2, <3>3
  <2> QED BY <1>4, <1>10, <2>1, <2>2
<1>11. /\ subs' # {} \/ pending' # NoRequest
       /\ \A r \in Receiver : thread'[r] # "fail"
       /\ pending'.subscribe => unanswered' # {} /\ up'[link'] = <<>>
  BY <1>0 DEF NoEntryInv
<1> QED BY <1>1, <1>6, <1>7, <1>8, <1>9, <1>10, <1>11 DEF NoEntryInv

LEMMA PublisherNoEntry ==
  ASSUME TypeOK, PeerInv, CallInv, WayInv, WayInv', TableInv, NoEntryInv, PublisherNext
  PROVE  NoEntryInv'
<1> USE DEF Elsewhere, Untouched, subVars, wireVars, linkVars, objVars, pubVars, sockVars
<1>0. /\ UNCHANGED <<link, unanswered, subs, pending, requests, thread>>
      /\ NoPeer \notin remoteSubs /\ (link \notin peers => link \notin remoteSubs)
  BY PublisherFrame DEF TypeOK, PeerInv, Peer, NoPeer
<1>1. link \in remoteSubs => subs' # {} \/ pending' # NoRequest
  BY <1>0 DEF NoEntryInv
<1>2. CASE DeliverPosted
  <2>1. CASE Head(posted).to = link /\ link \in peers BY <1>2, <2>1, DeliverNoEntry
  <2>2. CASE link \notin peers
    <3>1. link' \notin remoteSubs' BY <1>0, <1>2, <2>2 DEF DeliverPosted
    <3> QED BY <3>1, NoEntry
  <2>3. CASE Head(posted).to # link
    <3>1. PostedKept(1) /\ DownKept(0) BY <1>2, <2>3, DeliverOtherKept
    <3>2. UNCHANGED <<remoteSubs, notify, handling, up>> BY <1>2 DEF DeliverPosted
    <3>3. InHand' => InHand BY <1>0, <3>2 DEF InHand
    <3> QED BY <1>0, <1>1, <3>1, <3>2, <3>3, NoEntryKept
  <2> QED BY <2>1, <2>2, <2>3
<1>3. CASE Add
  <2>1. /\ UNCHANGED <<up, notify, posted, down>>
        /\ remoteSubs' = remoteSubs \cup {handling.peer} /\ handling'.peer = handling.peer
        /\ handling.step = "add" /\ handling'.step = "recheck"
    BY <1>3 DEF Add, TypeOK
  <2>2. CASE InHand
    <3>1. /\ handling.step # "reply" /\ pending.subscribe
          /\ unanswered # {} /\ NothingPosted /\ NothingDown /\ up[link] = <<>>
      BY <2>1, <2>2 DEF WayInv, InHand
    <3>2. pending # NoRequest /\ \A r \in Receiver : thread[r] # "fail" BY <3>1 DEF CallInv
    <3>3. \A i \in DOMAIN posted' : ~PostedReply(i)'
      BY <1>0, <2>1, <3>1 DEF NothingPosted, PostedReply
    <3>4. \A i \in DOMAIN down' : ~DownReply(i)' BY <2>1, <3>1 DEF NothingDown, DownReply
    <3>5. link' = link BY <1>0
    <3> QED BY <1>0, <2>1, <3>1, <3>2, <3>3, <3>4, <3>5 DEF NoEntryInv
  <2>3. CASE ~InHand
    <3>1. ~InHand' BY <1>0, <2>1, <2>3 DEF InHand
    <3>2. CASE link = NoPeer
      <4>1. NoPeer \notin remoteSubs' BY <1>0, <1>3, <2>1 DEF PeerInv, Add, Free, TypeOK, Peer, NoPeer
      <4> QED BY <1>0, <3>2, <4>1, NoEntry
    <3>3. CASE link # NoPeer
      <4>1. link \in remoteSubs' => link \in remoteSubs BY <2>1, <2>3, <3>3 DEF InHand
      <4>2. PostedKept(0) /\ DownKept(0) BY <1>0, <2>1, StayKept
      <4> QED BY <1>0, <1>1, <2>1, <3>1, <4>1, <4>2, NoEntryKept
    <3> QED BY <3>2, <3>3
  <2> QED BY <2>2, <2>3
<1>4. CASE Recheck
  <2>1. UNCHANGED <<up, notify, remoteSubs, posted, down>> /\ handling'.peer = handling.peer
        /\ (handling'.step = "undo" \/ handling'.ok)
    BY <1>4 DEF Recheck, TypeOK
  <2>2. InHand' => InHand BY <1>0, <2>1 DEF InHand
  <2>3. PostedKept(0) /\ DownKept(0) BY <1>0, <2>1, StayKept
  <2> QED BY <1>0, <1>1, <2>1, <2>2, <2>3, NoEntryKept
<1>5. CASE Undo
  <2>1. /\ UNCHANGED <<up, notify, posted, down>>
        /\ remoteSubs' = remoteSubs \ {handling.peer} /\ handling'.peer = handling.peer
    BY <1>5 DEF Undo, TypeOK
  <2>2. CASE InHand
    <3>1. link' \notin remoteSubs' BY <1>0, <2>1, <2>2 DEF InHand
    <3> QED BY <3>1, NoEntry
  <2>3. CASE ~InHand
    <3>1. ~InHand' BY <1>0, <2>1, <2>3 DEF InHand
    <3>2. PostedKept(0) /\ DownKept(0) BY <1>0, <2>1, StayKept
    <3> QED BY <1>0, <1>1, <2>1, <3>1, <3>2, NoEntryKept
  <2> QED BY <2>2, <2>3
<1>6. CASE SendReply
  <2>1. /\ Post(handling.peer, Reply(handling.id, handling.ok)) /\ handling'.peer = NoPeer
        /\ UNCHANGED <<up, remoteSubs, notify, down>> /\ handling.step = "reply"
    BY <1>6 DEF SendReply, NotHandling
  <2>2. ~InHand' BY <1>0, <2>1 DEF InHand
  <2>3. CASE handling.peer # link
    <3>1. PostedKept(0) /\ DownKept(0) BY <1>0, <2>1, <2>3, PostKept, StayKept
    <3> QED BY <1>0, <1>1, <2>1, <2>2, <3>1, NoEntryKept
  <2>4. CASE handling.peer = link
    <3>0. SUFFICES ASSUME link \in remoteSubs PROVE NoEntryInv'
      BY <1>0, <2>1 DEF NoEntryInv
    <3>1. InHand BY <1>0, <2>4, <3>0 DEF InHand
    <3>2. unanswered # {} /\ NothingPosted /\ NothingDown /\ up[link] = <<>>
      BY <3>1 DEF WayInv, InHand
    <3>3. pending # NoRequest /\ \A r \in Receiver : thread[r] # "fail" BY <3>2 DEF CallInv
    <3>4. pending.subscribe BY <3>0, <3>1, <3>3 DEF NoEntryInv
    <3>5. handling.ok BY <2>1, <3>0, <3>1, <3>4 DEF NoEntryInv
    <3>6. \A i \in DOMAIN down' : ~DownReply(i)' BY <2>1, <3>2 DEF NothingDown, DownReply
    <3>7. /\ DOMAIN posted' = 1 .. Len(posted) + 1
          /\ DOMAIN posted = 1 .. Len(posted) /\ Len(posted) \in Nat
          /\ \A i \in DOMAIN posted : posted'[i] = posted[i]
          /\ posted'[Len(posted) + 1] = [to |-> handling.peer, msg |-> Reply(handling.id, handling.ok)]
      BY <2>1, PostFacts
    <3>8. ASSUME NEW i \in DOMAIN posted', PostedReply(i)' PROVE i = Len(posted) + 1
      <4>1. CASE i \in DOMAIN posted
        BY <1>0, <3>2, <3>7, <3>8, <4>1 DEF NothingPosted, PostedReply
      <4>2. CASE i \notin DOMAIN posted BY <3>7, <3>8, <4>2
      <4> QED BY <4>1, <4>2
    <3>9. \A i \in DOMAIN posted' : PostedReply(i)' => posted'[i].msg.ok
      BY <3>5, <3>7, <3>8 DEF Reply
    <3>10. ASSUME NEW i \in DOMAIN posted', NEW q \in DOMAIN posted',
                  PostedReply(i)', PostedRemoved(q)'
           PROVE  q < i
      <4>1. i = Len(posted) + 1 BY <3>8, <3>10
      <4>2. q # i BY <3>10 DEF PostedReply, PostedRemoved, Removed
      <4> QED BY <3>7, <4>1, <4>2
    <3>11. link' = link BY <1>0
    <3> QED BY <1>0, <2>1, <2>2, <3>2, <3>3, <3>4, <3>6, <3>9, <3>10, <3>11 DEF NoEntryInv
  <2> QED BY <2>3, <2>4
<1>7. ASSUME NEW e \in Peer, ReceiveSubscribe(e) \/ ReceiveUnsubscribe(e) PROVE NoEntryInv'
  <2>1. /\ UNCHANGED <<notify, posted, down>>
        /\ up[e] # <<>> /\ up' = [up EXCEPT ![e] = Tail(@)]
        /\ handling'.peer = e
        /\ \/ Head(up[e]).subscribe /\ remoteSubs' = remoteSubs
           \/ remoteSubs' = remoteSubs \ {e}
    BY <1>7 DEF ReceiveSubscribe, ReceiveUnsubscribe
  <2>2. CASE e # link
    <3>1. ~InHand' BY <1>0, <2>1, <2>2 DEF InHand
    <3>2. PostedKept(0) /\ DownKept(0) BY <1>0, <2>1, StayKept
    <3>3. link = NoPeer => link' \notin remoteSubs' BY <1>0, <2>1
    <3>4. link # NoPeer => up'[link] = up[link] BY <2>1, <2>2 DEF TypeOK
    <3>5. CASE link = NoPeer BY <3>3, <3>5, NoEntry
    <3>6. CASE link # NoPeer BY <1>0, <1>1, <2>1, <3>1, <3>2, <3>4, <3>6, NoEntryKept
    <3> QED BY <3>5, <3>6
  <2>3. CASE e = link
    <3>1. up[e] = <<[id |-> pending.id, subscribe |-> pending.subscribe]>>
      BY <2>1, <2>3 DEF WayInv, Peer, NoPeer
    <3>2. Head(up[e]).subscribe = pending.subscribe BY <3>1
    <3>3. pending.subscribe => link \notin remoteSubs BY <2>1, <2>3 DEF NoEntryInv
    <3>4. link' \notin remoteSubs' BY <1>0, <2>1, <2>3, <3>2, <3>3
    <3> QED BY <3>4, NoEntry
  <2> QED BY <2>2, <2>3
<1>8. ASSUME NEW e \in Peer, LosePeer(e) PROVE NoEntryInv'
  <2>1. /\ UNCHANGED <<notify, handling, posted, down>>
        /\ up' = [up EXCEPT ![e] = <<>>] /\ remoteSubs' = remoteSubs \ {e}
    BY <1>8 DEF LosePeer
  <2>2. CASE e = link \/ link = NoPeer
    <3>1. link' \notin remoteSubs' BY <1>0, <2>1, <2>2
    <3> QED BY <3>1, NoEntry
  <2>3. CASE e # link /\ link # NoPeer
    <3>1. up'[link] = up[link] BY <2>1, <2>3 DEF TypeOK
    <3>2. InHand' => InHand BY <1>0, <2>1 DEF InHand
    <3>3. PostedKept(0) /\ DownKept(0) BY <1>0, <2>1, StayKept
    <3> QED BY <1>0, <1>1, <2>1, <3>1, <3>2, <3>3, NoEntryKept
  <2> QED BY <2>2, <2>3
<1>9. ASSUME NEW e \in Peer, NotifyRemoved(e) PROVE NoEntryInv'
  <2>1. /\ UNCHANGED <<up, remoteSubs, handling, down>>
        /\ notify' = notify \ {e} /\ e \in notify
        /\ IF e \in peers THEN Post(e, Removed) ELSE UNCHANGED posted
    BY <1>9 DEF NotifyRemoved
  <2>2. CASE link \notin remoteSubs BY <1>0, <2>1, <2>2, NoEntry
  <2>3. CASE e # link
    <3>1. InHand' => InHand BY <1>0, <2>1 DEF InHand
    <3>2. PostedKept(0) /\ DownKept(0) BY <1>0, <2>1, <2>3, PostKept, StayKept
    <3> QED BY <1>0, <1>1, <2>1, <3>1, <3>2, NoEntryKept
  <2>4. CASE e = link /\ link \in remoteSubs
    <3>1. handling.peer = link /\ handling.step \in {"recheck", "undo"} BY <2>1, <2>4 DEF TableInv
    <3>2. InHand BY <1>0, <2>4, <3>1 DEF InHand
    <3>3. /\ unanswered # {} /\ NothingPosted /\ NothingDown /\ up[link] = <<>>
          /\ pending.subscribe
      BY <3>1, <3>2 DEF WayInv, InHand
    <3>4. pending # NoRequest /\ \A r \in Receiver : thread[r] # "fail" BY <3>3 DEF CallInv
    <3>5. Removed.kind # "reply" BY DEF Removed
    <3>6. \A i \in DOMAIN posted' : ~PostedReply(i)'
      <4>1. CASE e \notin peers BY <1>0, <2>1, <3>3, <4>1 DEF NothingPosted, PostedReply
      <4>2. CASE e \in peers
        <5>1. \A i \in DOMAIN posted' : PostedReply(i)' =>
                i \in Nat /\ PostedReply(i + 0) /\ posted'[i] = posted[i + 0]
          BY <1>0, <2>1, <3>5, <4>2, PostOther
        <5>2. \A i : PostedReply(i) => i \in DOMAIN posted BY DEF PostedReply
        <5> QED BY <3>3, <5>1, <5>2 DEF NothingPosted
      <4> QED BY <4>1, <4>2
    <3>7. \A i \in DOMAIN down' : ~DownReply(i)' BY <2>1, <3>3 DEF NothingDown, DownReply
    <3>8. link' = link BY <1>0
    <3>9. handling'.step \in {"recheck", "undo"} BY <2>1, <3>1
    <3> QED BY <1>0, <2>1, <3>3, <3>4, <3>6, <3>7, <3>8, <3>9 DEF NoEntryInv
  <2> QED BY <2>2, <2>3, <2>4
<1>10. ASSUME NEW e \in Peer, PublishTo(e) PROVE NoEntryInv'
  <2>1. /\ UNCHANGED <<up, remoteSubs, notify, handling, down>>
        /\ UNCHANGED posted \/ Post(e, Signal(publishing.signal))
    BY <1>10 DEF PublishTo
  <2>2. InHand' => InHand BY <1>0, <2>1 DEF InHand
  <2>3. Signal(publishing.signal).kind = "signal" BY DEF Signal
  <2>4. PostedKept(0) /\ DownKept(0) BY <1>0, <2>1, <2>3, PostKept, StayKept
  <2> QED BY <1>0, <1>1, <2>1, <2>2, <2>4, NoEntryKept
<1>11. CASE DropSubscribers
  <2>1. link' \notin remoteSubs' BY <1>11 DEF DropSubscribers
  <2> QED BY <2>1, NoEntry
<1>12. CASE MakeObject \/ RemoveObject \/ ReleaseName \/ Publish \/ \E l \in LocalReceiver : LocalAny(l)
  <2>1. UNCHANGED <<up, remoteSubs, notify, handling, posted, down>>
    BY <1>12 DEF MakeObject, RemoveObject, ReleaseName, Publish, LocalAny, LocalStep, LocalCheck,
                 LocalAdd, LocalRecheck, LocalUndo, LocalUnsubscribe
  <2>2. InHand' => InHand BY <1>0, <2>1 DEF InHand
  <2>3. PostedKept(0) /\ DownKept(0) BY <1>0, <2>1, StayKept
  <2> QED BY <1>0, <1>1, <2>1, <2>2, <2>3, NoEntryKept
<1> QED
  BY <1>2, <1>3, <1>4, <1>5, <1>6, <1>7, <1>8, <1>9, <1>10, <1>11, <1>12 DEF PublisherNext, Handle

LEMMA NoEntryStep ==
  TypeOK /\ PeerInv /\ CallInv /\ WayInv /\ TableInv /\ NoEntryInv /\ WayInv' /\ [Next]_vars
    => NoEntryInv'
<1> SUFFICES ASSUME TypeOK, PeerInv, CallInv, WayInv, TableInv, NoEntryInv, WayInv', [Next]_vars
             PROVE  NoEntryInv'
  OBVIOUS
<1>1. CASE SubscriberNext BY <1>1, CallNoEntry, LoopNoEntry DEF SubscriberNext
<1>2. CASE PublisherNext BY <1>2, PublisherNoEntry
<1>3. CASE UNCHANGED vars
  BY <1>3 DEF NoEntryInv, InHand, PostedReply, DownReply, PostedRemoved, DownRemoved, RemovedIsComing,
              ToLink, OnLink, NothingPosted, NothingDown, vars, subVars, wireVars, linkVars, objVars,
              pubVars, sockVars
<1> QED BY <1>1, <1>2, <1>3, NextSplit

-----------------------------------------------------------------------------
(* Signals on their way *)

\* The signals that a receiver will see: those behind the reply that subscribes
\* it, or all when somebody is subscribed.  What was posted to a connection that
\* the publisher's context has lost is not sent.
DueDown(i) ==
  /\ i \in DOMAIN down /\ down[i].kind = "signal"
  /\ subs # {} \/ \E j \in DOMAIN down : j < i /\ DownReply(j)
DuePosted(i) ==
  /\ link \in peers
  /\ i \in DOMAIN posted /\ posted[i].to = link /\ posted[i].msg.kind = "signal"
  /\ subs # {} \/ ~NothingDown \/ \E j \in DOMAIN posted : j < i /\ PostedReply(j)
DueLast ==
  /\ link \in peers /\ link \in publishing.to
  /\ subs # {} \/ ~NothingDown \/ ~NothingPosted

\* Signal n is the one seen last (at 0), or the p-th thing on its way.
Due(p, n) ==
  \/ p = 0 /\ n # 0 /\ \E r \in subs : lastSeen[r] = n
  \/ DueDown(p) /\ down[p].n = n
  \/ DuePosted(p - Len(down)) /\ posted[p - Len(down)].msg.n = n
  \/ p = Len(down) + Len(posted) + 1 /\ DueLast /\ publishing.signal = n

\* They are numbered in order and without a gap, up to the one published last
\* as long as the connection has an entry.
OrderDue == \A p, q, m, n \in Nat : Due(p, m) /\ Due(q, n) => (p < q <=> m < n)
NoneMissing ==
  \A p, q, m, n, k \in Nat :
    Due(p, m) /\ Due(q, n) /\ m < k /\ k < n => \E l \in Nat : Due(l, k)
ReachLast ==
  link \in remoteSubs =>
    \A p, n \in Nat : Due(p, n) => \E l, k \in Nat : Due(l, k) /\ k = published
GapInv ==
  /\ publishing.to # {} => publishing.signal = published /\ published # 0
  /\ \A p, n \in Nat : Due(p, n) => n \in 1 .. published
  /\ OrderDue /\ NoneMissing /\ ReachLast

LEMMA GapInit == Init => GapInv
<1> SUFFICES ASSUME Init PROVE GapInv
  OBVIOUS
<1>1. /\ subs = {} /\ DOMAIN down = {} /\ DOMAIN posted = {} /\ publishing.to = {}
  BY DEF Init, NotPublishing
<1>2. \A p, n \in Nat : ~Due(p, n)
  BY <1>1 DEF Due, DueDown, DuePosted, DueLast
<1> QED BY <1>1, <1>2 DEF GapInv, OrderDue, NoneMissing, ReachLast

\* Signals move up to where f says they were, and some at either end may be
\* taken away, those at the far end when the connection has no entry.
MoveUp(f) ==
  /\ \A p, n \in Nat : Due(p, n)' => Due(f[p], n)
  /\ \A p, q, m, n \in Nat : Due(p, m)' /\ Due(q, n)' => (p < q <=> f[p] < f[q])
FewLost ==
  \A p, n \in Nat : Due(p, n) =>
    \/ \E l \in Nat : Due(l, n)'
    \/ \A q, m \in Nat : Due(q, m)' => n < m
    \/ link' \notin remoteSubs' /\ \A q, m \in Nat : Due(q, m)' => m < n

LEMMA Asymmetric == \A m, n \in Nat : m < n => ~(n < m)
  OBVIOUS

LEMMA GapKept ==
  ASSUME GapInv, published \in Nat, published' = published, NEW f \in [Nat -> Nat],
         publishing'.to # {} => publishing'.signal = published /\ published # 0,
         MoveUp(f), FewLost, link' \in remoteSubs' => link \in remoteSubs
  PROVE  GapInv'
<1>0. \A p \in Nat : f[p] \in Nat
  OBVIOUS
<1>1. ASSUME NEW p \in Nat, NEW n \in Nat, Due(p, n)' PROVE n \in 1 .. published
  BY <1>0, <1>1 DEF GapInv, MoveUp
<1>2. OrderDue'
  <2>1. SUFFICES ASSUME NEW p \in Nat, NEW q \in Nat, NEW m \in Nat, NEW n \in Nat,
                        Due(p, m)', Due(q, n)'
                 PROVE  p < q <=> m < n
    BY DEF OrderDue
  <2>2. Due(f[p], m) /\ Due(f[q], n) /\ (p < q <=> f[p] < f[q])
    BY <2>1 DEF MoveUp
  <2>3. f[p] < f[q] <=> m < n
    BY <1>0, <2>2 DEF GapInv, OrderDue
  <2> QED BY <2>2, <2>3
<1>3. NoneMissing'
  <2>1. SUFFICES ASSUME NEW p \in Nat, NEW q \in Nat, NEW m \in Nat, NEW n \in Nat, NEW k \in Nat,
                        Due(p, m)', Due(q, n)', m < k, k < n
                 PROVE  \E l \in Nat : Due(l, k)'
    BY DEF NoneMissing
  <2>2. Due(f[p], m) /\ Due(f[q], n)
    BY <2>1 DEF MoveUp
  <2>3. PICK l \in Nat : Due(l, k)
    BY <1>0, <2>1, <2>2 DEF GapInv, NoneMissing
  <2>4. \/ \E i \in Nat : Due(i, k)'
        \/ \A i, j \in Nat : Due(i, j)' => k < j
        \/ link' \notin remoteSubs' /\ \A i, j \in Nat : Due(i, j)' => j < k
    BY <2>3 DEF FewLost
  <2>5. ~(k < m) /\ ~(n < k)
    BY <2>1, Asymmetric
  <2> QED BY <2>1, <2>4, <2>5
<1>4. ReachLast'
  <2>1. SUFFICES ASSUME link' \in remoteSubs', NEW p \in Nat, NEW n \in Nat, Due(p, n)'
                 PROVE  \E l, k \in Nat : Due(l, k)' /\ k = published'
    BY DEF ReachLast
  <2>2. Due(f[p], n) /\ link \in remoteSubs
    BY <2>1 DEF MoveUp
  <2>3. PICK l \in Nat, k \in Nat : Due(l, k) /\ k = published
    BY <1>0, <2>2 DEF GapInv, ReachLast
  <2>4. ~(k < n)
    <3>1. n \in 1 .. published BY <1>1, <2>1
    <3> QED BY <2>3, <3>1
  <2>5. \/ \E i \in Nat : Due(i, k)'
        \/ \A i, j \in Nat : Due(i, j)' => k < j
    BY <2>1, <2>3 DEF FewLost
  <2> QED BY <2>1, <2>3, <2>4, <2>5
<1> QED BY <1>1, <1>2, <1>3, <1>4 DEF GapInv

\* The number of the signal that is being published.
PublishingInv == publishing.to # {} => publishing.signal = published /\ published # 0

\* The same signals are on their way.
LEMMA DueSame ==
  ASSUME TypeOK, GapInv, published' = published, PublishingInv',
         \A p, n \in Nat : Due(p, n)' <=> Due(p, n),
         link' \in remoteSubs' => link \in remoteSubs \/ \A p, n \in Nat : ~Due(p, n)
  PROVE  GapInv'
<1>1. CASE \A p, n \in Nat : ~Due(p, n)
  BY <1>1 DEF GapInv, OrderDue, NoneMissing, ReachLast, PublishingInv
<1>2. CASE link' \in remoteSubs' => link \in remoteSubs
  <2>1. PICK f \in [Nat -> Nat] : f = [p \in Nat |-> p]
    OBVIOUS
  <2>2. \A p \in Nat : f[p] = p
    BY <2>1
  <2>3. MoveUp(f)
    BY <2>2 DEF MoveUp
  <2>4. FewLost
    BY DEF FewLost
  <2>5. published \in Nat
    BY BoundAssumption DEF TypeOK
  <2> QED BY <1>2, <2>1, <2>3, <2>4, <2>5, GapKept DEF PublishingInv
<1> QED BY <1>1, <1>2

\* Nothing is on its way.
LEMMA NotLive ==
  ASSUME subs = {}, NothingDown, link \notin peers \/ NothingPosted
  PROVE  \A p, n \in Nat : ~Due(p, n)
  BY DEF Due, DueDown, DuePosted, DueLast, NothingDown, NothingPosted

LEMMA NotLiveNext ==
  ASSUME TypeOK, GapInv, PublishingInv',
         subs' = {}, NothingDown', link' \notin peers' \/ NothingPosted'
  PROVE  GapInv'
<1>1. \A p, n \in Nat : ~Due(p, n)'
  BY DEF Due, DueDown, DuePosted, DueLast, NothingDown, NothingPosted
<1> QED BY <1>1 DEF GapInv, OrderDue, NoneMissing, ReachLast, PublishingInv

\* The step does not touch what is on its way.
LEMMA DueFrame ==
  ASSUME TypeOK, GapInv,
         UNCHANGED <<subs, lastSeen, link, down, posted, publishing, published>>,
         link' \in peers' <=> link \in peers,
         link' \in remoteSubs' => link \in remoteSubs \/ \A p, n \in Nat : ~Due(p, n)
  PROVE  GapInv'
<1>1. \A p, n \in Nat : Due(p, n)' <=> Due(p, n)
  BY DEF Due, DueDown, DuePosted, DueLast, NothingDown, NothingPosted, DownReply, PostedReply
<1>2. PublishingInv'
  BY DEF PublishingInv, GapInv
<1> QED BY <1>1, <1>2, DueSame

\* Calls: a receiver that joins the subscribers has seen nothing yet.
LEMMA Unasked ==
  ASSUME PeerInv, CallInv, WayInv, subs # {}
  PROVE  link # NoPeer /\ NothingPosted /\ NothingDown
  BY NoneUnanswered DEF PeerInv, CallInv, NothingOnTheWay

LEMMA CallGap ==
  ASSUME TypeOK, PeerInv, CallInv, WayInv, GapInv, NEW r \in Receiver,
         JoinSubscribers(r) \/ JoinRequest(r) \/ MakeRequest(r) \/ Unsubscribe(r) \/ Caller(r)
  PROVE  GapInv'
<1>1. UNCHANGED <<link, down, posted, publishing, published, peers, remoteSubs>>
  BY DEF JoinSubscribers, JoinRequest, MakeRequest, Unsubscribe, Caller, SendRequest, CannotSend,
         GiveUp, Others, wireVars, linkVars, pubVars, sockVars, sigVars
<1>2. PublishingInv'
  BY <1>1 DEF PublishingInv, GapInv
<1>3. CASE JoinRequest(r) \/ MakeRequest(r) \/ Caller(r)
  <2>1. UNCHANGED <<subs, lastSeen>>
    BY <1>3 DEF JoinRequest, MakeRequest, Caller, SendRequest, CannotSend, GiveUp
  <2> QED BY <1>1, <2>1, DueFrame
<1>4. CASE JoinSubscribers(r)
  <2>1. /\ subs # {} /\ r \notin subs /\ subs' = subs \cup {r}
        /\ lastSeen' = [lastSeen EXCEPT ![r] = 0]
    BY <1>4 DEF JoinSubscribers
  <2>2. \A q \in subs : lastSeen'[q] = lastSeen[q]
    BY <2>1 DEF TypeOK
  <2>3. lastSeen'[r] = 0
    BY <2>1 DEF TypeOK
  <2>4. \A n \in Nat : n # 0 => ((\E q \in subs' : lastSeen'[q] = n) <=> \E q \in subs : lastSeen[q] = n)
    BY <2>1, <2>2, <2>3
  <2>5. \A p, n \in Nat : Due(p, n)' <=> Due(p, n)
    BY <1>1, <2>1, <2>4 DEF Due, DueDown, DuePosted, DueLast, NothingDown, NothingPosted, DownReply,
                            PostedReply
  <2> QED BY <1>1, <1>2, <2>5, DueSame
<1>5. CASE Unsubscribe(r)
  <2>1. r \in subs /\ subs' = subs \ {r} /\ lastSeen' = lastSeen
    BY <1>5 DEF Unsubscribe
  <2>2. NothingDown' /\ NothingPosted'
    BY <1>1, <2>1, Unasked DEF NothingDown, NothingPosted, DownReply, PostedReply
  <2>3. CASE subs' = {}
    BY <1>2, <2>2, <2>3, NotLiveNext
  <2>4. CASE subs' # {}
    <3>1. \A p, n \in Nat : Due(p, n)' => Due(p, n)
      BY <1>1, <2>1, <2>4 DEF Due, DueDown, DuePosted, DueLast
    <3>2. \A p, n \in Nat : Due(p, n) => p = 0 \/ Due(p, n)'
      BY <1>1, <2>1, <2>4 DEF Due, DueDown, DuePosted, DueLast
    <3>3. PICK f \in [Nat -> Nat] : f = [p \in Nat |-> p]
      OBVIOUS
    <3>4. \A p \in Nat : f[p] = p
      BY <3>3
    <3>5. MoveUp(f)
      BY <3>1, <3>4 DEF MoveUp
    <3>6. FewLost
      <4>1. SUFFICES ASSUME NEW n \in Nat, Due(0, n), ~\E l \in Nat : Due(l, n)',
                            NEW q \in Nat, NEW m \in Nat, Due(q, m)'
                     PROVE  n < m
        BY <3>2 DEF FewLost
      <4>2. Due(q, m) /\ m # n
        BY <3>1, <4>1
      <4>3. (0 < q <=> n < m) /\ (q < 0 <=> m < n)
        BY <4>1, <4>2 DEF GapInv, OrderDue
      <4> QED BY <4>1, <4>2, <4>3
    <3>7. published \in Nat
      BY BoundAssumption DEF TypeOK
    <3> QED BY <1>1, <1>2, <3>3, <3>5, <3>6, <3>7, GapKept DEF PublishingInv
  <2> QED BY <2>3, <2>4
<1> QED BY <1>3, <1>4, <1>5

\* The first thing on its way is received.
LEMMA DueNext ==
  ASSUME TypeOK, GapInv, published' = published, PublishingInv',
         \A p, n \in Nat : Due(p, n)' => Due(p + 1, n),
         \A p, n \in Nat : Due(p + 1, n) => \E l \in Nat : Due(l, n)',
         link' \in remoteSubs' => link \in remoteSubs
  PROVE  GapInv'
<1>1. PICK f \in [Nat -> Nat] : f = [p \in Nat |-> p + 1]
  <2>1. \A p \in Nat : p + 1 \in Nat
    OBVIOUS
  <2>2. [p \in Nat |-> p + 1] \in [Nat -> Nat]
    BY <2>1, Zenon
  <2> QED BY <2>2, Zenon
<1>2. \A p \in Nat : f[p] = p + 1
  BY <1>1
<1>3. MoveUp(f)
  <2>1. \A p, n \in Nat : Due(p, n)' => Due(f[p], n)
    BY <1>2
  <2>2. \A p, q \in Nat : p < q <=> f[p] < f[q]
    BY <1>2
  <2> QED BY <2>1, <2>2 DEF MoveUp
<1>4. FewLost
  <2>1. SUFFICES ASSUME NEW p \in Nat, NEW n \in Nat, Due(p, n), ~\E l \in Nat : Due(l, n)',
                        NEW q \in Nat, NEW m \in Nat, Due(q, m)'
                 PROVE  n < m
    BY DEF FewLost
  <2>2. p = 0
    <3>1. CASE p # 0
      <4>1. PICK k \in Nat : p = k + 1
        <5>1. p - 1 \in Nat /\ p = (p - 1) + 1
          BY <2>1, <3>1
        <5> QED BY <5>1
      <4> QED BY <2>1, <4>1
    <3> QED BY <3>1
  <2>3. Due(q + 1, m) /\ q + 1 \in Nat /\ 0 < q + 1
    BY <2>1
  <2>4. 0 < q + 1 <=> n < m
    BY <2>1, <2>2, <2>3 DEF GapInv, OrderDue
  <2> QED BY <2>3, <2>4
<1>5. published \in Nat
  BY BoundAssumption DEF TypeOK
<1> QED BY <1>1, <1>3, <1>4, <1>5, GapKept DEF PublishingInv

\* What the receipt of the first message does to the positions.
LEMMA Received ==
  ASSUME TypeOK, down # <<>>, down' = Tail(down), UNCHANGED <<link, peers, posted, publishing>>
  PROVE  /\ 1 \in DOMAIN down /\ Head(down) = down[1]
         /\ Len(down') = Len(down) - 1 /\ Len(down) \in Nat /\ Len(posted) \in Nat
         /\ \A i \in DOMAIN down' : i \in Nat \ {0} /\ i + 1 \in DOMAIN down /\ down'[i] = down[i + 1]
         /\ \A i \in DOMAIN down : i # 1 => i - 1 \in DOMAIN down' /\ down'[i - 1] = down[i]
         /\ DOMAIN down = 1 .. Len(down)
<1>1. down \in Seq(Message) /\ posted \in Seq([to : Peer, msg : Message])
  BY DEF TypeOK
<1>2. /\ 1 \in DOMAIN down /\ Head(down) = down[1]
      /\ DOMAIN down = 1 .. Len(down) /\ Len(down) \in Nat
      /\ DOMAIN down' = 1 .. Len(down) - 1
      /\ \A i \in DOMAIN down' : i + 1 \in DOMAIN down /\ down'[i] = down[i + 1]
      /\ \A i \in DOMAIN down : i # 1 => i - 1 \in DOMAIN down' /\ down'[i - 1] = down[i]
  BY <1>1, TailFacts
<1>3. Len(down') = Len(down) - 1 /\ Len(posted) \in Nat
  BY <1>1
<1> QED BY <1>2, <1>3

LEMMA ReceivedDue ==
  ASSUME TypeOK, down # <<>>, down' = Tail(down), UNCHANGED <<link, peers, posted, publishing>>,
         NEW p \in Nat, NEW n \in Nat, p # 0,
         subs' # {} => subs # {} \/ Head(down).kind = "reply"
  PROVE  Due(p, n)' => Due(p + 1, n)
<1>1. /\ 1 \in DOMAIN down /\ Head(down) = down[1]
      /\ Len(down') = Len(down) - 1 /\ Len(down) \in Nat /\ Len(posted) \in Nat
      /\ \A i \in DOMAIN down' : i \in Nat \ {0} /\ i + 1 \in DOMAIN down /\ down'[i] = down[i + 1]
      /\ \A i \in DOMAIN down : i # 1 => i - 1 \in DOMAIN down' /\ down'[i - 1] = down[i]
      /\ DOMAIN down = 1 .. Len(down)
  BY Received
<1>2. (\E j \in DOMAIN down' : DownReply(j)') => \E j \in DOMAIN down : DownReply(j)
  BY <1>1 DEF DownReply
<1>3. subs' # {} \/ ~NothingDown' => subs # {} \/ ~NothingDown
  BY <1>1, <1>2 DEF NothingDown, DownReply
<1>4. DueDown(p)' => DueDown(p + 1) /\ down'[p] = down[p + 1]
  <2>1. SUFFICES ASSUME DueDown(p)' PROVE DueDown(p + 1) /\ down'[p] = down[p + 1]
    OBVIOUS
  <2>2. p \in DOMAIN down' /\ p + 1 \in DOMAIN down /\ down'[p] = down[p + 1]
    BY <1>1, <2>1 DEF DueDown
  <2>3. subs # {} \/ \E j \in DOMAIN down : j < p + 1 /\ DownReply(j)
    <3>1. CASE subs' # {}
      BY <1>1, <3>1 DEF DownReply
    <3>2. ASSUME NEW j \in DOMAIN down', j < p, DownReply(j)'
          PROVE  \E k \in DOMAIN down : k < p + 1 /\ DownReply(k)
      <4>1. j + 1 \in DOMAIN down /\ down'[j] = down[j + 1] /\ j + 1 < p + 1
        BY <1>1, <3>2
      <4>2. DownReply(j + 1)
        BY <3>2, <4>1 DEF DownReply
      <4> QED BY <4>1, <4>2
    <3> QED BY <2>1, <3>1, <3>2 DEF DueDown
  <2> QED BY <2>1, <2>2, <2>3 DEF DueDown
<1>5. p - Len(down') = (p + 1) - Len(down)
  BY <1>1
<1>6. \A i : DuePosted(i)' => DuePosted(i)
  BY <1>3 DEF DuePosted, PostedReply
<1>7. DueLast' => DueLast
  BY <1>3 DEF DueLast, NothingPosted, PostedReply
<1>8. p = Len(down') + Len(posted') + 1 => p + 1 = Len(down) + Len(posted) + 1
  BY <1>1
<1> QED BY <1>4, <1>5, <1>6, <1>7, <1>8 DEF Due

\* Unless it was a reply or its subscribers are gone, nothing is forgotten.
LEMMA ReceivedAll ==
  ASSUME TypeOK, down # <<>>, down' = Tail(down), UNCHANGED <<link, peers, posted, publishing>>,
         NEW p \in Nat, NEW n \in Nat, p # 0,
         subs' # {} \/ (subs = {} /\ Head(down).kind # "reply")
  PROVE  Due(p + 1, n) => Due(p, n)'
<1>1. /\ 1 \in DOMAIN down /\ Head(down) = down[1]
      /\ Len(down') = Len(down) - 1 /\ Len(down) \in Nat /\ Len(posted) \in Nat
      /\ \A i \in DOMAIN down' : i \in Nat \ {0} /\ i + 1 \in DOMAIN down /\ down'[i] = down[i + 1]
      /\ \A i \in DOMAIN down : i # 1 => i - 1 \in DOMAIN down' /\ down'[i - 1] = down[i]
      /\ DOMAIN down = 1 .. Len(down)
  BY Received
<1>2. ASSUME subs' = {}, NEW j \in DOMAIN down, DownReply(j)
      PROVE  j - 1 \in DOMAIN down' /\ DownReply(j - 1)'
  BY <1>1, <1>2 DEF DownReply
<1>3. subs # {} \/ ~NothingDown => subs' # {} \/ ~NothingDown'
  BY <1>2 DEF NothingDown, DownReply
<1>4. DueDown(p + 1) => DueDown(p)' /\ down'[p] = down[p + 1]
  <2>1. SUFFICES ASSUME DueDown(p + 1) PROVE DueDown(p)' /\ down'[p] = down[p + 1]
    OBVIOUS
  <2>2. p + 1 \in DOMAIN down /\ p \in DOMAIN down' /\ down'[p] = down[p + 1]
    <3>1. p + 1 \in DOMAIN down /\ p + 1 # 1 /\ (p + 1) - 1 = p
      BY <2>1 DEF DueDown
    <3> QED BY <1>1, <3>1
  <2>3. subs' # {} \/ \E j \in DOMAIN down' : j < p /\ DownReply(j)'
    <3>1. ASSUME subs' = {}, NEW j \in DOMAIN down, j < p + 1, DownReply(j)
          PROVE  \E k \in DOMAIN down' : k < p /\ DownReply(k)'
      <4>1. j - 1 \in DOMAIN down' /\ DownReply(j - 1)'
        BY <1>2, <3>1
      <4>2. j - 1 < p
        BY <1>1, <3>1
      <4> QED BY <4>1, <4>2
    <3> QED BY <2>1, <3>1 DEF DueDown
  <2> QED BY <2>1, <2>2, <2>3 DEF DueDown
<1>5. p - Len(down') = (p + 1) - Len(down)
  BY <1>1
<1>6. \A i : DuePosted(i) => DuePosted(i)'
  BY <1>3 DEF DuePosted, PostedReply
<1>7. DueLast => DueLast'
  BY <1>3 DEF DueLast, NothingPosted, PostedReply
<1>8. p + 1 = Len(down) + Len(posted) + 1 => p = Len(down') + Len(posted') + 1
  BY <1>1
<1>9. p + 1 # 0
  OBVIOUS
<1>10. SUFFICES ASSUME Due(p + 1, n) PROVE Due(p, n)'
  OBVIOUS
<1>11. CASE DueDown(p + 1) /\ down[p + 1].n = n
  BY <1>4, <1>11 DEF Due
<1>12. CASE DuePosted((p + 1) - Len(down)) /\ posted[(p + 1) - Len(down)].msg.n = n
  BY <1>5, <1>6, <1>12 DEF Due
<1>13. CASE p + 1 = Len(down) + Len(posted) + 1 /\ DueLast /\ publishing.signal = n
  BY <1>7, <1>8, <1>13 DEF Due
<1> QED BY <1>9, <1>10, <1>11, <1>12, <1>13 DEF Due

\* Only what is received may have been first.
LEMMA FirstDue ==
  ASSUME TypeOK, down # <<>>, NEW n \in Nat, Due(1, n)
  PROVE  subs # {} /\ Head(down).kind = "signal" /\ Head(down).n = n
<1>1. down \in Seq(Message) /\ posted \in Seq([to : Peer, msg : Message])
  BY DEF TypeOK
<1>2. /\ Head(down) = down[1] /\ Len(down) \in Nat /\ Len(down) # 0 /\ Len(posted) \in Nat
      /\ DOMAIN down = 1 .. Len(down) /\ DOMAIN posted = 1 .. Len(posted)
  BY <1>1
<1>3. 1 - Len(down) \notin DOMAIN posted /\ 1 # Len(down) + Len(posted) + 1
  BY <1>2
<1>4. DueDown(1) /\ down[1].n = n
  BY <1>3 DEF Due, DuePosted
<1>5. ~\E j \in DOMAIN down : j < 1 /\ DownReply(j)
  BY <1>2
<1> QED BY <1>2, <1>4, <1>5 DEF DueDown

\* A signal that was seen is not on its way.
LEMMA SeenDue ==
  ASSUME TypeOK, down # <<>>, down' = Tail(down), UNCHANGED posted, NEW n \in Nat, Due(0, n)'
  PROVE  n # 0 /\ \E r \in subs' : lastSeen'[r] = n
<1>1. down' \in Seq(Message) /\ posted' \in Seq([to : Peer, msg : Message])
  BY TailFacts DEF TypeOK
<1>2. Len(down') \in Nat /\ Len(posted') \in Nat
      /\ DOMAIN down' = 1 .. Len(down') /\ DOMAIN posted' = 1 .. Len(posted')
  BY <1>1
<1>3. 0 \notin DOMAIN down' /\ 0 - Len(down') \notin DOMAIN posted'
      /\ 0 # Len(down') + Len(posted') + 1
  BY <1>2
<1> QED BY <1>3 DEF Due, DueDown, DuePosted

LEMMA AnswerSubs ==
  ASSUME TypeOK, NEW id, NEW ok \in BOOLEAN, NEW queue, Answer(id, ok, queue)
  PROVE  /\ ~ok => UNCHANGED <<subs, lastSeen>>
         /\ subs = {} => \A r \in subs' : lastSeen'[r] = 0
<1>1. CASE UNCHANGED <<subVars, lastSeen>>
  BY <1>1 DEF subVars
<1>2. CASE Resolve(ok, queue)
  <2>1. /\ ~ok => subs' = subs
        /\ subs' \subseteq Receiver
        /\ lastSeen' = [r \in Receiver |-> IF r \in subs' \ subs THEN 0 ELSE lastSeen[r]]
    BY <1>2 DEF Resolve, TypeOK
  <2>2. ~ok => lastSeen' = lastSeen
    <3>1. ~ok => lastSeen' = [r \in Receiver |-> lastSeen[r]]
      BY <2>1
    <3> QED BY <3>1 DEF TypeOK
  <2> QED BY <2>1, <2>2
<1> QED BY <1>1, <1>2 DEF Answer

LEMMA LoopGap ==
  ASSUME TypeOK, PeerInv, CallInv, WayInv, GapInv,
         TransmitAny \/ ReceiveAny \/ LoseLink \/ CloseLink \/ Connect
  PROVE  GapInv'
<1> USE DEF subVars, wireVars, linkVars, objVars, pubVars, sockVars, sigVars
<1>0. PublishingInv'
  <2>1. UNCHANGED <<publishing, published>>
    BY DEF TransmitAny, Transmit, TransmitLost, TransmitFails, ReceiveAny, ReceiveSignal,
           ReceiveReply, ReceiveRemoved, LoseLink, CloseLink, Connect
  <2> QED BY <2>1 DEF PublishingInv, GapInv
<1>1. CASE Transmit \/ TransmitLost
  <2>1. UNCHANGED <<subs, lastSeen, link, down, posted, publishing, published, peers, remoteSubs>>
    BY <1>1 DEF Transmit, TransmitLost
  <2> QED BY <2>1, DueFrame
<1>2. CASE TransmitFails \/ CloseLink
  <2>1. UNCHANGED <<link, down, posted, publishing, published, peers, remoteSubs>>
    BY <1>2 DEF TransmitFails, CloseLink
  <2>2. UNCHANGED <<subs, lastSeen>>
    BY <1>2, AnswerSubs DEF TransmitFails, CloseLink
  <2> QED BY <2>1, <2>2, DueFrame
<1>3. CASE ReceiveSignal
  <2>1. /\ link # NoPeer /\ down # <<>> /\ Head(down).kind = "signal" /\ down' = Tail(down)
        /\ lastSeen' = [r \in Receiver |-> IF r \in subs THEN Head(down).n ELSE lastSeen[r]]
        /\ UNCHANGED <<subs, link, peers, posted, publishing, published, remoteSubs>>
    BY <1>3 DEF ReceiveSignal
  <2>2. \A r \in subs : lastSeen'[r] = Head(down).n
    BY <2>1 DEF TypeOK
  <2>3. \A p, n \in Nat : p # 0 => (Due(p, n)' <=> Due(p + 1, n))
    BY <2>1, ReceivedDue, ReceivedAll
  <2>4. ASSUME NEW n \in Nat, Due(0, n)' PROVE Due(1, n)
    <3>2. \E r \in subs : lastSeen'[r] = n
      BY <2>1, <2>4, SeenDue
    <3>3. subs # {} /\ n = Head(down).n
      BY <2>2, <3>2
    <3>4. 1 \in DOMAIN down /\ Head(down) = down[1]
      BY <2>1, Received
    <3> QED BY <2>1, <3>3, <3>4 DEF Due, DueDown
  <2>5. ASSUME NEW n \in Nat, Due(1, n) PROVE Due(0, n)'
    <3>1. subs # {} /\ n = Head(down).n
      BY <2>1, <2>5, FirstDue
    <3>2. n # 0
      <4>1. n \in 1 .. published BY <2>5 DEF GapInv
      <4> QED BY <4>1
    <3> QED BY <2>1, <2>2, <3>1, <3>2 DEF Due
  <2>6. \A p, n \in Nat : Due(p, n)' => Due(p + 1, n)
    <3>1. SUFFICES ASSUME NEW p \in Nat, NEW n \in Nat, Due(p, n)' PROVE Due(p + 1, n)
      OBVIOUS
    <3>2. CASE p = 0
      <4>1. Due(0, n)' BY <3>1, <3>2
      <4>2. Due(1, n) BY <2>4, <3>1, <4>1
      <4> QED BY <3>2, <4>2
    <3> QED BY <2>3, <3>1, <3>2
  <2>7. \A p, n \in Nat : Due(p + 1, n) => \E l \in Nat : Due(l, n)'
    <3>1. SUFFICES ASSUME NEW p \in Nat, NEW n \in Nat, Due(p + 1, n)
                   PROVE  \E l \in Nat : Due(l, n)'
      OBVIOUS
    <3>2. CASE p = 0
      <4>1. Due(1, n) BY <3>1, <3>2
      <4>2. Due(0, n)' BY <2>5, <3>1, <4>1
      <4> QED BY <4>2
    <3> QED BY <2>3, <3>1, <3>2
  <2> QED BY <1>0, <2>1, <2>6, <2>7, DueNext
<1>4. CASE ReceiveRemoved
  <2>1. /\ link # NoPeer /\ down # <<>> /\ Head(down).kind = "removed" /\ down' = Tail(down)
        /\ subs' = {}
        /\ UNCHANGED <<lastSeen, link, peers, posted, publishing, published, remoteSubs>>
    BY <1>4 DEF ReceiveRemoved
  <2>2. CASE subs # {}
    <3>1. NothingDown' /\ NothingPosted'
      <4>1. NothingDown /\ NothingPosted BY <2>2, Unasked
      <4>2. DownKept(1) BY <2>1, TailKept
      <4>3. NothingDown' BY <4>1, <4>2 DEF NothingDown, DownKept, DownReply
      <4> QED BY <2>1, <4>1, <4>3 DEF NothingPosted, PostedReply
    <3> QED BY <1>0, <2>1, <3>1, NotLiveNext
  <2>3. CASE subs = {}
    <3>1. \A p, n \in Nat : p # 0 => (Due(p, n)' <=> Due(p + 1, n))
      BY <2>1, <2>3, ReceivedDue, ReceivedAll
    <3>2. \A n \in Nat : ~Due(1, n)
      BY <2>1, FirstDue
    <3>3. \A n \in Nat : ~Due(0, n)'
      BY <2>1, SeenDue
    <3>4. \A p, n \in Nat : Due(p, n)' => Due(p + 1, n)
      BY <3>1, <3>3
    <3>5. \A p, n \in Nat : Due(p + 1, n) => \E l \in Nat : Due(l, n)'
      BY <3>1, <3>2
    <3> QED BY <1>0, <2>1, <3>4, <3>5, DueNext
  <2> QED BY <2>2, <2>3
<1>5. CASE ReceiveReply
  <2>1. /\ link # NoPeer /\ down # <<>> /\ Head(down).kind = "reply" /\ down' = Tail(down)
        /\ Answer(Head(down).n, Head(down).ok, toSend)
        /\ UNCHANGED <<link, peers, posted, publishing, published, remoteSubs>>
    BY <1>5 DEF ReceiveReply
  <2>2. DownReply(1)
    BY <2>1, Received DEF DownReply
  <2>3. subs = {} /\ NothingPosted
    <3>1. unanswered # {} /\ ~NothingDown
      BY <2>2 DEF WayInv, DownReply, NothingDown
    <3>2. subs = {}
      BY <3>1 DEF CallInv
    <3>3. NothingPosted
      BY <2>1, <3>1 DEF WayInv, NothingPosted, PostedReply
    <3> QED BY <3>2, <3>3
  <2>4. NothingDown' /\ NothingPosted'
    <3>1. \A i \in DOMAIN down : DownReply(i) => i = 1
      BY <2>2 DEF WayInv, DownReply
    <3>2. ASSUME NEW i \in DOMAIN down', DownReply(i)' PROVE FALSE
      <4>1. i \in Nat \ {0} /\ i + 1 \in DOMAIN down /\ down'[i] = down[i + 1]
        BY <2>1, Received
      <4>2. DownReply(i + 1)
        BY <3>2, <4>1 DEF DownReply
      <4>3. i + 1 # 1
        BY <4>1
      <4> QED BY <3>1, <4>1, <4>2, <4>3
    <3> QED BY <2>1, <2>3, <3>2 DEF NothingDown, NothingPosted, PostedReply
  <2>5. CASE subs' = {}
    BY <1>0, <2>4, <2>5, NotLiveNext
  <2>6. CASE subs' # {}
    <3>1. \A p, n \in Nat : p # 0 => (Due(p, n)' <=> Due(p + 1, n))
      BY <2>1, <2>6, ReceivedDue, ReceivedAll
    <3>2. \A n \in Nat : ~Due(1, n)
      BY <2>1, FirstDue
    <3>3. \A n \in Nat : ~Due(0, n)'
      <4>1. Head(down).ok \in BOOLEAN
        <5>1. Head(down) \in Message /\ Head(down).kind = "reply"
          BY <2>1, TailFacts DEF TypeOK
        <5>2. Head(down) \in [kind : {"signal", "reply"}, n : Nat, ok : BOOLEAN]
          BY <5>1 DEF Message, Removed
        <5> QED BY <5>2
      <4>2. \A r \in subs' : lastSeen'[r] = 0
        BY <2>1, <2>3, <4>1, AnswerSubs
      <4> QED BY <2>1, <4>2, SeenDue
    <3>4. \A p, n \in Nat : Due(p, n)' => Due(p + 1, n)
      BY <3>1, <3>3
    <3>5. \A p, n \in Nat : Due(p + 1, n) => \E l \in Nat : Due(l, n)'
      BY <3>1, <3>2
    <3> QED BY <1>0, <2>1, <3>4, <3>5, DueNext
  <2> QED BY <2>5, <2>6
<1>6. CASE LoseLink
  <2>1. subs' = {} /\ DOMAIN down' = {} /\ link' \notin peers'
    BY <1>6 DEF LoseLink, TypeOK, Peer, NoPeer
  <2> QED BY <1>0, <2>1, NotLiveNext DEF NothingDown
<1>7. CASE Connect
  <2>1. subs' = {} /\ NothingDown'
    BY <1>7 DEF Connect, PeerInv, NothingDown, DownReply
  <2>2. NothingPosted'
    <3>1. link' = lastPeer + 1 /\ posted' = posted /\ lastPeer \in Nat
      BY <1>7, BoundAssumption DEF Connect, TypeOK
    <3>2. \A i \in DOMAIN posted : posted[i].to # link'
      BY <3>1 DEF PeerInv
    <3> QED BY <3>1, <3>2 DEF NothingPosted, PostedReply
  <2> QED BY <1>0, <2>1, <2>2, NotLiveNext
<1> QED BY <1>1, <1>2, <1>3, <1>4, <1>5, <1>6, <1>7 DEF TransmitAny, ReceiveAny

\* A message that subscribes nobody is posted.
LEMMA PostDue ==
  ASSUME TypeOK, GapInv, NEW e, NEW m, Post(e, m),
         UNCHANGED <<subs, lastSeen, link, down, published, peers, remoteSubs>>,
         e # link \/ m.kind \notin {"signal", "reply"},
         publishing'.signal = publishing.signal,
         link \in publishing'.to <=> link \in publishing.to,
         PublishingInv'
  PROVE  GapInv'
<1>1. /\ DOMAIN posted' = 1 .. Len(posted) + 1
      /\ DOMAIN posted = 1 .. Len(posted) /\ Len(posted) \in Nat
      /\ \A i \in DOMAIN posted : posted'[i] = posted[i]
      /\ posted'[Len(posted) + 1] = [to |-> e, msg |-> m]
  BY PostFacts
<1>2. Len(posted') = Len(posted) + 1 /\ Len(down) \in Nat /\ DOMAIN down = 1 .. Len(down)
  <2>1. posted \in Seq([to : Peer, msg : Message]) /\ down \in Seq(Message)
    BY DEF TypeOK
  <2> QED BY <2>1 DEF Post
<1>3. \A i \in DOMAIN posted' : i \in DOMAIN posted \/ i = Len(posted) + 1
  BY <1>1
<1>4. \A i : PostedReply(i)' <=> PostedReply(i)
  BY <1>1, <1>3 DEF PostedReply
<1>5. NothingPosted' <=> NothingPosted
  BY <1>1, <1>4 DEF NothingPosted, PostedReply
<1>6. NothingDown' <=> NothingDown
  BY DEF NothingDown, DownReply
<1>7. \A i : DuePosted(i)' <=> DuePosted(i)
  BY <1>1, <1>3, <1>4, <1>6 DEF DuePosted, PostedReply
<1>8. DueLast' <=> DueLast
  BY <1>5, <1>6 DEF DueLast
<1>9. \A i : DueDown(i)' <=> DueDown(i)
  BY DEF DueDown, DownReply
<1>10. PICK k \in Nat : k = Len(down) + Len(posted)
  BY <1>1, <1>2
<1>11. PICK f \in [Nat -> Nat] : f = [p \in Nat |-> IF p <= k THEN p ELSE p - 1]
  <2>1. \A p \in Nat : (IF p <= k THEN p ELSE p - 1) \in Nat
    OBVIOUS
  <2>2. [p \in Nat |-> IF p <= k THEN p ELSE p - 1] \in [Nat -> Nat]
    BY <2>1, Zenon
  <2> QED BY <2>2, Zenon
<1>12. \A p \in Nat : f[p] = IF p <= k THEN p ELSE p - 1
  BY <1>11
\* Where things are.
<1>13. ASSUME NEW p \in Nat
       PROVE  /\ p = 0 \/ DueDown(p) \/ DuePosted(p - Len(down)) => p <= k
              /\ DuePosted(p - Len(down)) => p > Len(down)
  <2>1. p = 0 => p <= k
    BY <1>10
  <2>2. DueDown(p) => p <= k
    BY <1>1, <1>2, <1>10 DEF DueDown
  <2>3. DuePosted(p - Len(down)) => p <= k /\ p > Len(down)
    BY <1>1, <1>2, <1>10 DEF DuePosted
  <2> QED BY <2>1, <2>2, <2>3
<1>14. ASSUME NEW p \in Nat, NEW n \in Nat, Due(p, n)'
       PROVE  (p <= k /\ Due(p, n)) \/ (p = k + 2 /\ Due(k + 1, n))
  <2>1. CASE p = 0 /\ n # 0 /\ \E r \in subs' : lastSeen'[r] = n
    BY <1>13, <2>1 DEF Due
  <2>2. CASE DueDown(p)' /\ down'[p].n = n
    BY <1>9, <1>13, <2>2 DEF Due
  <2>3. CASE (DuePosted(p - Len(down)) /\ posted[p - Len(down)].msg.n = n)'
    <3>1. PICK i : i = p - Len(down)
      OBVIOUS
    <3>2. DuePosted(i) /\ posted'[i].msg.n = n
      BY <1>7, <2>3, <3>1
    <3>3. posted'[i] = posted[i]
      BY <1>1, <3>2 DEF DuePosted
    <3> QED BY <1>13, <3>1, <3>2, <3>3 DEF Due
  <2>4. CASE p = Len(down') + Len(posted') + 1 /\ DueLast' /\ publishing'.signal = n
    BY <1>1, <1>2, <1>8, <1>10, <2>4 DEF Due
  <2> QED BY <1>14, <2>1, <2>2, <2>3, <2>4 DEF Due
<1>15. ASSUME NEW p \in Nat, NEW n \in Nat, Due(p, n)
       PROVE  \E l \in Nat : Due(l, n)'
  <2>1. CASE p = 0 /\ n # 0 /\ \E r \in subs : lastSeen[r] = n
    BY <2>1 DEF Due
  <2>2. CASE DueDown(p) /\ down[p].n = n
    BY <1>9, <2>2 DEF Due
  <2>3. CASE DuePosted(p - Len(down)) /\ posted[p - Len(down)].msg.n = n
    <3>1. PICK i : i = p - Len(down)
      OBVIOUS
    <3>2. DuePosted(i)' /\ posted[i].msg.n = n
      BY <1>7, <2>3, <3>1
    <3>3. posted'[i] = posted[i]
      BY <1>1, <2>3, <3>1 DEF DuePosted
    <3> QED BY <3>1, <3>2, <3>3 DEF Due
  <2>4. CASE p = Len(down) + Len(posted) + 1 /\ DueLast /\ publishing.signal = n
    <3>1. k + 2 = Len(down') + Len(posted') + 1 /\ k + 2 \in Nat
      BY <1>1, <1>2, <1>10
    <3>2. Due(k + 2, n)'
      BY <1>8, <2>4, <3>1 DEF Due
    <3> QED BY <3>1, <3>2
  <2> QED BY <1>15, <2>1, <2>2, <2>3, <2>4 DEF Due
<1>16. MoveUp(f)
  <2>1. ASSUME NEW p \in Nat, NEW n \in Nat, Due(p, n)' PROVE Due(f[p], n)
    <3>1. CASE p <= k /\ Due(p, n)
      BY <1>12, <2>1, <3>1
    <3>2. CASE p = k + 2 /\ Due(k + 1, n)
      <4>1. f[p] = k + 1
        BY <1>12, <3>2
      <4> QED BY <3>2, <4>1
    <3> QED BY <1>14, <2>1, <3>1, <3>2
  <2>2. ASSUME NEW p \in Nat, NEW q \in Nat, p <= k \/ p = k + 2, q <= k \/ q = k + 2
        PROVE  p < q <=> f[p] < f[q]
    BY <1>12, <2>2
  <2> QED BY <1>14, <2>1, <2>2 DEF MoveUp
<1>17. published \in Nat
  BY BoundAssumption DEF TypeOK
<1> QED BY <1>11, <1>15, <1>16, <1>17, GapKept DEF FewLost, PublishingInv

\* The first posted message goes over to the connection.
LEMMA DeliverDue ==
  ASSUME TypeOK, DeliverPosted, Head(posted).to = link, link \in peers, NEW p \in Nat, NEW n \in Nat
  PROVE  Due(p, n)' <=> Due(p, n)
<1>1. /\ UNCHANGED <<link, peers, subs>>
      /\ 1 \in DOMAIN posted /\ posted[1].to = link
      /\ DOMAIN posted = 1 .. Len(posted) /\ Len(posted) \in Nat
      /\ DOMAIN posted' = 1 .. Len(posted) - 1
      /\ \A i \in DOMAIN posted' : i + 1 \in DOMAIN posted /\ posted'[i] = posted[i + 1]
      /\ \A i \in DOMAIN posted : i # 1 => i - 1 \in DOMAIN posted' /\ posted'[i - 1] = posted[i]
      /\ DOMAIN down' = 1 .. Len(down) + 1
      /\ DOMAIN down = 1 .. Len(down) /\ Len(down) \in Nat
      /\ \A i \in DOMAIN down : down'[i] = down[i]
      /\ down'[Len(down) + 1] = posted[1].msg
  BY DeliverFacts
<1>2. UNCHANGED <<publishing, lastSeen>>
  BY DEF DeliverPosted, sigVars
<1>3. Len(down') = Len(down) + 1 /\ Len(posted') = Len(posted) - 1
  <2>1. /\ posted \in Seq([to : Peer, msg : Message]) /\ posted # <<>> /\ posted' = Tail(posted)
        /\ down \in Seq(Message) /\ down' = Append(down, Head(posted).msg)
    BY DEF DeliverPosted, TypeOK
  <2> QED BY <2>1
<1>4. PICK d \in Nat : d = Len(down)
  BY <1>1
<1>5. \A i \in DOMAIN down : i \in 1 .. d /\ (DownReply(i)' <=> DownReply(i))
  BY <1>1, <1>4 DEF DownReply
<1>6. DownReply(d + 1)' <=> PostedReply(1)
  BY <1>1, <1>4 DEF DownReply, PostedReply
<1>7. \A i \in DOMAIN posted' : i \in Nat \ {0} /\ (PostedReply(i)' <=> PostedReply(i + 1))
  BY <1>1 DEF PostedReply
<1>8. ~NothingDown' <=> ~NothingDown \/ PostedReply(1)
  <2>1. \A i \in DOMAIN down' : i \in DOMAIN down \/ i = d + 1
    BY <1>1, <1>4
  <2>2. d + 1 \in DOMAIN down' /\ \A i \in DOMAIN down : i \in DOMAIN down'
    BY <1>1, <1>4
  <2> QED BY <1>5, <1>6, <2>1, <2>2 DEF NothingDown
<1>9. ~NothingDown' \/ ~NothingPosted' <=> ~NothingDown \/ ~NothingPosted
  <2>1. ~NothingPosted' => ~NothingPosted
    BY <1>1, <1>7 DEF NothingPosted
  <2>2. ~NothingPosted => ~NothingPosted' \/ PostedReply(1)
    <3>1. ASSUME NEW i \in DOMAIN posted, PostedReply(i), i # 1 PROVE PostedReply(i - 1)'
      BY <1>1, <3>1 DEF PostedReply
    <3> QED BY <1>1, <3>1 DEF NothingPosted
  <2>3. PostedReply(1) => ~NothingPosted
    BY <1>1 DEF NothingPosted
  <2> QED BY <1>8, <2>1, <2>2, <2>3
<1>10. DueLast' <=> DueLast
  BY <1>1, <1>2, <1>9 DEF DueLast
<1>11. Len(down') + Len(posted') + 1 = Len(down) + Len(posted) + 1
  BY <1>1, <1>3
<1>12. \A i \in DOMAIN down : DueDown(i)' <=> DueDown(i)
  <2>1. SUFFICES ASSUME NEW i \in DOMAIN down PROVE DueDown(i)' <=> DueDown(i)
    OBVIOUS
  <2>2. i \in DOMAIN down' /\ down'[i] = down[i]
    BY <1>1
  <2>3. (\E j \in DOMAIN down' : j < i /\ DownReply(j)') <=> \E j \in DOMAIN down : j < i /\ DownReply(j)
    <3>1. \A j \in DOMAIN down' : j < i => j \in DOMAIN down
      BY <1>1
    <3>2. \A j \in DOMAIN down : j \in DOMAIN down'
      BY <1>1
    <3> QED BY <1>5, <3>1, <3>2
  <2> QED BY <1>1, <2>2, <2>3 DEF DueDown
<1>13. DueDown(d + 1)' <=> DuePosted(1)
  <2>1. d + 1 \in DOMAIN down' /\ down'[d + 1] = posted[1].msg
    BY <1>1, <1>4
  <2>2. (\E j \in DOMAIN down' : j < d + 1 /\ DownReply(j)') <=> ~NothingDown
    <3>1. \A j \in DOMAIN down' : j < d + 1 => j \in DOMAIN down
      BY <1>1, <1>4
    <3>2. \A j \in DOMAIN down : j \in DOMAIN down' /\ j < d + 1
      BY <1>1, <1>4
    <3> QED BY <1>5, <3>1, <3>2 DEF NothingDown
  <2>3. ~\E j \in DOMAIN posted : j < 1 /\ PostedReply(j)
    BY <1>1
  <2> QED BY <1>1, <2>1, <2>2, <2>3 DEF DueDown, DuePosted
<1>14. \A i \in DOMAIN posted : i # 1 => (DuePosted(i - 1)' <=> DuePosted(i))
  <2>1. SUFFICES ASSUME NEW i \in DOMAIN posted, i # 1 PROVE DuePosted(i - 1)' <=> DuePosted(i)
    OBVIOUS
  <2>2. i \in Nat /\ i - 1 \in DOMAIN posted' /\ posted'[i - 1] = posted[i]
    BY <1>1, <2>1
  <2>3. (\E j \in DOMAIN posted' : j < i - 1 /\ PostedReply(j)') \/ PostedReply(1)
          <=> \E j \in DOMAIN posted : j < i /\ PostedReply(j)
    <3>1. ASSUME NEW j \in DOMAIN posted', j < i - 1, PostedReply(j)'
          PROVE  j + 1 \in DOMAIN posted /\ j + 1 < i /\ PostedReply(j + 1)
      BY <1>1, <1>7, <2>2, <3>1
    <3>2. ASSUME NEW j \in DOMAIN posted, j < i, PostedReply(j), j # 1
          PROVE  j - 1 \in DOMAIN posted' /\ j - 1 < i - 1 /\ PostedReply(j - 1)'
      BY <1>1, <2>2, <3>2 DEF PostedReply
    <3>3. 1 < i
      BY <1>1, <2>1
    <3> QED BY <1>1, <3>1, <3>2, <3>3
  <2> QED BY <1>1, <1>8, <2>2, <2>3 DEF DuePosted
<1>15. CASE p = 0
  BY <1>1, <1>2, <1>3, <1>15 DEF Due, DueDown, DuePosted
<1>16. CASE p \in 1 .. d
  BY <1>1, <1>4, <1>12, <1>16 DEF Due, DuePosted
<1>17. CASE p = d + 1
  BY <1>1, <1>4, <1>13, <1>17 DEF Due, DueDown, DuePosted
<1>18. CASE p > d + 1
  <2>1. PICK i \in Int : i = p - d
    BY <1>4
  <2>2. (p - Len(down))' = i - 1 /\ p - Len(down) = i
    BY <1>3, <1>4, <2>1
  <2>3. p \notin DOMAIN down /\ p \notin DOMAIN down'
    BY <1>1, <1>4, <1>18
  <2>4. i \in DOMAIN posted \/ i - 1 \in DOMAIN posted' => i \in DOMAIN posted /\ i # 1
    BY <1>1, <1>4, <1>18, <2>1
  <2>5. DuePosted(i - 1)' <=> DuePosted(i)
    BY <1>14, <2>4 DEF DuePosted
  <2>6. DuePosted(i) => posted'[i - 1] = posted[i]
    BY <1>1, <2>4 DEF DuePosted
  <2>7. (DuePosted(p - Len(down)) /\ posted[p - Len(down)].msg.n = n)'
          <=> DuePosted(p - Len(down)) /\ posted[p - Len(down)].msg.n = n
    BY <2>2, <2>5, <2>6
  <2>8. (p = Len(down) + Len(posted) + 1 /\ DueLast /\ publishing.signal = n)'
          <=> p = Len(down) + Len(posted) + 1 /\ DueLast /\ publishing.signal = n
    BY <1>2, <1>10, <1>11
  <2>9. p # 0
    BY <1>4, <1>18
  <2> QED BY <2>3, <2>7, <2>8, <2>9 DEF Due, DueDown
<1> QED BY <1>4, <1>15, <1>16, <1>17, <1>18

\* The first posted message goes to another connection.
LEMMA DeliverOtherDue ==
  ASSUME TypeOK, GapInv, DeliverPosted, Head(posted).to # link
  PROVE  GapInv'
<1>1. /\ posted \in Seq([to : Peer, msg : Message]) /\ posted # <<>> /\ posted' = Tail(posted)
      /\ down \in Seq(Message)
      /\ UNCHANGED <<link, down, peers, subs, publishing, published, lastSeen, remoteSubs>>
  BY DEF DeliverPosted, TypeOK, linkVars, subVars, sigVars, pubVars
<1>2. /\ 1 \in DOMAIN posted /\ posted[1].to # link
      /\ DOMAIN posted = 1 .. Len(posted) /\ Len(posted) \in Nat
      /\ DOMAIN posted' = 1 .. Len(posted) - 1
      /\ \A i \in DOMAIN posted' : i + 1 \in DOMAIN posted /\ posted'[i] = posted[i + 1]
      /\ \A i \in DOMAIN posted : i # 1 => i - 1 \in DOMAIN posted' /\ posted'[i - 1] = posted[i]
  BY <1>1, TailFacts
<1>3. Len(posted') = Len(posted) - 1 /\ Len(down) \in Nat /\ DOMAIN down = 1 .. Len(down)
  BY <1>1
<1>4. PICK d \in Nat : d = Len(down)
  BY <1>3
<1>5. \A i \in DOMAIN posted' : i \in Nat \ {0} /\ (PostedReply(i)' <=> PostedReply(i + 1))
  BY <1>1, <1>2 DEF PostedReply
<1>6. \A i \in DOMAIN posted : PostedReply(i) => i # 1 /\ PostedReply(i - 1)'
  BY <1>1, <1>2 DEF PostedReply
<1>7. NothingPosted' <=> NothingPosted
  BY <1>2, <1>5, <1>6 DEF NothingPosted
<1>8. NothingDown' <=> NothingDown
  BY <1>1 DEF NothingDown, DownReply
<1>9. DueLast' <=> DueLast
  BY <1>1, <1>7, <1>8 DEF DueLast
<1>10. \A i : DueDown(i)' <=> DueDown(i)
  BY <1>1 DEF DueDown, DownReply
<1>11. \A i \in DOMAIN posted : i # 1 => (DuePosted(i - 1)' <=> DuePosted(i))
  <2>1. SUFFICES ASSUME NEW i \in DOMAIN posted, i # 1 PROVE DuePosted(i - 1)' <=> DuePosted(i)
    OBVIOUS
  <2>2. i \in Nat /\ i - 1 \in DOMAIN posted' /\ posted'[i - 1] = posted[i]
    BY <1>2, <2>1
  <2>3. (\E j \in DOMAIN posted' : j < i - 1 /\ PostedReply(j)')
          <=> \E j \in DOMAIN posted : j < i /\ PostedReply(j)
    <3>1. ASSUME NEW j \in DOMAIN posted', j < i - 1, PostedReply(j)'
          PROVE  j + 1 \in DOMAIN posted /\ j + 1 < i /\ PostedReply(j + 1)
      BY <1>2, <1>5, <2>2, <3>1
    <3>2. ASSUME NEW j \in DOMAIN posted, j < i, PostedReply(j)
          PROVE  j - 1 \in DOMAIN posted' /\ j - 1 < i - 1 /\ PostedReply(j - 1)'
      BY <1>2, <1>6, <2>2, <3>2
    <3> QED BY <3>1, <3>2
  <2> QED BY <1>1, <1>8, <2>2, <2>3 DEF DuePosted
<1>12. ~DuePosted(1)
  BY <1>2 DEF DuePosted
<1>13. PICK f \in [Nat -> Nat] : f = [p \in Nat |-> IF p <= d THEN p ELSE p + 1]
  <2>1. \A p \in Nat : (IF p <= d THEN p ELSE p + 1) \in Nat
    OBVIOUS
  <2>2. [p \in Nat |-> IF p <= d THEN p ELSE p + 1] \in [Nat -> Nat]
    BY <2>1, Zenon
  <2> QED BY <2>2, Zenon
<1>14. \A p \in Nat : f[p] = IF p <= d THEN p ELSE p + 1
  BY <1>13
<1>15. ASSUME NEW p \in Nat, NEW n \in Nat, p <= d PROVE Due(p, n)' <=> Due(p, n)
  <2>1. p - d \notin DOMAIN posted /\ p - d \notin DOMAIN posted'
    <3>1. p - d \notin Nat \ {0}
      BY <1>15
    <3>2. posted' \in Seq([to : Peer, msg : Message])
      BY <1>1, TailFacts
    <3>3. (\A i \in DOMAIN posted : i \in Nat \ {0}) /\ \A i \in DOMAIN posted' : i \in Nat \ {0}
      BY <1>1, <3>2, IndexFacts
    <3> QED BY <3>1, <3>3
  <2>2. p # Len(down) + Len(posted) + 1 /\ p # Len(down) + Len(posted') + 1
    <3>1. Len(posted) \in Nat /\ Len(posted') \in Nat
      <4>1. Len(posted) \in Nat /\ 1 \in 1 .. Len(posted) /\ Len(posted') = Len(posted) - 1
        BY <1>2, <1>3
      <4> QED BY <4>1
    <3>2. PICK a \in Nat, b \in Nat : a = Len(posted) /\ b = Len(posted')
      BY <3>1
    <3>3. p \in Nat /\ d \in Nat /\ a \in Nat /\ b \in Nat /\ p <= d
      BY <1>4, <1>15, <3>2
    <3>4. p # d + a + 1 /\ p # d + b + 1
      BY <3>3
    <3> QED BY <1>4, <3>2, <3>4
  <2> QED BY <1>1, <1>4, <1>10, <2>1, <2>2 DEF Due, DuePosted
<1>16. ASSUME NEW p \in Nat, NEW n \in Nat, p > d PROVE Due(p, n)' <=> Due(p + 1, n)
  <2>1. PICK i \in Int : i = p - d
    BY <1>16
  <2>2. (p - Len(down))' = i /\ (p + 1) - Len(down) = i + 1
    BY <1>1, <1>4, <2>1
  <2>3. p \notin DOMAIN down' /\ p + 1 \notin DOMAIN down /\ p # 0 /\ p + 1 # 0
    <3>1. DOMAIN down = 1 .. d /\ DOMAIN down' = 1 .. d
      BY <1>1, <1>3, <1>4
    <3>2. p \in Nat /\ d \in Nat /\ p > d
      BY <1>4, <1>16
    <3> QED BY <3>1, <3>2
  <2>4. i \in DOMAIN posted' \/ i + 1 \in DOMAIN posted => i + 1 \in DOMAIN posted /\ i + 1 # 1
    <3>1. i \in Nat \ {0} /\ i + 1 # 1
      <4>1. p \in Nat /\ d \in Nat /\ p > d /\ i = p - d
        BY <1>4, <1>16, <2>1
      <4> QED BY <4>1
    <3>2. i \in 1 .. Len(posted) - 1 => i + 1 \in 1 .. Len(posted)
      <4>1. Len(posted) \in Nat
        BY <1>2
      <4> QED BY <3>1, <4>1
    <3>3. /\ DOMAIN posted = 1 .. Len(posted) /\ DOMAIN posted' = 1 .. Len(posted) - 1
          /\ Len(posted) \in Nat
      BY <1>2
    <3>4. i + 1 \in 1 .. Len(posted) \/ i \in 1 .. Len(posted) - 1 => i + 1 \in 1 .. Len(posted)
      BY <3>2
    <3> QED BY <3>1, <3>3, <3>4
  <2>5. DuePosted(i)' <=> DuePosted(i + 1)
    <3>1. PICK k : k = i + 1
      OBVIOUS
    <3>2. i = k - 1
      BY <3>1
    <3> QED BY <1>11, <2>4, <3>1, <3>2 DEF DuePosted
  <2>6. DuePosted(i)' => posted'[i] = posted[i + 1]
    BY <1>2 DEF DuePosted
  <2>7. (DuePosted(p - Len(down)) /\ posted[p - Len(down)].msg.n = n)'
          <=> DuePosted((p + 1) - Len(down)) /\ posted[(p + 1) - Len(down)].msg.n = n
    BY <2>2, <2>5, <2>6
  <2>8. (p = Len(down) + Len(posted) + 1 /\ DueLast /\ publishing.signal = n)'
          <=> p + 1 = Len(down) + Len(posted) + 1 /\ DueLast /\ publishing.signal = n
    <3>1. Len(posted) \in Nat /\ Len(posted') = Len(posted) - 1 /\ Len(down) \in Nat
      BY <1>2, <1>3
    <3>2. p = Len(down) + Len(posted') + 1 <=> p + 1 = Len(down) + Len(posted) + 1
      <4>1. PICK a \in Nat : a = Len(posted)
        BY <3>1
      <4>2. p = d + (a - 1) + 1 <=> p + 1 = d + a + 1
        <5>1. p \in Nat /\ d \in Nat /\ a \in Nat
          BY <1>4, <1>16, <4>1
        <5> QED BY <5>1
      <4> QED BY <1>4, <3>1, <4>1, <4>2
    <3> QED BY <1>1, <1>9, <3>2
  <2> QED BY <2>3, <2>7, <2>8 DEF Due, DueDown
<1>17. \A n \in Nat : ~Due(d + 1, n)
  <2>1. d + 1 \notin DOMAIN down /\ (d + 1) - Len(down) = 1 /\ d + 1 # 0
    <3>1. d \in Nat /\ Len(down) = d /\ DOMAIN down = 1 .. d
      BY <1>3, <1>4
    <3> QED BY <3>1
  <2>2. d + 1 # Len(down) + Len(posted) + 1
    <3>1. d \in Nat /\ Len(down) = d /\ Len(posted) \in Nat /\ 1 \in 1 .. Len(posted)
      BY <1>2, <1>4
    <3> QED BY <3>1
  <2> QED BY <1>12, <2>1, <2>2 DEF Due, DueDown
<1>18. MoveUp(f)
  <2>1. ASSUME NEW p \in Nat, NEW n \in Nat, Due(p, n)' PROVE Due(f[p], n)
    BY <1>14, <1>15, <1>16, <2>1
  <2>2. \A p, q \in Nat : p < q <=> f[p] < f[q]
    BY <1>14
  <2> QED BY <2>1, <2>2 DEF MoveUp
<1>19. ASSUME NEW p \in Nat, NEW n \in Nat, Due(p, n) PROVE \E l \in Nat : Due(l, n)'
  <2>1. CASE p <= d
    BY <1>15, <1>19, <2>1
  <2>2. CASE p > d
    <3>1. p # d + 1
      BY <1>17, <1>19
    <3>2. p - 1 \in Nat /\ p - 1 > d /\ (p - 1) + 1 = p
      BY <2>2, <3>1
    <3>3. Due(p - 1, n)'
      BY <1>16, <1>19, <3>2
    <3> QED BY <3>2, <3>3
  <2> QED BY <2>1, <2>2
<1>20. PublishingInv'
  BY <1>1 DEF PublishingInv, GapInv
<1>21. published \in Nat
  BY BoundAssumption DEF TypeOK
<1> QED BY <1>1, <1>13, <1>18, <1>19, <1>20, <1>21, GapKept DEF FewLost, PublishingInv

\* A signal is put on its way.
LEMMA PublishGap ==
  ASSUME TypeOK, PeerInv, GapInv, Publish
  PROVE  GapInv'
<1>1. /\ UNCHANGED <<subs, lastSeen, link, down, posted, peers, remoteSubs>>
      /\ publishing.to = {} /\ published' = published + 1
      /\ publishing'.signal = published + 1 /\ publishing'.to = remoteSubs
  BY DEF Publish, subVars, wireVars, linkVars, pubVars, sockVars
<1>2. published \in Nat
  BY BoundAssumption DEF TypeOK
<1>3. PICK last \in Nat : last = Len(down) + Len(posted) + 1
  <2>1. down \in Seq(Message) /\ posted \in Seq([to : Peer, msg : Message])
    BY DEF TypeOK
  <2>2. Len(down) \in Nat /\ Len(posted) \in Nat
    BY <2>1
  <2> QED BY <2>2
<1>4. ~DueLast
  BY <1>1 DEF DueLast
<1>5. ASSUME NEW p \in Nat, NEW n \in Nat
      PROVE  Due(p, n)' <=> Due(p, n) \/ (p = last /\ DueLast' /\ n = published + 1)
  <2>1. DueDown(p)' <=> DueDown(p)
    BY <1>1 DEF DueDown, DownReply
  <2>2. \A i : DuePosted(i)' <=> DuePosted(i)
    BY <1>1 DEF DuePosted, PostedReply, NothingDown, DownReply
  <2> QED BY <1>1, <1>3, <1>4, <2>1, <2>2 DEF Due
<1>6. ASSUME NEW p \in Nat, NEW n \in Nat, Due(p, n) PROVE p < last /\ n <= published
  <2>1. n <= published
    <3>1. n \in 1 .. published BY <1>6 DEF GapInv
    <3> QED BY <1>2, <3>1
  <2>2. /\ down \in Seq(Message) /\ posted \in Seq([to : Peer, msg : Message])
    BY DEF TypeOK
  <2>3. /\ Len(down) \in Nat /\ Len(posted) \in Nat
        /\ DOMAIN down = 1 .. Len(down) /\ DOMAIN posted = 1 .. Len(posted)
    BY <2>2
  <2>4. p = 0 \/ p \in DOMAIN down \/ p - Len(down) \in DOMAIN posted
    BY <1>4, <1>6 DEF Due, DueDown, DuePosted
  <2>5. p < last
    <3>1. PICK a \in Nat, b \in Nat : a = Len(down) /\ b = Len(posted)
      BY <2>3
    <3>2. p = 0 \/ p \in 1 .. a \/ p - a \in 1 .. b
      BY <2>3, <2>4, <3>1
    <3>3. last = a + b + 1
      BY <1>3, <3>1
    <3> QED BY <3>2, <3>3
  <2> QED BY <2>1, <2>5
<1>7. ASSUME NEW p \in Nat, NEW n \in Nat, Due(p, n), link \in remoteSubs PROVE DueLast'
  <2>1. subs # {} \/ ~NothingDown \/ ~NothingPosted
    BY <1>4, <1>7 DEF Due, DueDown, DuePosted, NothingDown, NothingPosted, DownReply, PostedReply
  <2>2. link \in peers
    BY <1>7 DEF PeerInv
  <2> QED BY <1>1, <1>7, <2>1, <2>2 DEF DueLast, NothingDown, NothingPosted, DownReply, PostedReply
<1>8. ASSUME NEW p \in Nat, NEW n \in Nat, Due(p, n)' PROVE n \in 1 .. published'
  <2>1. CASE Due(p, n)
    <3>1. n \in 1 .. published BY <2>1 DEF GapInv
    <3> QED BY <1>1, <1>2, <3>1
  <2>2. CASE n = published + 1
    BY <1>1, <1>2, <2>2
  <2> QED BY <1>5, <1>8, <2>1, <2>2
<1>9. OrderDue'
  <2>1. SUFFICES ASSUME NEW p \in Nat, NEW q \in Nat, NEW m \in Nat, NEW n \in Nat,
                        Due(p, m)', Due(q, n)'
                 PROVE  p < q <=> m < n
    BY DEF OrderDue
  <2>2. CASE Due(p, m) /\ Due(q, n)
    BY <2>2 DEF GapInv, OrderDue
  <2>3. CASE p = last /\ m = published + 1 /\ q = last /\ n = published + 1
    BY <2>3
  <2>4. CASE p = last /\ m = published + 1 /\ Due(q, n)
    <3>1. q < last /\ n <= published BY <1>6, <2>4
    <3> QED BY <1>2, <2>4, <3>1
  <2>5. CASE Due(p, m) /\ q = last /\ n = published + 1
    <3>1. p < last /\ m <= published BY <1>6, <2>5
    <3> QED BY <1>2, <2>5, <3>1
  <2> QED BY <1>5, <2>1, <2>2, <2>3, <2>4, <2>5
<1>10. NoneMissing'
  <2>1. SUFFICES ASSUME NEW p \in Nat, NEW q \in Nat, NEW m \in Nat, NEW n \in Nat, NEW k \in Nat,
                        Due(p, m)', Due(q, n)', m < k, k < n
                 PROVE  \E l \in Nat : Due(l, k)'
    BY DEF NoneMissing
  <2>2. CASE Due(p, m) /\ Due(q, n)
    <3>1. PICK l \in Nat : Due(l, k)
      BY <2>1, <2>2 DEF GapInv, NoneMissing
    <3> QED BY <1>5, <3>1
  <2>3. CASE Due(p, m) /\ n = published + 1 /\ DueLast'
    <3>1. link \in remoteSubs
      BY <1>1, <2>3 DEF DueLast
    <3>2. PICK l \in Nat, i \in Nat : Due(l, i) /\ i = published
      BY <2>3, <3>1 DEF GapInv, ReachLast
    <3>3. k = published \/ k < published
      BY <1>2, <2>1, <2>3
    <3>4. CASE k = published
      BY <1>5, <3>2, <3>4
    <3>5. CASE k < i
      <4>1. \E j \in Nat : Due(j, k)
        BY <2>1, <2>3, <3>2, <3>5 DEF GapInv, NoneMissing
      <4> QED BY <1>5, <2>1, <4>1
    <3> QED BY <3>2, <3>3, <3>4, <3>5
  <2>4. CASE m = published + 1
    <3>1. n \in 1 .. published + 1 BY <1>1, <1>8, <2>1
    <3> QED BY <1>2, <2>1, <2>4, <3>1
  <2> QED BY <1>5, <2>1, <2>2, <2>3, <2>4
<1>11. ReachLast'
  <2>1. SUFFICES ASSUME link' \in remoteSubs', NEW p \in Nat, NEW n \in Nat, Due(p, n)'
                 PROVE  \E l, k \in Nat : Due(l, k)' /\ k = published'
    BY DEF ReachLast
  <2>2. DueLast'
    BY <1>1, <1>5, <1>7, <2>1
  <2>3. PICK k \in Nat : k = published + 1
    BY <1>2
  <2>4. Due(last, k)'
    BY <1>5, <2>2, <2>3
  <2> QED BY <1>1, <2>3, <2>4
<1>12. publishing'.to # {} => publishing'.signal = published' /\ published' # 0
  BY <1>1, <1>2
<1> QED BY <1>8, <1>9, <1>10, <1>11, <1>12 DEF GapInv

\* A signal is posted to the subscriber.
LEMMA PublishedDue ==
  ASSUME TypeOK, link \in peers, link \in publishing.to, Post(link, Signal(publishing.signal)),
         UNCHANGED <<subs, lastSeen, link, down, peers>>,
         publishing'.to = publishing.to \ {link},
         NEW p \in Nat, NEW n \in Nat
  PROVE  Due(p, n)' <=> Due(p, n)
<1>1. /\ DOMAIN posted' = 1 .. Len(posted) + 1
      /\ DOMAIN posted = 1 .. Len(posted) /\ Len(posted) \in Nat
      /\ \A i \in DOMAIN posted : posted'[i] = posted[i]
      /\ posted'[Len(posted) + 1] = [to |-> link, msg |-> Signal(publishing.signal)]
  BY PostFacts
<1>2. PICK b \in Nat : b = Len(posted)
  BY <1>1
<1>3. /\ posted'[b + 1].to = link /\ posted'[b + 1].msg.kind = "signal"
      /\ posted'[b + 1].msg.n = publishing.signal
  BY <1>1, <1>2 DEF Signal
<1>4. \A i \in DOMAIN posted' : i \in DOMAIN posted \/ i = b + 1
  BY <1>1, <1>2
<1>5. \A i : PostedReply(i)' <=> PostedReply(i)
  BY <1>1, <1>2, <1>3, <1>4 DEF PostedReply
<1>6. NothingDown' <=> NothingDown
  BY DEF NothingDown, DownReply
<1>7. \A i : DueDown(i)' <=> DueDown(i)
  BY DEF DueDown, DownReply
<1>8. ~DueLast'
  BY DEF DueLast
<1>9. \A i \in DOMAIN posted : (DuePosted(i)' <=> DuePosted(i)) /\ posted'[i] = posted[i]
  BY <1>1, <1>4, <1>5, <1>6 DEF DuePosted, PostedReply
<1>10. DuePosted(b + 1)' <=> DueLast
  <2>1. (\E j \in DOMAIN posted' : j < b + 1 /\ PostedReply(j)') <=> ~NothingPosted
    <3>1. \A j \in DOMAIN posted : j \in DOMAIN posted' /\ j < b + 1
      BY <1>1, <1>2
    <3> QED BY <1>5, <3>1 DEF NothingPosted, PostedReply
  <2>2. b + 1 \in DOMAIN posted'
    BY <1>1, <1>2
  <2> QED BY <1>3, <1>6, <2>1, <2>2 DEF DuePosted, DueLast
<1>11. PICK i : i = p - Len(down)
  OBVIOUS
<1>12. p = Len(down) + Len(posted) + 1 <=> i = b + 1
  <2>1. down \in Seq(Message)
    BY DEF TypeOK
  <2>2. PICK a \in Nat : a = Len(down)
    BY <2>1
  <2>3. p = a + b + 1 <=> p - a = b + 1
    BY <1>2, <2>2
  <2> QED BY <1>2, <1>11, <2>2, <2>3
<1>13. (DuePosted(p - Len(down)) /\ posted[p - Len(down)].msg.n = n)'
         <=> \/ DuePosted(i) /\ posted[i].msg.n = n
             \/ i = b + 1 /\ DueLast /\ publishing.signal = n
  <2>1. (p - Len(down))' = i
    BY <1>11
  <2>2. CASE i \in DOMAIN posted
    <3>1. i # b + 1
      BY <1>1, <1>2, <2>2
    <3> QED BY <1>9, <2>1, <2>2, <3>1
  <2>3. CASE i = b + 1
    <3>1. i \notin DOMAIN posted
      BY <1>1, <1>2, <2>3
    <3>2. ~DuePosted(i)
      BY <3>1 DEF DuePosted
    <3> QED BY <1>3, <1>10, <2>1, <2>3, <3>2
  <2>4. CASE i \notin DOMAIN posted /\ i # b + 1
    <3>1. ~DuePosted(i) /\ ~DuePosted(i)'
      BY <1>4, <2>4 DEF DuePosted
    <3> QED BY <2>1, <2>4, <3>1
  <2> QED BY <2>2, <2>3, <2>4
<1> QED BY <1>7, <1>8, <1>11, <1>12, <1>13 DEF Due

\* The reply is posted behind everything that is on its way.
LEMMA ReplyGap ==
  ASSUME TypeOK, PeerInv, CallInv, WayInv, GapInv, SendReply
  PROVE  GapInv'
<1>1. /\ Post(handling.peer, Reply(handling.id, handling.ok))
      /\ UNCHANGED <<subs, lastSeen, link, down, publishing, published, peers, remoteSubs>>
      /\ handling.step = "reply"
  BY DEF SendReply, Untouched, subVars, linkVars, pubVars, sigVars
<1>2. PublishingInv'
  BY <1>1 DEF PublishingInv, GapInv
<1>3. CASE handling.peer # link
  BY <1>1, <1>2, <1>3, PostDue
<1>4. CASE handling.peer = link
  <2>1. InHand
    BY <1>1, <1>4 DEF InHand, PeerInv, Free, TypeOK, Peer, NoPeer
  <2>2. unanswered # {} /\ NothingPosted /\ NothingDown /\ subs = {}
    BY <2>1 DEF WayInv, CallInv
  <2>3. /\ DOMAIN posted' = 1 .. Len(posted) + 1
        /\ DOMAIN posted = 1 .. Len(posted) /\ Len(posted) \in Nat
        /\ \A i \in DOMAIN posted : posted'[i] = posted[i]
        /\ posted'[Len(posted) + 1] = [to |-> handling.peer, msg |-> Reply(handling.id, handling.ok)]
    BY <1>1, PostFacts
  <2>4. \A i \in DOMAIN posted' : PostedReply(i)' => i = Len(posted) + 1
    BY <1>1, <2>2, <2>3 DEF PostedReply, NothingPosted
  <2>5. \A i : ~DuePosted(i)'
    <3>1. SUFFICES ASSUME NEW i, DuePosted(i)' PROVE FALSE
      OBVIOUS
    <3>2. i \in DOMAIN posted' /\ subs' = {} /\ NothingDown'
      BY <1>1, <2>2, <3>1 DEF DuePosted, NothingDown, DownReply
    <3>3. PICK j \in DOMAIN posted' : j < i /\ PostedReply(j)'
      BY <3>1, <3>2 DEF DuePosted
    <3>4. j = Len(posted) + 1
      BY <2>4, <3>3
    <3> QED BY <2>3, <3>2, <3>3, <3>4
  <2>6. \A i : ~DueDown(i)'
    BY <1>1, <2>2 DEF DueDown, NothingDown, DownReply
  <2>7. \A p, n \in Nat : Due(p, n)' => /\ p = (Len(down) + Len(posted) + 1)'
                                        /\ n = published /\ published # 0
    BY <1>1, <1>2, <2>2, <2>5, <2>6 DEF Due, DueLast, PublishingInv
  <2>8. published \in Nat
    BY BoundAssumption DEF TypeOK
  <2>9. PICK last : last = (Len(down) + Len(posted) + 1)'
    OBVIOUS
  <2>10. \A p, n \in Nat : Due(p, n)' => p = last /\ n = published' /\ published' # 0
    BY <1>1, <2>7, <2>9
  <2>11. published' \in Nat
    BY <1>1, <2>8
  <2>12. \A p, n \in Nat : Due(p, n)' => n \in 1 .. published'
    BY <2>10, <2>11
  <2>13. OrderDue'
    <3>1. SUFFICES ASSUME NEW p \in Nat, NEW q \in Nat, NEW m \in Nat, NEW n \in Nat,
                          Due(p, m)', Due(q, n)'
                   PROVE  p < q <=> m < n
      BY DEF OrderDue
    <3>2. p = q /\ m = n
      BY <2>10, <3>1
    <3> QED BY <3>1, <3>2
  <2>14. NoneMissing'
    <3>1. SUFFICES ASSUME NEW p \in Nat, NEW q \in Nat, NEW m \in Nat, NEW n \in Nat, NEW k \in Nat,
                          Due(p, m)', Due(q, n)', m < k, k < n
                   PROVE  FALSE
      BY DEF NoneMissing
    <3>2. m = n
      BY <2>10, <3>1
    <3> QED BY <3>1, <3>2
  <2>15. ReachLast'
    BY <2>10 DEF ReachLast
  <2> QED BY <1>2, <2>12, <2>13, <2>14, <2>15 DEF GapInv, PublishingInv
<1> QED BY <1>3, <1>4

LEMMA PublisherGap ==
  ASSUME TypeOK, PeerInv, CallInv, WayInv, GapInv, PublisherNext
  PROVE  GapInv'
<1> USE DEF Elsewhere, Untouched, subVars, wireVars, linkVars, objVars, pubVars, sockVars, sigVars
<1>1. CASE DeliverPosted
  <2>1. UNCHANGED <<subs, lastSeen, link, publishing, published, peers, remoteSubs>>
    BY <1>1 DEF DeliverPosted
  <2>2. PublishingInv'
    BY <2>1 DEF PublishingInv, GapInv
  <2>3. CASE Head(posted).to # link
    BY <1>1, <2>3, DeliverOtherDue
  <2>4. CASE Head(posted).to = link /\ link \in peers
    <3>1. \A p, n \in Nat : Due(p, n)' <=> Due(p, n)
      BY <1>1, <2>4, DeliverDue
    <3> QED BY <2>1, <2>2, <3>1, DueSame
  <2>5. CASE link \notin peers
    <3>1. down' = down
      BY <1>1, <2>5 DEF DeliverPosted
    <3>2. \A p, n \in Nat : Due(p, n)' <=> Due(p, n)
      BY <2>1, <2>5, <3>1 DEF Due, DueDown, DuePosted, DueLast, DownReply
    <3> QED BY <2>1, <2>2, <3>2, DueSame
  <2> QED BY <2>3, <2>4, <2>5
<1>2. CASE Add
  <2>1. UNCHANGED <<subs, lastSeen, link, down, posted, publishing, published, peers>>
    BY <1>2 DEF Add
  <2>2. CASE handling.peer # link
    <3>1. link \in remoteSubs' => link \in remoteSubs
      BY <1>2, <2>2 DEF Add
    <3> QED BY <2>1, <3>1, DueFrame
  <2>3. CASE handling.peer = link
    <3>1. InHand
      BY <1>2, <2>3 DEF Add, InHand, PeerInv, Free, TypeOK, Peer, NoPeer
    <3>2. subs = {} /\ NothingPosted /\ NothingDown
      BY <3>1 DEF WayInv, CallInv
    <3>3. \A p, n \in Nat : ~Due(p, n)
      BY <3>2, NotLive
    <3> QED BY <2>1, <3>3, DueFrame
  <2> QED BY <2>2, <2>3
<1>3. CASE Recheck \/ Undo
  <2>1. UNCHANGED <<subs, lastSeen, link, down, posted, publishing, published, peers>>
        /\ remoteSubs' \subseteq remoteSubs
    BY <1>3 DEF Recheck, Undo
  <2> QED BY <2>1, DueFrame
<1>4. CASE SendReply
  BY <1>4, ReplyGap
<1>5. ASSUME NEW e \in Peer, ReceiveSubscribe(e) \/ ReceiveUnsubscribe(e) PROVE GapInv'
  <2>1. UNCHANGED <<subs, lastSeen, link, down, posted, publishing, published, peers>>
        /\ remoteSubs' \subseteq remoteSubs
    BY <1>5 DEF ReceiveSubscribe, ReceiveUnsubscribe
  <2> QED BY <2>1, DueFrame
<1>6. ASSUME NEW e \in Peer, LosePeer(e) PROVE GapInv'
  <2>1. /\ UNCHANGED <<subs, lastSeen, link, down, posted, publishing, published>>
        /\ peers' = peers \ {e} /\ remoteSubs' = remoteSubs \ {e}
    BY <1>6 DEF LosePeer
  <2>2. CASE e # link
    BY <2>1, <2>2, DueFrame
  <2>3. CASE e = link
    <3>1. \A i : ~DuePosted(i)'
      BY <2>1, <2>3 DEF DuePosted
    <3>2. ~DueLast'
      BY <2>1, <2>3 DEF DueLast
    <3>3. \A p, n \in Nat : Due(p, n)' <=>
            (p = 0 /\ n # 0 /\ \E r \in subs : lastSeen[r] = n) \/ (DueDown(p) /\ down[p].n = n)
      BY <2>1, <3>1, <3>2 DEF Due, DueDown, DownReply
    <3>4. \A p, n \in Nat : Due(p, n)' => Due(p, n)
      BY <3>3 DEF Due
    <3>5. Len(down) \in Nat /\ Len(posted) \in Nat
          /\ DOMAIN down = 1 .. Len(down) /\ DOMAIN posted = 1 .. Len(posted)
      <4>1. down \in Seq(Message) /\ posted \in Seq([to : Peer, msg : Message])
        BY DEF TypeOK
      <4> QED BY <4>1
    <3>6. PICK a \in Nat, b \in Nat : a = Len(down) /\ b = Len(posted)
      BY <3>5
    <3>7. ASSUME NEW p \in Nat, NEW n \in Nat, Due(p, n), ~Due(p, n)' PROVE p > a
      <4>1. p - a \in 1 .. b \/ p = a + b + 1
        BY <3>3, <3>5, <3>6, <3>7 DEF Due, DuePosted
      <4> QED BY <4>1, <3>6
    <3>8. ASSUME NEW p \in Nat, NEW n \in Nat, Due(p, n)' PROVE p <= a
      <4>1. p = 0 \/ p \in 1 .. a
        BY <3>3, <3>5, <3>6, <3>8 DEF DueDown
      <4> QED BY <4>1, <3>6
    <3>9. PICK f \in [Nat -> Nat] : f = [p \in Nat |-> p]
      OBVIOUS
    <3>10. \A p \in Nat : f[p] = p
      BY <3>9
    <3>11. MoveUp(f)
      BY <3>4, <3>10 DEF MoveUp
    <3>12. FewLost
      <4>1. SUFFICES ASSUME NEW p \in Nat, NEW n \in Nat, Due(p, n), ~\E l \in Nat : Due(l, n)',
                            NEW q \in Nat, NEW m \in Nat, Due(q, m)'
                     PROVE  m < n
        BY <2>1, <2>3 DEF FewLost
      <4>2. q <= a /\ p > a /\ Due(q, m)
        BY <3>4, <3>7, <3>8, <4>1
      <4>3. q < p
        BY <4>1, <4>2, <3>6
      <4>4. q < p <=> m < n
        BY <4>1, <4>2 DEF GapInv, OrderDue
      <4> QED BY <4>3, <4>4
    <3>13. published \in Nat
      BY BoundAssumption DEF TypeOK
    <3>14. publishing'.to # {} => publishing'.signal = published /\ published # 0
      BY <2>1 DEF GapInv
    <3> QED BY <2>1, <3>9, <3>11, <3>12, <3>13, <3>14, GapKept
  <2> QED BY <2>2, <2>3
<1>7. ASSUME NEW e \in Peer, NotifyRemoved(e) PROVE GapInv'
  <2>1. UNCHANGED <<subs, lastSeen, link, down, publishing, published, peers, remoteSubs>>
    BY <1>7 DEF NotifyRemoved
  <2>2. PublishingInv'
    BY <2>1 DEF PublishingInv, GapInv
  <2>3. CASE e \in peers
    <3>1. Post(e, Removed) /\ Removed.kind \notin {"signal", "reply"}
      BY <1>7, <2>3 DEF NotifyRemoved, Removed
    <3> QED BY <2>1, <2>2, <3>1, PostDue
  <2>4. CASE e \notin peers
    <3>1. posted' = posted
      BY <1>7, <2>4 DEF NotifyRemoved
    <3> QED BY <2>1, <3>1, DueFrame
  <2> QED BY <2>3, <2>4
<1>8. ASSUME NEW e \in Peer, PublishTo(e) PROVE GapInv'
  <2>1. /\ UNCHANGED <<subs, lastSeen, link, down, published, peers, remoteSubs>>
        /\ publishing'.signal = publishing.signal /\ publishing'.to = publishing.to \ {e}
        /\ e \in publishing.to
        /\ IF e \in peers THEN Post(e, Signal(publishing.signal)) ELSE UNCHANGED posted
    BY <1>8 DEF PublishTo, TypeOK
  <2>2. PublishingInv'
    BY <2>1 DEF PublishingInv, GapInv
  <2>3. CASE e # link /\ e \in peers
    BY <2>1, <2>2, <2>3, PostDue
  <2>4. CASE e \notin peers
    <3>1. \A p, n \in Nat : Due(p, n)' <=> Due(p, n)
      <4>1. \A i : (DuePosted(i)' <=> DuePosted(i)) /\ (DueDown(i)' <=> DueDown(i))
        BY <2>1, <2>4 DEF DuePosted, DueDown, DownReply, PostedReply, NothingDown
      <4>2. DueLast' <=> DueLast
        BY <2>1, <2>4 DEF DueLast, NothingDown, NothingPosted, DownReply, PostedReply
      <4> QED BY <2>1, <2>4, <4>1, <4>2 DEF Due
    <3> QED BY <2>1, <2>2, <3>1, DueSame
  <2>5. CASE e = link /\ e \in peers
    <3>1. \A p, n \in Nat : Due(p, n)' <=> Due(p, n)
      BY <2>1, <2>5, PublishedDue
    <3> QED BY <2>1, <2>2, <3>1, DueSame
  <2> QED BY <2>3, <2>4, <2>5
<1>9. CASE MakeObject \/ RemoveObject \/ DropSubscribers \/ ReleaseName
  <2>1. UNCHANGED <<subs, lastSeen, link, down, posted, publishing, published, peers>>
        /\ remoteSubs' \subseteq remoteSubs
    BY <1>9 DEF MakeObject, RemoveObject, DropSubscribers, ReleaseName
  <2> QED BY <2>1, DueFrame
<1>10. CASE Publish
  BY <1>10, PublishGap
<1>11. ASSUME NEW l \in LocalReceiver, LocalAny(l) PROVE GapInv'
  <2>1. UNCHANGED <<subs, lastSeen, link, down, posted, publishing, published, peers, remoteSubs>>
    BY <1>11 DEF LocalAny, LocalStep, LocalCheck, LocalAdd, LocalRecheck, LocalUndo,
                 LocalUnsubscribe
  <2> QED BY <2>1, DueFrame
<1> QED
  BY <1>1, <1>2, <1>3, <1>4, <1>5, <1>6, <1>7, <1>8, <1>9, <1>10, <1>11 DEF PublisherNext, Handle

LEMMA GapStep == TypeOK /\ PeerInv /\ CallInv /\ WayInv /\ GapInv /\ [Next]_vars => GapInv'
<1> SUFFICES ASSUME TypeOK, PeerInv, CallInv, WayInv, GapInv, [Next]_vars PROVE GapInv'
  OBVIOUS
<1>1. CASE SubscriberNext BY <1>1, CallGap, LoopGap DEF SubscriberNext
<1>2. CASE PublisherNext BY <1>2, PublisherGap
<1>3. CASE UNCHANGED vars
  BY <1>3, DueFrame DEF vars, subVars, wireVars, linkVars, pubVars, sockVars, sigVars
<1> QED BY <1>1, <1>2, <1>3, NextSplit

\* A receiver that stays subscribed misses no signal.
LEMMA NextIsDue ==
  ASSUME TypeOK, GapInv, ReceiveSignal, NEW r \in subs, lastSeen[r] # 0
  PROVE  lastSeen'[r] = lastSeen[r] + 1
<1>1. /\ down # <<>> /\ Head(down).kind = "signal"
      /\ lastSeen' = [q \in Receiver |-> IF q \in subs THEN Head(down).n ELSE lastSeen[q]]
  BY DEF ReceiveSignal
<1>2. lastSeen'[r] = Head(down).n /\ lastSeen[r] \in Nat
  BY <1>1 DEF TypeOK
<1>3. PICK m \in Nat : m = lastSeen[r]
  BY <1>2
<1>4. Due(0, m)
  BY <1>3 DEF Due
<1>5. PICK n : n = Head(down).n
  OBVIOUS
<1>6. Due(1, n) /\ n \in Nat
  <2>1. down \in Seq(Message)
    BY DEF TypeOK
  <2>2. 1 \in DOMAIN down /\ Head(down) = down[1] /\ Head(down) \in Message
    BY <1>1, <2>1, TailFacts
  <2>3. Head(down) \in [kind : {"signal", "reply"}, n : Nat, ok : BOOLEAN]
    BY <1>1, <2>2 DEF Message, Removed
  <2>4. n \in Nat
    BY <1>5, <2>3
  <2> QED BY <1>1, <1>5, <2>2, <2>4 DEF Due, DueDown
<1>7. m < n
  BY <1>3, <1>4, <1>6 DEF GapInv, OrderDue
<1>8. ~(m + 1 < n)
  <2>1. SUFFICES ASSUME m + 1 < n PROVE FALSE
    OBVIOUS
  <2>2. PICK l \in Nat, k \in Nat : k = m + 1 /\ Due(l, k)
    <3>1. PICK k \in Nat : k = m + 1
      BY <1>3
    <3>2. m < k /\ k < n
      BY <1>3, <2>1, <3>1
    <3>3. \E l \in Nat : Due(l, k)
      BY <1>3, <1>4, <1>6, <3>1, <3>2 DEF GapInv, NoneMissing
    <3> QED BY <3>1, <3>3
  <2>3. m < k /\ k < n
    BY <1>3, <2>1, <2>2
  <2>4. 0 < l /\ l < 1
    BY <1>3, <1>4, <1>6, <2>2, <2>3 DEF GapInv, OrderDue
  <2> QED BY <2>2, <2>4
<1> QED BY <1>2, <1>3, <1>5, <1>6, <1>7, <1>8

-----------------------------------------------------------------------------
(* The properties *)

LEMMA InvariantHolds == Spec => []PubSubInv
<1>1. Init => PubSubInv
  BY TypeInit, PeerInit, CallInit, WayInit, TableInit, GrantInit, NoEntryInit DEF PubSubInv
<1>2. PubSubInv /\ [Next]_vars => PubSubInv'
  <2> SUFFICES ASSUME PubSubInv, [Next]_vars PROVE PubSubInv'
    OBVIOUS
  <2> USE DEF PubSubInv
  <2>1. TypeOK' BY TypeStep
  <2>2. PeerInv' BY PeerStep
  <2>3. CallInv' BY CallStep
  <2>4. WayInv' BY WayStep
  <2>5. TableInv' BY TableStep
  <2>6. GrantInv' BY <2>4, GrantStep
  <2>7. NoEntryInv' BY <2>4, NoEntryStep
  <2> QED BY <2>1, <2>2, <2>3, <2>4, <2>5, <2>6, <2>7
<1> QED BY <1>1, <1>2, PTL DEF Spec

\* The tables of both signal managers, and what is between them, always have
\* their type; the subscriber is entered under the alias of a connection.
THEOREM TypeCorrect == Spec => []TypeOK
<1>1. PubSubInv => TypeOK
  BY DEF PubSubInv
<1> QED BY <1>1, InvariantHolds, PTL

\* Each answer to a request, also one made up for a lost connection, finds its
\* entry in the table of pending requests, and none comes twice.
THEOREM AnswersExpected == Spec => []AnswersAreExpected
<1>1. PubSubInv => AnswersAreExpected
  <2> SUFFICES ASSUME PubSubInv PROVE AnswersAreExpected
    OBVIOUS
  <2> USE DEF PubSubInv
  <2>1. CASE toSend = <<>>
    <3>1. (\A i \in DOMAIN toSend : toSend[i].id = pending.id /\ unanswered = {}) /\ Len(toSend) <= 1
      BY <2>1
    <3>2. unanswered \subseteq {pending.id} BY DEF CallInv
    <3>3. \A i \in DOMAIN down : down[i].kind = "reply" => down[i].n \in unanswered
      BY DEF WayInv, DownReply, CallInv
    <3> QED BY <3>1, <3>2, <3>3 DEF AnswersAreExpected
  <2>2. CASE toSend # <<>>
    <3>1. toSend = <<[id |-> pending.id, subscribe |-> pending.subscribe]>> /\ unanswered = {}
      BY <2>2 DEF CallInv
    <3>2. (\A i \in DOMAIN toSend : toSend[i].id = pending.id) /\ Len(toSend) <= 1
      BY <3>1
    <3>3. \A i \in DOMAIN down : down[i].kind # "reply"
      BY <3>1 DEF WayInv, DownReply
    <3> QED BY <3>1, <3>2, <3>3 DEF AnswersAreExpected
  <2> QED BY <2>1, <2>2
<1> QED BY <1>1, InvariantHolds, PTL

\* A subscriber that is connected is known to the publisher's context, or will
\* be told that the publisher is gone, unless its request was overtaken by the
\* removal of the publisher.
THEOREM BothSidesAgree == Spec => []SubscriptionsAgree
<1>1. PubSubInv => SubscriptionsAgree
  BY DEF PubSubInv, GrantInv, SubscriptionsAgree, SubscribersAreKnown
<1> QED BY <1>1, InvariantHolds, PTL

\* The publisher's context keeps no entry for a connection or a publisher that
\* is gone, nor for a context in which nobody is or is about to be subscribed.
THEOREM NoStaleEntry == Spec => []NoStaleSubscription
<1>1. PubSubInv => NoStaleSubscription
  BY DEF PubSubInv, TypeOK, PeerInv, TableInv, NoEntryInv, NoStaleSubscription
<1> QED BY <1>1, InvariantHolds, PTL

LEMMA GapAlways == Spec => []GapInv
<1>1. PubSubInv /\ GapInv /\ [Next]_vars => GapInv'
  BY GapStep DEF PubSubInv
<1> QED BY <1>1, GapInit, InvariantHolds, PTL DEF Spec

\* As long as a receiver stays subscribed it gets the signals one after the
\* other, whoever else subscribes, unsubscribes or loses the connection.
THEOREM NothingIsMissed == Spec => NoGap
<1>1. PubSubInv /\ GapInv /\ [Next]_vars =>
        [ReceiveSignal =>
           \A r \in subs : lastSeen[r] # 0 => lastSeen'[r] = lastSeen[r] + 1]_vars
  BY NextIsDue DEF PubSubInv
<1> QED BY <1>1, GapAlways, InvariantHolds, PTL DEF Spec, NoGap
=============================================================================
