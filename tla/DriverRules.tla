----------------------------- MODULE DriverRules -----------------------------
(***************************************************************************)
(* What the authors of drivers keep to, as conditions on the steps of a    *)
(* method: from these alone follow the properties of Instrument, whatever  *)
(* drivers there are.  A driver that does not keep to a rule is an         *)
(* exception to the property.                                              *)
(***************************************************************************)
EXTENDS Instrument

(* The steps of s from the i-th one.                                       *)
Rest(s, i) == SubSeq(s, i, Len(s))
Without(s, steps) == \A i \in DOMAIN s : s[i] \notin steps

AllPrograms(d) == {Table[d].open, Table[d].close} \cup Table[d].methods

(* An if has an end.                                                       *)
Nested(s) == \A i \in DOMAIN s : s[i] = "if" => IfEnds(Rest(s, i)) # {}

(* Only open() and close() open and close.                                 *)
OpenSteps == {"markOpen", "markClosed", "topen", "tclose"}
MethodRule(p) == Without(p.body, OpenSteps) /\ Without(p.except.steps, OpenSteps)

(* close(): when all is done that needs the transport the instrument is    *)
(* marked closed, which fails if it is, and only then the transport is     *)
(* closed, which may fail; both outside of a try block.  If an except      *)
(* block does the rest it ends in the same way.                            *)
EndsClosed(s) ==
  /\ Len(s) >= 2 /\ s[Len(s) - 1] = "markClosed" /\ s[Len(s)] = "tclose"
  /\ \A i \in 1 .. Len(s) - 2 : s[i] \notin OpenSteps \cup {"poll"}
CloseRule(d, p) ==
  /\ Table[d].kind # "library"
  /\ EndsClosed(p.body)
  /\ p.except.catches # {} => EndsClosed(p.except.steps)

(* open(): checks first.  Once the transport is open all that may fail     *)
(* stands in a try block whose except block closes the transport again and *)
(* raises.  The instrument is marked open last.                            *)
RollsBack(d, except) ==
  /\ Table[d].kind # "library"
  /\ except.steps = <<"tclose">> /\ except.catches \subseteq except.reraise

(* The steps that may stand in that try block, and those of them that the  *)
(* except block catches, whatever they raise.                              *)
Tried == Steps \ (OpenSteps \cup {"isOpen", "isClosed", "poll", "enter", "leave", "await",
                                  "if", "fi", "try", "done"})
Caught(d, except) ==
  {step \in Tried :
     \/ except.catches = Faults
     \/ /\ step \in {"tell", "query"} /\ Table[d].kind \notin {"vxi11", "gpib"}
        /\ "os" \in except.catches}

(* s is what is left when the transport is open: what is tried stands      *)
(* behind the j-th step, the one that enters the try block, or the block   *)
(* has been entered and j is 0.                                            *)
Trying(d, s, except, least) ==
  \E j \in least .. Len(s) - 2 :
    /\ j > 0 => s[j] = "try"
    /\ \A i \in 1 .. j - 1 : s[i] = "reply"
    /\ \A i \in j + 1 .. Len(s) - 2 : s[i] \in Caught(d, except)
    /\ s[Len(s) - 1] = "done"
Opened(d, s, except, least) ==
  /\ s # <<>> /\ s[Len(s)] = "markOpen"
  /\ Len(s) = 1 \/ (RollsBack(d, except) /\ Trying(d, s, except, least))
Unopened(d, s, except, checked) ==
  \E t \in DOMAIN s :
    /\ s[t] = "topen" /\ \A i \in 1 .. t - 1 : s[i] \in {"isClosed", "valid"}
    /\ checked \/ \E i \in 1 .. t - 1 : s[i] = "isClosed"
    /\ Opened(d, Rest(s, t + 1), except, 1)
OpenRule(d, p) == Unopened(d, p.body, p.except, d \notin Unclosable)

(* A method that enters the CONFIGURATION state leaves it behind all ifs   *)
(* it may skip, and its except block, if any, raises.                      *)
Leaves(s) ==
  \E n \in DOMAIN s :
    /\ s[n] = "leave" /\ \A i \in n .. Len(s) : s[i] # "enter"
    /\ \A i \in 1 .. n : s[i] = "if" => \A k \in IfEnds(Rest(s, i)) : i + k <= n
Tidy(s) == \A i \in DOMAIN s : s[i] = "enter" => Leaves(Rest(s, i))
LeaveRule(p) ==
  \/ Without(p.body, {"enter"}) /\ Without(p.except.steps, {"enter"})
  \/ /\ Without(p.body, {"poll"}) /\ Tidy(p.body)
     /\ p.except.catches \subseteq p.except.reraise

(* A method reads what it asks for, before it does anything that may raise *)
(* (but for a second reply it reads together with the first): a line, or   *)
(* both bytes of it where the transport is a stream of bytes.              *)
ByteStreams == {"serial", "tcp", "udp"}
Lines == {"line", "forever", "scpi"}
TakesReply(d, s) ==
  /\ s # <<>>
  /\ \/ s[1] \in Lines
     \/ /\ Table[d].kind \in ByteStreams
        /\ \/ s[1] \in {"read2", "collect"}
           \/ s[1] \in {"read1", "header"} /\ Len(s) > 1 /\ s[2] \in {"read1", "tail"}
TakesTwo(s) == Len(s) > 1 /\ s[1] \in Lines /\ s[2] \in Lines
TakesDue(d, s) ==
  /\ s # <<>>
  /\ \/ TakesReply(d, s)
     \/ s[1] = "try" /\ TakesReply(d, Tail(s))
     \/ s[1] = "reply" /\ TakesTwo(Tail(s))

(* A reply that takes minutes is asked for in the last step of a method.   *)
AnswersRead(d, s) ==
  \A i \in DOMAIN s :
    /\ s[i] \in {"query", "reply"} =>
         TakesDue(d, Rest(s, i + 1)) \/ (i > 1 /\ s[i - 1] = "await")
    /\ s[i] = "await" => i = Len(s) - 1 /\ s[i + 1] = "query"

(* Where there is such a reply, all replies are lines, and a method looks  *)
(* for the last one before it asks for another.                            *)
Polls(s) ==
  \/ Without(s, {"await"})
  \/ \E j \in DOMAIN s : s[j] = "poll" /\ \A i \in 1 .. j - 1 : s[i] \notin {"await", "if"}
NotLines == (Reads \ Lines) \cup {"reply", "drain"}
Awaits(d) ==
  /\ Table[d].kind \in StreamKinds
  /\ \A p \in AllPrograms(d) : \A s \in {p.body, p.except.steps} :
       Polls(s) /\ Without(s, NotLines)
ReplyRule(d) ==
  /\ \A p \in AllPrograms(d) : AnswersRead(d, p.body) /\ AnswersRead(d, p.except.steps)
  /\ \/ Awaits(d)
     \/ \A p \in AllPrograms(d) : Without(p.body, {"await"}) /\ Without(p.except.steps, {"await"})

ASSUME RulesAssumption ==
  \A d \in DOMAIN Table :
    /\ \A p \in AllPrograms(d) : Nested(p.body) /\ Nested(p.except.steps) /\ LeaveRule(p)
    /\ d \notin HalfOpen \cup Unclosable => \A p \in Table[d].methods : MethodRule(p)
    /\ d \notin Unclosable => CloseRule(d, Table[d].close)
    /\ d \notin HalfOpen => OpenRule(d, Table[d].open)
    /\ d \notin LeavesReplies => ReplyRule(d)
=============================================================================
