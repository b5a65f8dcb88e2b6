----------------------------- MODULE Instrument -----------------------------
(***************************************************************************)
(* An instrument driver at work: a QMI_Instrument, the transport it owns   *)
(* and the instrument at the other end of the line.  RPC runs the methods  *)
(* of an object one at a time (RpcObject), so a driver is sequential: what *)
(* is hard is where a method STOPS.  Any step may raise, a reply may be    *)
(* late or lost, and the next call starts from whatever was left behind:   *)
(* an open transport under a closed instrument, half a reply in the        *)
(* buffer, a reply nobody asked for any more.                              *)
(*                                                                         *)
(* A driver is a row of Table: its kind of transport, whether its reads    *)
(* have a timeout, and its methods as programs of the steps below.         *)
(***************************************************************************)
EXTENDS Transport, Programs, FiniteSets

CONSTANTS
  Table,     \* the drivers: name -> [kind, timed, open, close, methods]
  HalfOpen,      \* the drivers whose open() may fail halfway and stay there
  Unclosable,    \* those whose close() may fail and leave them open for good
  LeavesReplies, \* those of which a method may leave a reply behind
  MaxLine    \* bound: bytes in rbuf and line together

ASSUME TableAssumption ==
  \A d \in DOMAIN Table :
    /\ Table[d].kind \in Kinds
    /\ Table[d].timed \in BOOLEAN
    /\ \A p \in {Table[d].open, Table[d].close} \cup Table[d].methods :
         /\ p.body \in Seq(Steps) /\ p.body # <<>>
         /\ p.except.catches \subseteq Faults
         /\ p.except.steps \in Seq(Steps)
         /\ p.except.reraise \subseteq Faults
ASSUME ExceptionsAssumption ==
  HalfOpen \cup Unclosable \cup LeavesReplies \subseteq DOMAIN Table
ASSUME MaxLineAssumption == MaxLine \in Nat

VARIABLES
  driver,    \* the driver this instrument runs
  instOpen,  \* QMI_Instrument._is_open
  tOpen,     \* QMI_Transport._is_open (a library handle for kind "library")
  rbuf,      \* QMI_Transport._read_buffer
  line,      \* bytes the instrument sent and the transport has not read
  todo,      \* the steps left of the call in progress, <<>> when idle
  handler,   \* the except block of the method
  failing,   \* an exception is being handled and will be raised again
  outcome,   \* how the last call ended
  calling,   \* which call that was, or is: "open", "close" or "method"
  atCall,    \* instOpen, tOpen and config when that call came in
  clean,     \* every query since the line was last empty got its reply read
  awaited,   \* a reply that takes minutes is awaited (RohdeSchwarz_Base._calibrating)
  config     \* a method has put the controller into its CONFIGURATION state

callVars == <<todo, handler, failing, outcome>>
openVars == <<driver, instOpen, tOpen>>
wireVars == <<rbuf, line, clean>>
modeVars == <<calling, atCall, awaited, config>>
vars == <<openVars, wireVars, callVars, modeVars>>

Kind == Table[driver].kind
Outcomes == {"none", "returned", "raised"}
Idle == todo = <<>>
Now == [inst |-> instOpen, transport |-> tOpen, config |-> config]

Init ==
  /\ driver \in DOMAIN Table
  /\ instOpen = FALSE /\ tOpen = FALSE
  /\ rbuf = <<>> /\ line = <<>>
  /\ todo = <<>> /\ handler = NoExcept /\ failing = FALSE
  /\ outcome = "none" /\ calling = "method"
  /\ clean = TRUE /\ awaited = FALSE /\ config = FALSE /\ atCall = Now

-----------------------------------------------------------------------------
(* A call comes in.                                                        *)
Start(call, p) ==
  /\ Idle
  /\ todo' = p.body /\ handler' = p.except /\ outcome' = "none"
  /\ calling' = call /\ atCall' = Now
  /\ UNCHANGED <<openVars, wireVars, failing, awaited, config>>

CallOpen == Start("open", Table[driver].open)
CallClose == Start("close", Table[driver].close)
CallMethod == \E p \in Table[driver].methods : Start("method", p)

(* The call is over.                                                       *)
Finish(how) ==
  /\ todo' = <<>> /\ handler' = NoExcept /\ failing' = FALSE
  /\ outcome' = how

(* The step succeeds, and these steps are left.                            *)
GoOn(rest) ==
  IF rest # <<>>
  THEN todo' = rest /\ UNCHANGED <<handler, failing, outcome>>
  ELSE Finish(IF failing THEN "raised" ELSE "returned")
Proceed == GoOn(Tail(todo))

(* The step raises: into the except block, if the step stands in the try   *)
(* block and that catches it, or out of the method.                        *)
InTry == \E i \in DOMAIN todo :
           todo[i] = "done" /\ \A j \in 1..i : todo[j] # "try"

RaiseAs(fault) ==
  IF InTry /\ fault \in handler.catches
  THEN IF handler.steps = <<>>
       THEN Finish(IF fault \in handler.reraise THEN "raised" ELSE "returned")
       ELSE /\ todo' = handler.steps /\ handler' = NoExcept
            /\ failing' = (fault \in handler.reraise)
            /\ UNCHANGED outcome
  ELSE Finish("raised")
Raise == RaiseAs("error")

Step == Head(todo)
At(step) == ~Idle /\ Step = step

-----------------------------------------------------------------------------
(* Steps that look at or set _is_open of the instrument.                   *)
CheckOpen ==
  /\ \/ At("isOpen") /\ (IF instOpen THEN Proceed ELSE Raise)
     \/ At("isClosed") /\ (IF instOpen THEN Raise ELSE Proceed)
  /\ UNCHANGED <<openVars, wireVars, modeVars>>

MarkOpen ==
  /\ At("markOpen")
  /\ instOpen' = TRUE
  /\ IF instOpen THEN Raise ELSE Proceed
  /\ UNCHANGED <<driver, tOpen, wireVars, modeVars>>

MarkClosed ==
  /\ At("markClosed")
  /\ instOpen' = FALSE
  /\ IF instOpen THEN Proceed ELSE Raise
  /\ UNCHANGED <<driver, tOpen, wireVars, modeVars>>

\* Mutant: QMI_Transport.open() sets _is_open before it opens the resources.
OpenTransport_MarksFirst ==
  /\ At("topen")
  /\ \/ ~tOpen /\ tOpen' = TRUE /\ (Proceed \/ Raise)
     \/ tOpen /\ Raise /\ UNCHANGED tOpen
  /\ UNCHANGED <<driver, instOpen, wireVars, modeVars>>

(* Opening the transport: refused when it is open, or it fails.            *)
OpenTransport ==
  /\ At("topen")
  /\ \/ /\ ~tOpen
        /\ tOpen' = TRUE
        /\ rbuf' = OpenBuffer(Kind, rbuf) /\ line' = OpenLine(Kind, line)
        /\ clean' = (rbuf' = <<>> /\ line' = <<>>)
        /\ awaited' = FALSE
        /\ Proceed
     \/ /\ Raise
        /\ UNCHANGED <<tOpen, wireVars, awaited>>
  /\ UNCHANGED <<driver, instOpen, calling, atCall, config>>

\* Mutant: the resources are released before _is_open is cleared.
CloseTransport_ReleasesFirst ==
  /\ At("tclose")
  /\ \/ tOpen /\ tOpen' = FALSE /\ Proceed
     \/ Raise /\ UNCHANGED tOpen
  /\ UNCHANGED <<driver, instOpen, wireVars, modeVars>>

(* Closing it: QMI_Transport.close() clears _is_open before the resources  *)
(* are released, so that an error while releasing leaves it closed; what a *)
(* library does is its own affair.                                         *)
CloseTransport ==
  /\ At("tclose")
  /\ \/ /\ tOpen
        /\ tOpen' = FALSE
        /\ Proceed \/ Raise
     \/ /\ ~tOpen \/ Kind = "library"
        /\ Raise
        /\ UNCHANGED tOpen
  /\ UNCHANGED <<driver, instOpen, wireVars, modeVars>>

(* A write on a closed transport is refused; the error of a failing one is *)
(* an OSError except where the transport translates it.                    *)
WriteFails ==
  RaiseAs(IF tOpen /\ Kind \notin {"vxi11", "gpib"} THEN "os" ELSE "error")

(* A command without a reply.                                              *)
Tell ==
  /\ At("tell")
  /\ (tOpen /\ Proceed) \/ WriteFails
  /\ UNCHANGED <<openVars, wireVars, modeVars>>

(* A query: the reply goes onto the line, or the instrument stays silent.  *)
Room == Len(rbuf) + Len(line) + Len(Reply) <= MaxLine
Replies == \/ Room /\ line' = line \o Reply /\ UNCHANGED clean
           \/ clean' = FALSE /\ UNCHANGED line

Query ==
  /\ At("query")
  /\ \/ tOpen /\ Replies /\ Proceed
     \/ WriteFails /\ UNCHANGED <<line, clean>>
  /\ UNCHANGED <<openVars, rbuf, modeVars>>

(* The instrument sends one more reply to what it was asked.               *)
SecondReply ==
  /\ At("reply")
  /\ Replies
  /\ Proceed
  /\ UNCHANGED <<openVars, rbuf, modeVars>>

(* The command of which the next step is the query is one that takes long. *)
Await ==
  /\ At("await")
  /\ awaited' = TRUE
  /\ Proceed
  /\ UNCHANGED <<openVars, wireVars, calling, atCall, config>>

-----------------------------------------------------------------------------
(* The ways a read can end.                                                *)
ReadOutcomes(step) ==
  CASE step \in {"read1", "header", "tail"} -> ReadBytes(Kind, 1, rbuf, line)
    [] step = "read2" -> ReadBytes(Kind, 2, rbuf, line)
    [] step = "collect" -> ReadUntilTimeout(Kind, MaxLine + 1, rbuf, line)
    [] OTHER -> ReadUntil(Kind, rbuf, line)

(* A transport that is closed refuses to read, except that the sockets'    *)
(* read_until() first looks for a message in the buffer.                   *)
Readable(step) ==
  \/ tOpen
  \/ Kind \in {"tcp", "udp"} /\ step \in {"line", "forever", "scpi"} /\ Finished(rbuf)

(* Without a timeout the serial port and the sockets wait as long as it    *)
(* takes; VXI-11 and the message transports put in a timeout of their own. *)
Waits(step) ==
  /\ Kind \in {"serial", "tcp", "udp"}
  /\ step = "forever" \/ (step # "collect" /\ ~Table[driver].timed)

(* A read that got what it asked for, and one the method is content with:  *)
(* ask() wants a terminator, read_binary_data() a '#' and a terminator.    *)
Full(step, got) ==
  IF step \in {"read1", "header"} THEN got # <<>> ELSE Finished(got)
Accepted(step, got) ==
  /\ step \in {"scpi", "tail"} => Finished(got)
  /\ step = "header" => ~Finished(got)

(* The end of the input, or an error of the device, may come at any time.  *)
ReadFails ==
  /\ RaiseAs(IF tOpen /\ Kind = "serial" THEN "os" ELSE "error")
  /\ clean' = FALSE
  /\ UNCHANGED <<rbuf, line>>

Read ==
  /\ ~Idle /\ Step \in Reads
  /\ \/ /\ Readable(Step)
        /\ \E o \in ReadOutcomes(Step) :
             /\ o.how = "timeout" => ~Waits(Step)
             /\ rbuf' = o.rbuf /\ line' = o.line
             /\ clean' = (clean /\ o.how = "ok" /\ Full(Step, o.got))
             /\ CASE o.how # "ok" -> RaiseAs(o.how)
                  [] o.how = "ok" /\ Accepted(Step, o.got) -> Proceed
                  [] o.how = "ok" /\ ~Accepted(Step, o.got) -> Raise
     \/ ReadFails
  /\ UNCHANGED <<openVars, modeVars>>

(* _internal_poll_calibration_finished(): nothing yet, or the result, and  *)
(* then the error queue is read unless the result is no number.  Only the  *)
(* look for the result stands in a try block, so that an error of the rest *)
(* raises.                                                                 *)
PastTry(steps) == IF steps # <<>> /\ Head(steps) = "done" THEN Tail(steps) ELSE steps

Poll ==
  /\ At("poll")
  /\ \/ /\ ~awaited
        /\ Proceed
        /\ UNCHANGED <<wireVars, awaited>>
     \/ /\ awaited /\ Readable("line")
        /\ \E o \in ReadOutcomes("line") :
             /\ rbuf' = o.rbuf /\ line' = o.line
             /\ awaited' = (o.how # "ok")
             /\ IF o.how = "ok"
                THEN GoOn(Ask \o PastTry(Tail(todo))) \/ Proceed
                ELSE RaiseAs(o.how)
        /\ UNCHANGED clean
     \/ awaited /\ ReadFails /\ UNCHANGED awaited
  /\ UNCHANGED <<openVars, calling, atCall, config>>

(* discard_read(): the message transports do not look whether they are     *)
(* open.  An empty line is a fresh start.                                  *)
Flush ==
  /\ At("flush")
  /\ \/ /\ tOpen \/ Kind \notin StreamKinds
        /\ \E o \in Discard(Kind, rbuf, line) :
             rbuf' = o.rbuf /\ line' = o.line
             /\ clean' = (rbuf' = <<>> /\ line' = <<>>)
        /\ Proceed
     \/ Raise /\ UNCHANGED wireVars
  /\ UNCHANGED <<openVars, modeVars>>

(* AptProtocol._clear_buffer() reads as many bytes as wait in the port,    *)
(* which come from _read_buffer first, until none waits: when none waits   *)
(* to begin with, _read_buffer stays as it is.                             *)
Drain ==
  /\ At("drain")
  /\ \/ /\ tOpen
        /\ \/ UNCHANGED <<rbuf, line>>
           \/ /\ line # <<>>
              /\ rbuf' = <<>>
              /\ \E k \in 1..Len(line) : line' = Drop(line, k)
        /\ clean' = (clean \/ (rbuf' = <<>> /\ line' = <<>>))
        /\ Proceed
     \/ Raise /\ UNCHANGED wireVars
  /\ UNCHANGED <<openVars, modeVars>>

-----------------------------------------------------------------------------
(* Checks of the arguments and of a reply, calls into a library, raise.    *)
Check ==
  /\ \/ At("valid") \/ At("verify") \/ At("lib")
     \/ At("fail")
  /\ (Step # "fail" /\ Proceed) \/ Raise
  /\ UNCHANGED <<openVars, wireVars, modeVars>>

(* An if whose condition the program does not tell.                        *)
Before(s, k, step) == Cardinality({i \in 1..k : s[i] = step})
IfEnds(s) == {k \in DOMAIN s :
                /\ s[k] = "fi" /\ Before(s, k, "if") = Before(s, k, "fi")
                /\ \A j \in 1..(k - 1) : Before(s, j, "if") > Before(s, j, "fi")}
EndIf == CHOOSE k \in IfEnds(todo) : TRUE

Choose ==
  /\ At("if")
  /\ Proceed \/ GoOn(SubSeq(todo, EndIf + 1, Len(todo)))
  /\ UNCHANGED <<openVars, wireVars, modeVars>>

\* Mutant: a method goes on when the command to leave was not sent.
Leave_IgnoresErrors ==
  /\ At("leave")
  /\ (tOpen /\ config' = FALSE) \/ UNCHANGED config
  /\ Proceed
  /\ UNCHANGED <<openVars, wireVars, calling, atCall, awaited>>

(* Into the CONFIGURATION state, and out of it: a write that fails is all  *)
(* a method can do about it.                                               *)
Enter ==
  /\ At("enter")
  /\ \/ tOpen /\ config' = TRUE /\ Proceed
     \/ WriteFails /\ UNCHANGED config
  /\ UNCHANGED <<openVars, wireVars, calling, atCall, awaited>>

Leave ==
  /\ At("leave")
  /\ config' = FALSE
  /\ (tOpen /\ Proceed) \/ WriteFails
  /\ UNCHANGED <<openVars, wireVars, calling, atCall, awaited>>

(* Entering and leaving a block.                                           *)
Block ==
  /\ At("try") \/ At("done") \/ At("fi")
  /\ Proceed
  /\ UNCHANGED <<openVars, wireVars, modeVars>>

Next ==
  \/ CallOpen \/ CallClose \/ CallMethod
  \/ CheckOpen \/ MarkOpen \/ MarkClosed
  \/ OpenTransport \/ CloseTransport
  \/ Tell \/ Query \/ SecondReply \/ Await \/ Read \/ Poll \/ Flush \/ Drain
  \/ Check \/ Choose \/ Enter \/ Leave \/ Block

Spec == Init /\ [][Next]_vars

-----------------------------------------------------------------------------
TypeOK ==
  /\ driver \in DOMAIN Table
  /\ instOpen \in BOOLEAN /\ tOpen \in BOOLEAN
  /\ atCall \in [inst : BOOLEAN, transport : BOOLEAN, config : BOOLEAN]
  /\ rbuf \in Seq(Bytes) /\ line \in Seq(Bytes) /\ Len(rbuf) + Len(line) <= MaxLine
  /\ todo \in Seq(Steps) /\ handler.steps \in Seq(Steps)
  /\ handler.catches \subseteq Faults /\ handler.reraise \subseteq Faults
  /\ failing \in BOOLEAN /\ outcome \in Outcomes
  /\ calling \in {"open", "close", "method"}
  /\ clean \in BOOLEAN /\ awaited \in BOOLEAN /\ config \in BOOLEAN

(* When open() returns, the instrument and its transport are open; when it *)
(* raises, at whatever step, they are as they were before, so that open()  *)
(* can be called again (the try blocks and the order of the calls in the   *)
(* drivers' open()).                                                       *)
OpenIsAllOrNothing ==
  Idle /\ calling = "open" /\ driver \notin HalfOpen =>
    \/ outcome = "returned" /\ instOpen /\ tOpen
    \/ outcome = "raised" /\ Now = atCall

(* When close() returns, the instrument and its transport are closed; when *)
(* it raises, they still agree, so that the instrument can be closed or    *)
(* opened again (the order of the calls in the drivers' close()).          *)
CloseReleases ==
  /\ Idle /\ calling = "close" /\ atCall.inst = atCall.transport
  /\ driver \notin Unclosable
  => \/ outcome = "returned" /\ ~instOpen /\ ~tOpen
     \/ outcome = "raised" /\ instOpen = tOpen

(* As long as no reply was lost or late, the driver and the instrument are *)
(* in step between calls: whatever a call asked for it has read, also when *)
(* it raised halfway, so that the next query is not given the reply to an  *)
(* earlier one (the reads of every method against its queries).            *)
InSync ==
  Idle /\ tOpen /\ clean /\ ~awaited /\ driver \notin LeavesReplies =>
    rbuf = <<>> /\ line = <<>>

(* A call that returns has taken the controller out of the CONFIGURATION   *)
(* state it put it in (_exit_configuration_state() on every path).         *)
ConfigurationIsLeft ==
  Idle /\ outcome = "returned" /\ ~atCall.config => ~config

(* A read that raises takes no byte from a stream: what came in so far is  *)
(* there for the next read (read() and read_until() of the serial and the  *)
(* socket transports, which fill _read_buffer before they look at the      *)
(* clock).  The terminator of a binary block is compared after it is read. *)
FailedReadKeepsBytes ==
  [][/\ ~Idle /\ Step \in Reads \ {"collect", "tail"}
     /\ Kind \in {"serial", "tcp", "udp"}
     /\ clean /\ ~clean'
     => rbuf' \o line' = rbuf \o line]_vars
=============================================================================
