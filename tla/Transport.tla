------------------------------ MODULE Transport ------------------------------
(***************************************************************************)
(* The transports of qmi.core.transport: what each of them does with the   *)
(* bytes an instrument sends.  `rbuf' is the transport's own _read_buffer; *)
(* `line' holds, in order, the bytes the instrument has sent and nobody    *)
(* has read: some prefix of them has arrived when a read gives up waiting. *)
(* A reply is a body and the message terminator.  Every operator returns   *)
(* the SET of outcomes a call can have, so that the moment at which bytes  *)
(* arrive needs no action of its own.                                      *)
(***************************************************************************)
EXTENDS Naturals, Sequences, SequencesExt

Kinds == {"serial", "tcp", "udp", "vxi11", "usbtmc", "gpib", "library"}

(* The transports that present a byte stream; the others present messages. *)
StreamKinds == {"serial", "tcp", "udp", "vxi11"}

(* The bytes on the line, and the reply to one query.                      *)
Bytes == {"body", "end"}
Reply == <<"body", "end">>

(* An outcome: how the call ended, the bytes it returned, what remains.    *)
Outcome(how, got, rbuf, line) ==
  [how |-> how, got |-> got, rbuf |-> rbuf, line |-> line]

Take(s, n) == SubSeq(s, 1, n)
Drop(s, n) == SubSeq(s, n + 1, Len(s))

(* The places at which s ends in a terminator.                             *)
Ends(s) == {i \in 1..Len(s) : s[i] = "end"}
Finished(s) == Ends(s) # {}
FirstEnds(s) == {i \in Ends(s) : \A j \in Ends(s) : i <= j}
FirstEnd(s) == CHOOSE i \in FirstEnds(s) : TRUE

(* How much of the line a receiver may have when it stops: any prefix for  *)
(* a stream, whole replies where the medium keeps them together.           *)
Arrived(kind, line) ==
  {k \in 0..Len(line) :
     kind \in {"udp", "vxi11", "usbtmc", "gpib"} /\ k > 0 => line[k] = "end"}

-----------------------------------------------------------------------------
(* open() of a closed transport: the socket transports start with an empty *)
(* buffer, and a TCP connection with an empty line; a serial port and a    *)
(* VXI-11 link keep _read_buffer from the connection before.               *)
OpenBuffer(kind, rbuf) == IF kind \in {"tcp", "udp"} THEN <<>> ELSE rbuf
OpenLine(kind, line) == IF kind = "tcp" THEN <<>> ELSE line

(* discard_read(): the buffer goes, and whatever has arrived; the message  *)
(* transports read and drop one message.                                   *)
Discard(kind, rbuf, line) ==
  IF kind \in StreamKinds
  THEN {Outcome("ok", <<>>, <<>>, Drop(line, k)) :
          k \in IF kind = "vxi11" THEN 0..Len(line) ELSE Arrived(kind, line)}
  ELSE {Outcome("ok", <<>>, rbuf, line)}
       \cup {Outcome("ok", <<>>, rbuf, Drop(line, k)) : k \in FirstEnds(line)}

-----------------------------------------------------------------------------
(* read(n), per transport.                                                 *)
FromBuffer(n, rbuf, line) == {Outcome("ok", Take(rbuf, n), Drop(rbuf, n), line)}

\* Mutant: a read that times out forgets what it got.
SerialRead_DropsPartial(n, rbuf, line) ==
  {Outcome("timeout", <<>>, <<>>, Drop(line, k)) : k \in 0..Len(line)}
  \cup {Outcome("ok", Take(line, k), <<>>, Drop(line, k)) :
          k \in {n} \cap 0..Len(line)}

(* A serial port asks for the missing bytes only.                          *)
SerialRead(n, rbuf, line) ==
  IF Len(rbuf) >= n THEN FromBuffer(n, rbuf, line)
  ELSE LET Have(k) == rbuf \o Take(line, k)
       IN  {IF Len(Have(k)) = n
            THEN Outcome("ok", Have(k), <<>>, Drop(line, k))
            ELSE Outcome("timeout", <<>>, Have(k), Drop(line, k)) :
              k \in {j \in 0..Len(line) : Len(rbuf) + j <= n}}

(* A socket reads on while bytes are missing; UDP takes whole packets, so  *)
(* that more than n bytes may be at hand.  When the time is used up just   *)
(* as the last byte comes in, read() raises and keeps all of them.         *)
SocketRead(kind, n, rbuf, line) ==
  IF Len(rbuf) >= n THEN FromBuffer(n, rbuf, line)
  ELSE LET Have(k) == rbuf \o Take(line, k)
           Stops == {k \in Arrived(kind, line) :
                       \A j \in Arrived(kind, line) :
                          Len(rbuf) + j >= n => j >= k}
       IN  {Outcome("timeout", <<>>, Have(k), Drop(line, k)) : k \in Stops}
           \cup {Outcome("ok", Take(Have(k), n), Drop(Have(k), n), Drop(line, k)) :
                   k \in {j \in Stops : Len(rbuf) + j >= n}}

(* VXI-11 appends whole replies until there are n bytes, returns them ALL. *)
Vxi11Read(n, rbuf, line) ==
  IF Len(rbuf) >= n THEN FromBuffer(n, rbuf, line)
  ELSE {IF o.how = "ok" THEN Outcome("ok", o.got \o o.rbuf, <<>>, o.line) ELSE o :
          o \in {x \in SocketRead("vxi11", n, rbuf, line) :
                   x.how = "timeout" => Len(x.rbuf) < n}}

(* USBTMC and GPIB read one message; one of another length is lost.        *)
MessageRead(n, rbuf, line) ==
  {Outcome("timeout", <<>>, rbuf, line)}
  \cup {Outcome(IF k = n THEN "ok" ELSE "error",
                IF k = n THEN Take(line, k) ELSE <<>>, rbuf, Drop(line, k)) :
          k \in FirstEnds(line)}

ReadBytes(kind, n, rbuf, line) ==
  CASE kind = "serial" -> SerialRead(n, rbuf, line)
    [] kind \in {"tcp", "udp"} -> SocketRead(kind, n, rbuf, line)
    [] kind = "vxi11" -> Vxi11Read(n, rbuf, line)
    [] OTHER -> MessageRead(n, rbuf, line)

-----------------------------------------------------------------------------
(* read_until(terminator), per transport.                                  *)

\* Mutant: the terminator stays in the buffer.
StreamReadUntil_KeepsEnd(kind, rbuf, line) ==
  {IF Finished(rbuf \o Take(line, k))
   THEN LET have == rbuf \o Take(line, k)
            e == FirstEnd(have)
        IN  Outcome("ok", Take(have, e), Drop(have, e - 1), Drop(line, k))
   ELSE Outcome("timeout", <<>>, rbuf \o Take(line, k), Drop(line, k)) :
     k \in Arrived(kind, line)}

(* A stream returns up to the first terminator and keeps what lies behind  *)
(* it; without a terminator everything received stays in the buffer.       *)
StreamReadUntil(kind, rbuf, line) ==
  LET Split(k) == LET have == rbuf \o Take(line, k) IN
        IF Finished(have)
        THEN Outcome("ok", Take(have, FirstEnd(have)),
                     Drop(have, FirstEnd(have)), Drop(line, k))
        ELSE Outcome("timeout", <<>>, have, Drop(line, k))
  IN  IF Finished(rbuf) THEN {Split(0)}
      ELSE {Split(k) : k \in Arrived(kind, line)}

(* VXI-11: a reply found in the buffer is returned WITHOUT its terminator, *)
(* which stays at the head of the buffer.                                  *)
Vxi11ReadUntil(rbuf, line) ==
  IF Finished(rbuf)
  THEN {Outcome("ok", Take(rbuf, FirstEnd(rbuf) - 1),
                Drop(rbuf, FirstEnd(rbuf) - 1), line)}
  ELSE {Outcome("timeout", <<>>, rbuf, line)}
       \cup {Outcome("ok", rbuf \o Take(line, k), <<>>, Drop(line, k)) :
               k \in FirstEnds(line)}

(* USBTMC and GPIB: read_until_timeout(); a timeout gives an empty reply.  *)
MessageReadUntil(rbuf, line) ==
  {Outcome("ok", <<>>, rbuf, line)}
  \cup {Outcome("ok", Take(line, k), rbuf, Drop(line, k)) :
          k \in FirstEnds(line)}

ReadUntil(kind, rbuf, line) ==
  CASE kind \in {"serial", "tcp", "udp"} -> StreamReadUntil(kind, rbuf, line)
    [] kind = "vxi11" -> Vxi11ReadUntil(rbuf, line)
    [] OTHER -> MessageReadUntil(rbuf, line)

-----------------------------------------------------------------------------
(* read_until_timeout(n): read(n), and on a timeout whatever was received. *)
ReadUntilTimeout(kind, n, rbuf, line) ==
  IF kind \in StreamKinds
  THEN {IF o.how = "timeout" THEN Outcome("ok", o.rbuf, <<>>, o.line) ELSE o :
          o \in ReadBytes(kind, n, rbuf, line)}
  ELSE MessageReadUntil(rbuf, line)
=============================================================================
