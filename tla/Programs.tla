------------------------------ MODULE Programs ------------------------------
(***************************************************************************)
(* The methods of the instrument drivers as programs: the steps a method   *)
(* takes on its transport, in the order of the source.                     *)
(***************************************************************************)
EXTENDS Naturals, Sequences

(* The steps a method is made of, in the words of the source:              *)
(*   isOpen, isClosed      _check_is_open(), _check_is_closed()            *)
(*   markOpen, markClosed  QMI_Instrument.open(), .close()                 *)
(*   topen, tclose, flush  transport open(), close(), discard_read()       *)
(*   tell, query           write() of a command, of one that has a reply   *)
(*   reply                 the instrument sends one more reply             *)
(*   line, forever         read_until(), with the driver's timeout or none *)
(*   scpi                  read_until() of ScpiProtocol.ask(), which wants *)
(*                         a terminator at the end                         *)
(*   header, tail          the reads of ScpiProtocol.read_binary_data()    *)
(*   read1, read2          read(n) of half a reply, of a whole one         *)
(*   collect               read_until_timeout()                            *)
(*   drain                 AptProtocol._clear_buffer()                     *)
(*   valid, verify         a check of the arguments, of a reply            *)
(*   await, poll           ask for what takes minutes; see whether it came *)
(*   enter, leave          the CONFIGURATION state of a controller         *)
(*   lib                   a call into a vendor's library or the system    *)
(*   try, done             the ends of a try block                         *)
(*   fail                  raise                                           *)
(*   if, fi                the ends of the body of an if statement         *)
Reads == {"line", "forever", "scpi", "header", "tail", "read1", "read2", "collect"}
Steps == Reads \cup
  {"isOpen", "isClosed", "markOpen", "markClosed", "topen", "tclose", "flush",
   "tell", "query", "reply", "drain", "valid", "verify", "await", "poll",
   "enter", "leave", "lib", "fail", "try", "done", "if", "fi"}

(* The body of an if whose condition a step of the program does not tell.  *)
Maybe(steps) == <<"if">> \o steps \o <<"fi">>

(* ScpiProtocol.ask(): write the query, read the reply and its terminator. *)
Ask == <<"query", "scpi">>

(* A query whose reply must be a number, a truth value, a known word.      *)
AskParsed == Ask \o <<"verify">>

(* ScpiProtocol.read_binary_data(): header, length and data, terminator.   *)
Binary == <<"header", "tail">>

(* The except block of a method: the exceptions it catches, what it does,  *)
(* and which of them it raises again.  "os" stands for OSError.            *)
Faults == {"timeout", "os", "error"}
Except(catches, steps, reraise) ==
  [catches |-> catches, steps |-> steps, reraise |-> reraise]
NoExcept == Except({}, <<>>, {})
Rollback(steps) == Except(Faults, steps, Faults)

(* A method without and with a try block.                                  *)
Plain(body) == [body |-> body, except |-> NoExcept]
Guarded(before, tried, after, except) ==
  [body |-> before \o <<"try">> \o tried \o <<"done">> \o after,
   except |-> except]

(* open() and close() of a driver that does not override them.             *)
BaseOpen == Plain(<<"markOpen">>)
BaseClose == Plain(<<"markClosed">>)

(* A section of a driver's class lists its methods by name: as the steps   *)
(* they take, Each(...) @@ Each(...), or as programs where there is a try  *)
(* block, [name |-> Guarded(...)].                                         *)
Each(names, steps) == [m \in names |-> steps]
Methods(section) == {Plain(section[m]) : m \in DOMAIN section}
Programs(section) == {section[m] : m \in DOMAIN section}

(* A driver: its transport, whether its reads have a timeout, its methods. *)
Driver(kind, timed, open, close, methods) ==
  [kind |-> kind, timed |-> timed, open |-> open, close |-> close,
   methods |-> methods]
=============================================================================
