--------------------------- MODULE MCMessageRouter ---------------------------
(* Instance of MessageRouter for TLC: two threads of the client, two       *)
(* requests, and connections enough for both to connect at the same time   *)
(* or for one to connect again.  One of the requests may have arguments or *)
(* a result that cannot be pickled.                                        *)
EXTENDS MessageRouter, TLC

CONSTANTS t1, t2, r1, r2

MCThreads == {t1, t2}
MCCalls == (t1 :> {"send", "connect"}) @@ (t2 :> {"connect", "disconnect"})
MCRequests == {r1, r2}
MCUnpicklable == {r2}
=============================================================================
