------------------------------ MODULE MCContext ------------------------------
(* Instance of Context for TLC: the main thread and two more, two names   *)
(* and four objects, so that a name is used again while its first object  *)
(* is being removed, and stop() finds more than one object.                *)
EXTENDS Context

CONSTANTS main, t1, t2, a, b

MCThreads == {main, t1, t2}
MCNames == {a, b}
=============================================================================
